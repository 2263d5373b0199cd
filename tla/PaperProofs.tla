----------------------------- MODULE PaperProofs -----------------------------
(***************************************************************************)
(* Proofs about PaperPipeline, for any papers, any look of their lines,    *)
(* any sizes of chunks, evidence and batches, and any number of ingests.   *)
(*                                                                         *)
(* Every function of the parser, of chunking, of the card and of the       *)
(* batches has a lemma that says what it makes of what it gets: texts of   *)
(* the paper's lines, sections in the order of the pages, chunks on pages  *)
(* of the paper, rows under names of their own.  Those that loop have a    *)
(* lemma for the loop (LoopExists, LoopKeeps) and one for its step.        *)
(*                                                                         *)
(* PaperInv is inductive: one conjunct for the parser's loop, one for the  *)
(* parsed paper, one for the rows made, one for the rows stored and their  *)
(* vectors, one for the points of the card.  The theorems at the end       *)
(* follow from it.                                                         *)
(***************************************************************************)
EXTENDS PaperPipeline, CitationProofs

-----------------------------------------------------------------------------
(* Loops over lists                                                         *)

\* f has the values of a loop that stays in D, from start on.
Loop(f, D, n, start, step) ==
  /\ f \in [0 .. n -> D] /\ f = [k \in 0 .. n |-> f[k]] /\ f[0] = start
  /\ \A k \in 1 .. n : f[k] = step[k][f[k - 1]] /\ f[k - 1] \in D
  /\ \A k \in 0 .. n : k # 0 => k \in 1 .. n

\* A loop that stays in a set has a value after each of its steps.
LEMMA LoopExists ==
  ASSUME NEW D, NEW n \in Nat, NEW start \in D, NEW step \in [1 .. n -> [D -> D]]
  PROVE  \E f : Loop(f, D, n, start, step)
<1>1. PICK g : Runs(g, D, n, start, step)
  BY RecursionExists
<1>2. g \in [0 .. n -> D] /\ g[0] = start /\ \A i \in 1 .. n : g[i] = step[i][g[i - 1]]
  BY <1>1 DEF Runs
<1>3. g = [k \in 0 .. n |-> g[k]]
  BY <1>2
<1>4. \A k \in 1 .. n : g[k - 1] \in D
  BY <1>2
<1>5. \A k \in 0 .. n : k # 0 => k \in 1 .. n
  OBVIOUS
<1>6. Loop(g, D, n, start, step)
  BY <1>2, <1>3, <1>4, <1>5 DEF Loop
<1> QED  BY <1>6

\* What holds at the start and is kept by every step holds all along.
LEMMA LoopKeeps ==
  ASSUME NEW n \in Nat, NEW f, NEW P, f[0] \in P[0],
         \A k \in 1 .. n : f[k - 1] \in P[k - 1] => f[k] \in P[k]
  PROVE  \A k \in 0 .. n : f[k] \in P[k]
<1> DEFINE A == {k \in Nat : k <= n => f[k] \in P[k]}
<1>1. 0 \in A
  OBVIOUS
<1>2. ASSUME NEW k \in Nat, k \in A PROVE k + 1 \in A
  <2> SUFFICES ASSUME k + 1 <= n PROVE f[k + 1] \in P[k + 1]
    OBVIOUS
  <2>1. PICK m \in 1 .. n : m = k + 1
    OBVIOUS
  <2>2. m - 1 = k /\ f[k] \in P[k]
    BY <1>2, <2>1
  <2> QED  BY <2>1, <2>2
<1> HIDE DEF A
<1>3. \A k \in Nat : k \in A
  BY <1>1, <1>2, SetInduction
<1> QED  BY <1>3 DEF A

\* A loop whose steps stay in a set stays in it.
LEMMA LoopStays ==
  ASSUME NEW D, NEW n \in Nat, NEW f, f = [k \in 0 .. n |-> f[k]], f[0] \in D,
         \A k \in 1 .. n : f[k - 1] \in D => f[k] \in D
  PROVE  f \in [0 .. n -> D]
<1> DEFINE P == [k \in 0 .. n |-> D]
<1>1. \A k \in 0 .. n : P[k] = D
  OBVIOUS
<1>2. \A k \in 1 .. n : k \in 0 .. n /\ k - 1 \in 0 .. n
  OBVIOUS
<1>3. f[0] \in P[0] /\ \A k \in 1 .. n : f[k - 1] \in P[k - 1] => f[k] \in P[k]
  BY <1>1, <1>2
<1> HIDE DEF P
<1>4. \A k \in 0 .. n : f[k] \in P[k]
  BY <1>3, LoopKeeps
<1> QED  BY <1>1, <1>4

-----------------------------------------------------------------------------
(* Texts                                                                    *)

Passages(N) == [of : N, from : Nat, len : Nat \ {0}, gap : {1, 2}, stop : BOOLEAN]
Texts(N)    == Seq(Passages(N))
Full(N)     == Texts(N) \ {<<>>}

\* A line is a passage, and a text of its own.
LEMMA PassageIs ==
  ASSUME NEW N, NEW l \in N, NEW n \in Nat \ {0}, NEW ends \in BOOLEAN
  PROVE  Passage(l, n, ends) \in Passages(N) /\ <<Passage(l, n, ends)>> \in Full(N)
<1>1. Passage(l, n, ends) \in Passages(N)
  BY DEF Passage, Passages
<1> QED  BY <1>1 DEF Full, Texts

\* A text about some names is one about more.
LEMMA TextsGrow ==
  ASSUME NEW N, NEW M, N \subseteq M
  PROVE  Texts(N) \subseteq Texts(M)
<1>1. Passages(N) \subseteq Passages(M)
  BY DEF Passages
<1> QED  BY <1>1 DEF Texts

\* Joining makes a text, with whatever each part has.
LEMMA JoinIs ==
  ASSUME NEW N, NEW a \in Texts(N), NEW b \in Texts(N), NEW blanks \in {1, 2}
  PROVE  /\ Join(a, blanks, b) \in Texts(N)
         /\ a # <<>> \/ b # <<>> => Join(a, blanks, b) \in Full(N)
<1> DEFINE c == [b EXCEPT ![1].gap = blanks]
<1>0. Join(a, blanks, b) = IF a = <<>> THEN b ELSE a \o c
  BY DEF Join
<1>1. c \in Texts(N)
  <2>1. CASE b = <<>>
    <3>1. c = <<>>
      BY <2>1
    <3> HIDE DEF c
    <3> QED  BY <3>1 DEF Texts
  <2>2. CASE b # <<>>
    <3>1. b[1] \in Passages(N) /\ 1 \in DOMAIN b
      BY <2>2 DEF Texts
    <3>2. [b[1] EXCEPT !.gap = blanks] \in Passages(N)
      BY <3>1 DEF Passages
    <3> QED  BY <3>1, <3>2 DEF Texts
  <2> QED  BY <2>1, <2>2
<1> HIDE DEF c
<1>2. a # <<>> => a \o c \in Texts(N) /\ a \o c # <<>>
  BY <1>1 DEF Texts
<1> QED  BY <1>0, <1>2 DEF Full

\* A list of texts is joined one by one.
LEMMA JoinAllLoops ==
  ASSUME NEW N, NEW ts \in Seq(Texts(N)), NEW blanks \in {1, 2}
  PROVE  \E f \in [0 .. Len(ts) -> Texts(N)] :
           /\ f[0] = <<>>
           /\ \A k \in 1 .. Len(ts) : f[k] = Join(f[k - 1], blanks, ts[k])
           /\ JoinAll(ts, blanks) = f[Len(ts)]
<1> DEFINE n == Len(ts)
           D == Texts(N)
           Def(f) == f = [k \in 0 .. n |-> IF k = 0 THEN <<>> ELSE Join(f[k - 1], blanks, ts[k])]
           upto == CHOOSE f : Def(f)
           step == [k \in 1 .. n |-> [a \in D |-> Join(a, blanks, ts[k])]]
<1>1. n \in Nat /\ <<>> \in D /\ \A k \in 1 .. n : ts[k] \in Texts(N)
  BY DEF Texts
<1>2. \A k \in 1 .. n : \A a \in D : Join(a, blanks, ts[k]) \in D
  BY <1>1, JoinIs
<1>3. /\ step \in [1 .. n -> [D -> D]]
      /\ \A k \in 1 .. n : \A a \in D : step[k][a] = Join(a, blanks, ts[k])
  <2> HIDE DEF D
  <2> QED  BY <1>2
<1> HIDE DEF step, n, D
<1>4. PICK g : Loop(g, D, n, <<>>, step)
  BY <1>1, <1>3, LoopExists
<1>5. \A k \in 0 .. n : g[k] = IF k = 0 THEN <<>> ELSE Join(g[k - 1], blanks, ts[k])
  BY <1>3, <1>4 DEF Loop
<1>6. Def(g)
  BY <1>4, <1>5 DEF Loop
<1>7. Def(upto)
  BY <1>6
<1>8. JoinAll(ts, blanks) = upto[n]
  BY DEF JoinAll, Folded, n
<1> HIDE DEF upto
<1>9. upto[0] = <<>> /\ \A k \in 1 .. n : upto[k] = Join(upto[k - 1], blanks, ts[k])
  BY <1>1, <1>7
<1>10. upto \in [0 .. n -> D]
  <2>1. upto = [k \in 0 .. n |-> upto[k]]
    BY <1>7
  <2>2. \A k \in 1 .. n : upto[k - 1] \in D => upto[k] \in D
    BY <1>2, <1>9
  <2> HIDE DEF Def
  <2> QED  BY <1>1, <1>9, <2>1, <2>2, LoopStays
<1> QED  BY <1>8, <1>9, <1>10 DEF n, D

\* A list of texts is a text when joined.
LEMMA JoinAllIs ==
  ASSUME NEW N, NEW ts \in Seq(Texts(N)), NEW blanks \in {1, 2}
  PROVE  JoinAll(ts, blanks) \in Texts(N)
<1>1. PICK f \in [0 .. Len(ts) -> Texts(N)] : JoinAll(ts, blanks) = f[Len(ts)]
  BY JoinAllLoops
<1>2. Len(ts) \in 0 .. Len(ts)
  OBVIOUS
<1> QED  BY <1>1, <1>2

\* The length of a text is summed up passage by passage.
LEMMA TextLenLoops ==
  ASSUME NEW N, NEW t \in Texts(N)
  PROVE  \E f \in [0 .. Len(t) -> Nat] :
           /\ f[0] = 0
           /\ \A k \in 1 .. Len(t) : f[k] = f[k - 1] + t[k].len + (IF k = 1 THEN 0 ELSE t[k].gap)
           /\ TextLen(t) = f[Len(t)]
<1> DEFINE n == Len(t)
           D == Nat
           Def(f) == f = [k \in 0 .. n |-> IF k = 0 THEN 0 ELSE f[k - 1] + t[k].len + (IF k = 1 THEN 0 ELSE t[k].gap)]
           upto == CHOOSE f : Def(f)
           step == [k \in 1 .. n |-> [a \in D |-> a + t[k].len + (IF k = 1 THEN 0 ELSE t[k].gap)]]
<1>1. n \in Nat /\ 0 \in D /\ \A k \in 1 .. n : t[k] \in Passages(N)
  BY DEF Texts
<1>2. \A k \in 1 .. n : \A a \in D : a + t[k].len + (IF k = 1 THEN 0 ELSE t[k].gap) \in D
  BY <1>1 DEF Passages
<1>3. /\ step \in [1 .. n -> [D -> D]]
      /\ \A k \in 1 .. n : \A a \in D : step[k][a] = a + t[k].len + (IF k = 1 THEN 0 ELSE t[k].gap)
  <2> HIDE DEF D
  <2> QED  BY <1>2
<1> HIDE DEF step, n, D
<1>4. PICK g : Loop(g, D, n, 0, step)
  BY <1>1, <1>3, LoopExists
<1>5. \A k \in 0 .. n : g[k] = IF k = 0 THEN 0 ELSE g[k - 1] + t[k].len + (IF k = 1 THEN 0 ELSE t[k].gap)
  BY <1>3, <1>4 DEF Loop
<1>6. Def(g)
  BY <1>4, <1>5 DEF Loop
<1>7. Def(upto)
  BY <1>6
<1>8. TextLen(t) = upto[n]
  BY DEF TextLen, Folded, n
<1> HIDE DEF upto
<1>9. upto[0] = 0 /\ \A k \in 1 .. n : upto[k] = upto[k - 1] + t[k].len + (IF k = 1 THEN 0 ELSE t[k].gap)
  BY <1>1, <1>7
<1>10. upto \in [0 .. n -> D]
  <2>1. upto = [k \in 0 .. n |-> upto[k]]
    BY <1>7
  <2>2. \A k \in 1 .. n : upto[k - 1] \in D => upto[k] \in D
    BY <1>2, <1>9
  <2> HIDE DEF Def
  <2> QED  BY <1>1, <1>9, <2>1, <2>2, LoopStays
<1> QED  BY <1>8, <1>9, <1>10 DEF n, D

\* A text has a length, and one of no passage alone has none.
LEMMA TextLenIs ==
  ASSUME NEW N, NEW t \in Texts(N)
  PROVE  TextLen(t) \in Nat /\ (t = <<>> => TextLen(t) = 0) /\ (t # <<>> => TextLen(t) >= 1)
<1>1. PICK f \in [0 .. Len(t) -> Nat] :
           /\ f[0] = 0
           /\ \A k \in 1 .. Len(t) : f[k] = f[k - 1] + t[k].len + (IF k = 1 THEN 0 ELSE t[k].gap)
           /\ TextLen(t) = f[Len(t)]
  BY TextLenLoops
<1>2. Len(t) \in 0 .. Len(t) /\ Len(t) \in Nat
  BY DEF Texts
<1>3. CASE t = <<>>
  BY <1>1, <1>2, <1>3
<1>4. CASE t # <<>>
  <2>1. PICK m \in 1 .. Len(t) : m = Len(t) /\ t[m] \in Passages(N) /\ m - 1 \in 0 .. Len(t)
    BY <1>4 DEF Texts
  <2>2. t[m].len \in Nat \ {0} /\ t[m].gap \in Nat /\ f[m - 1] \in Nat
    BY <1>1, <2>1 DEF Passages
  <2> QED  BY <1>1, <2>1, <2>2
<1> QED  BY <1>1, <1>2, <1>3, <1>4

\* A passage goes on with the last sentence or begins one.
LEMMA PutPassageIs ==
  ASSUME NEW S, NEW ss \in Seq(Seq(S) \ {<<>>}), NEW p \in S
  PROVE  PutPassage(ss, p) \in Seq(Seq(S) \ {<<>>})
<1>1. <<p>> \in Seq(S) \ {<<>>}
  OBVIOUS
<1>2. CASE ss = <<>> \/ Last(Last(ss)).stop
  <2>1. PutPassage(ss, p) = Append(ss, <<p>>)
    BY <1>2 DEF PutPassage
  <2> QED  BY <1>1, <2>1
<1>3. CASE ~(ss = <<>> \/ Last(Last(ss)).stop)
  <2>1. Len(ss) \in DOMAIN ss /\ ss[Len(ss)] \in Seq(S)
    BY <1>3
  <2>2. Append(ss[Len(ss)], p) \in Seq(S) \ {<<>>}
    BY <2>1
  <2>3. PutPassage(ss, p) = [ss EXCEPT ![Len(ss)] = Append(@, p)]
    BY <1>3 DEF PutPassage
  <2> QED  BY <2>1, <2>2, <2>3
<1> QED  BY <1>2, <1>3

\* The sentences of a text are put together passage by passage.
LEMMA SentencesLoop ==
  ASSUME NEW S, NEW t \in Seq(S)
  PROVE  \E f \in [0 .. Len(t) -> Seq(Seq(S) \ {<<>>})] :
           /\ f[0] = <<>>
           /\ \A k \in 1 .. Len(t) : f[k] = PutPassage(f[k - 1], t[k])
           /\ SplitSentences(t) = f[Len(t)]
<1> DEFINE n == Len(t)
           D == Seq(Seq(S) \ {<<>>})
           Def(f) == f = [k \in 0 .. n |-> IF k = 0 THEN <<>> ELSE PutPassage(f[k - 1], t[k])]
           upto == CHOOSE f : Def(f)
           step == [k \in 1 .. n |-> [a \in D |-> PutPassage(a, t[k])]]
<1>1. n \in Nat /\ <<>> \in D /\ \A k \in 1 .. n : t[k] \in S
  OBVIOUS
<1>2. \A k \in 1 .. n : \A a \in D : PutPassage(a, t[k]) \in D
  BY <1>1, PutPassageIs
<1>3. /\ step \in [1 .. n -> [D -> D]]
      /\ \A k \in 1 .. n : \A a \in D : step[k][a] = PutPassage(a, t[k])
  <2> HIDE DEF D
  <2> QED  BY <1>2
<1> HIDE DEF step, n, D
<1>4. PICK g : Loop(g, D, n, <<>>, step)
  BY <1>1, <1>3, LoopExists
<1>5. \A k \in 0 .. n : g[k] = IF k = 0 THEN <<>> ELSE PutPassage(g[k - 1], t[k])
  BY <1>3, <1>4 DEF Loop
<1>6. Def(g)
  BY <1>4, <1>5 DEF Loop
<1>7. Def(upto)
  BY <1>6
<1>8. SplitSentences(t) = upto[n]
  BY DEF SplitSentences, Folded, n
<1> HIDE DEF upto
<1>9. upto[0] = <<>> /\ \A k \in 1 .. n : upto[k] = PutPassage(upto[k - 1], t[k])
  BY <1>1, <1>7
<1>10. upto \in [0 .. n -> D]
  <2>1. upto = [k \in 0 .. n |-> upto[k]]
    BY <1>7
  <2>2. \A k \in 1 .. n : upto[k - 1] \in D => upto[k] \in D
    BY <1>2, <1>9
  <2> HIDE DEF Def
  <2> QED  BY <1>1, <1>9, <2>1, <2>2, LoopStays
<1> QED  BY <1>8, <1>9, <1>10 DEF n, D

\* Sentences are of the passages of their text.
LEMMA SentencesAre ==
  ASSUME NEW S, NEW t \in Seq(S)
  PROVE  SplitSentences(t) \in Seq(Seq(S) \ {<<>>})
<1>1. PICK f \in [0 .. Len(t) -> Seq(Seq(S) \ {<<>>})] : SplitSentences(t) = f[Len(t)]
  BY SentencesLoop
<1>2. Len(t) \in 0 .. Len(t)
  OBVIOUS
<1> QED  BY <1>1, <1>2

\* What is cut from a text is a text.
LEMMA SliceIs ==
  ASSUME NEW N, NEW t \in Texts(N), NEW first \in Int, NEW last \in Int
  PROVE  Slice(t, first, last) \in Texts(N)
<1> DEFINE Cuts == [of : N, from : Nat, len : Int, gap : {1, 2}, stop : BOOLEAN]
           start(i) == TextLen(SubSeq(t, 1, i)) - t[i].len
           part(i) == Cut(t[i], Max({first - start(i), 0}), Min({last - start(i), t[i].len}))
           parts == [i \in DOMAIN t |-> part(i)]
           I == {i \in DOMAIN parts : parts[i].len > 0}
<1>1. \A i \in DOMAIN t : start(i) \in Int /\ t[i] \in Passages(N)
  <2> SUFFICES ASSUME NEW i \in DOMAIN t PROVE start(i) \in Int /\ t[i] \in Passages(N)
    OBVIOUS
  <2>1. SubSeq(t, 1, i) \in Texts(N) /\ t[i] \in Passages(N)
    BY DEF Texts
  <2>2. TextLen(SubSeq(t, 1, i)) \in Nat
    BY <2>1, TextLenIs
  <2>3. t[i].len \in Nat
    BY <2>1 DEF Passages
  <2> QED  BY <2>1, <2>2, <2>3
<1>2. \A i \in DOMAIN t : part(i) \in Cuts
  <2> SUFFICES ASSUME NEW i \in DOMAIN t PROVE part(i) \in Cuts
    OBVIOUS
  <2>1. start(i) \in Int /\ t[i] \in Passages(N) /\ t[i].len \in Nat
    BY <1>1 DEF Passages
  <2> HIDE DEF start
  <2>2. first - start(i) \in Int /\ last - start(i) \in Int
    BY <2>1
  <2>3. PICK a \in Nat : a = Max({first - start(i), 0})
    BY <2>2, MaxOfTwo
  <2>4. PICK b \in Int : b = Min({last - start(i), t[i].len})
    BY <2>1, <2>2, MinOfTwo
  <2>5. PICK p \in Passages(N) : p = t[i]
    BY <2>1
  <2>6. PICK ends \in BOOLEAN : ends = (p.stop /\ b = p.len)
    OBVIOUS
  <2>7. Cut(p, a, b) = [p EXCEPT !.from = @ + a, !.len = b - a, !.stop = ends]
    BY <2>6 DEF Cut
  <2>8. Cut(p, a, b) = [of |-> p.of, from |-> p.from + a, len |-> b - a, gap |-> p.gap, stop |-> ends]
    BY <2>5, <2>7 DEF Passages
  <2>9. p.of \in N /\ p.from + a \in Nat /\ b - a \in Int /\ p.gap \in {1, 2} /\ ends \in BOOLEAN
    BY <2>3, <2>4, <2>5, <2>6 DEF Passages
  <2>10. Cut(p, a, b) \in Cuts
    BY <2>8, <2>9
  <2> QED  BY <2>3, <2>4, <2>5, <2>10
<1>3. parts \in Seq(Cuts) /\ DOMAIN parts = DOMAIN t
  <2> HIDE DEF part, Cuts
  <2> QED  BY <1>2, EachIs DEF Texts
<1>4. \A i \in I : parts[i] \in Passages(N)
  <2> SUFFICES ASSUME NEW i \in I PROVE parts[i] \in Passages(N)
    OBVIOUS
  <2>1. parts[i] \in Cuts /\ parts[i].len > 0
    BY <1>2, <1>3
  <2> HIDE DEF parts
  <2> QED  BY <2>1 DEF Passages
<1>5. Slice(t, first, last) = Kept(parts, I)
  BY DEF Slice, Select
<1> HIDE DEF parts, Cuts
<1>6. Kept(parts, I) \in Seq({parts[i] : i \in I})
  BY <1>3, KeptIs
<1> QED  BY <1>4, <1>5, <1>6 DEF Texts

\* So is the tail of whole sentences a chunk hands on.
LEMMA OverlapTailIs ==
  ASSUME NEW N, NEW t \in Texts(N), NEW budget \in Nat
  PROVE  OverlapTail(t, budget) \in Texts(N)
<1> DEFINE ss == SplitSentences(t)
           tails == [k \in 0 .. Len(ss) |-> JoinAll(LastOf(ss, k), 1)]
           fit == {k \in DOMAIN tails : TextLen(tails[k]) <= budget}
<1>1. ss \in Seq(Texts(N))
  <2>1. ss \in Seq(Seq(Passages(N)) \ {<<>>})
    BY SentencesAre DEF Texts
  <2> HIDE DEF ss
  <2> QED  BY <2>1 DEF Texts
<1>2. OverlapTail(t, budget) = tails[Max(fit)]
  BY DEF OverlapTail
<1> HIDE DEF ss
<1>3. \A k \in 0 .. Len(ss) : LastOf(ss, k) \in Seq(Texts(N))
  BY <1>1 DEF LastOf
<1>4. \A k \in DOMAIN tails : tails[k] \in Texts(N)
  BY <1>3, JoinAllIs
<1>5. 0 \in fit
  <2>1. LastOf(ss, 0) = <<>>
    BY <1>1 DEF LastOf
  <2>2. JoinAll(<<>>, 1) = <<>>
    <3>0. <<>> \in Seq(Texts(N)) /\ Len(<<>>) = 0
      OBVIOUS
    <3>1. PICK ts \in Seq(Texts(N)) : ts = <<>> /\ Len(ts) = 0
      BY <3>0
    <3>2. PICK f \in [0 .. Len(ts) -> Texts(N)] : f[0] = <<>> /\ JoinAll(ts, 1) = f[Len(ts)]
      BY JoinAllLoops
    <3> QED  BY <3>1, <3>2
  <2>3. TextLen(<<>>) = 0
    <3>0. <<>> \in Texts(N)
      BY DEF Texts
    <3>1. PICK u \in Texts(N) : u = <<>>
      BY <3>0
    <3> QED  BY <3>1, TextLenIs
  <2>4. 0 \in DOMAIN tails /\ tails[0] = <<>>
    BY <1>1, <2>1, <2>2
  <2> QED  BY <2>3, <2>4
<1>6. IsFiniteSet(fit) /\ fit \in SUBSET Int /\ fit \subseteq DOMAIN tails
  <2>1. IsFiniteSet(0 .. Len(ss)) /\ DOMAIN tails = 0 .. Len(ss)
    BY <1>1, FS_Interval
  <2> HIDE DEF tails
  <2> QED  BY <2>1, FS_Subset
<1> HIDE DEF tails, fit
<1>7. Max(fit) \in fit
  BY <1>5, <1>6, MaxIsThere
<1> QED  BY <1>2, <1>4, <1>6, <1>7

-----------------------------------------------------------------------------
(* What comes page by page                                                  *)

Rising(s)     == \A i \in DOMAIN s : \A k \in 1 .. i : s[k].page <= s[i].page
Within(s, P)  == \A i \in DOMAIN s : s[i].page \in P

\* What is kept of a list that rises does.
LEMMA KeptRises ==
  ASSUME NEW S, NEW s \in Seq(S), NEW I \in SUBSET DOMAIN s, NEW P
  PROVE  /\ Rising(s) => Rising(Kept(s, I))
         /\ Within(s, P) => Within(Kept(s, I), P)
<1> DEFINE K == Kept(s, I)
<1>1. /\ DOMAIN K = 1 .. Cardinality(I) /\ Cardinality(I) \in Nat
      /\ \A p \in DOMAIN K : Nth(I, p) \in I /\ K[p] = s[Nth(I, p)]
      /\ \A p, q \in DOMAIN K : p < q => Nth(I, p) < Nth(I, q)
      /\ I \in SUBSET Nat
  BY KeptIs
<1> HIDE DEF K
<1>2. ASSUME Rising(s), NEW i \in DOMAIN K, NEW k \in 1 .. i PROVE K[k].page <= K[i].page
  <2>1. k \in DOMAIN K /\ Nth(I, i) \in DOMAIN s /\ Nth(I, k) \in DOMAIN s
    BY <1>1
  <2>2. Nth(I, k) \in 1 .. Nth(I, i)
    <3>1. Nth(I, k) \in Nat /\ Nth(I, i) \in Nat /\ Nth(I, k) >= 1
      BY <1>1, <2>1
    <3>2. k = i \/ k < i
      BY <1>1
    <3> QED  BY <1>1, <2>1, <3>1, <3>2
  <2> QED  BY <1>1, <1>2, <2>1, <2>2 DEF Rising
<1>3. ASSUME Within(s, P), NEW i \in DOMAIN K PROVE K[i].page \in P
  BY <1>1, <1>3 DEF Within
<1> QED  BY <1>2, <1>3 DEF K, Rising, Within

\* So does a stretch of it.
LEMMA StretchRises ==
  ASSUME NEW S, NEW s \in Seq(S), NEW a \in Nat, NEW b \in Int, a >= 1, b <= Len(s), NEW P
  PROVE  /\ SubSeq(s, a, b) \in Seq(S)
         /\ \A i \in DOMAIN SubSeq(s, a, b) : a + i - 1 \in DOMAIN s /\ SubSeq(s, a, b)[i] = s[a + i - 1]
         /\ Rising(s) => Rising(SubSeq(s, a, b))
         /\ Within(s, P) => Within(SubSeq(s, a, b), P)
<1> DEFINE t == SubSeq(s, a, b)
<1>1. t \in Seq(S)
  OBVIOUS
<1>2. \A i \in DOMAIN t : a + i - 1 \in DOMAIN s /\ t[i] = s[a + i - 1]
  OBVIOUS
<1>3. DOMAIN t = 1 .. Len(t) /\ Len(t) \in Nat
  BY <1>1
<1> HIDE DEF t
<1>4. ASSUME Rising(s), NEW i \in DOMAIN t, NEW k \in 1 .. i PROVE t[k].page <= t[i].page
  <2>1. k \in DOMAIN t /\ i \in Nat /\ k \in Nat /\ a + k - 1 \in 1 .. (a + i - 1)
    BY <1>3
  <2> QED  BY <1>2, <1>4, <2>1 DEF Rising
<1>5. ASSUME Within(s, P), NEW i \in DOMAIN t PROVE t[i].page \in P
  BY <1>2, <1>5 DEF Within
<1> QED  BY <1>1, <1>2, <1>4, <1>5 DEF t, Rising, Within

-----------------------------------------------------------------------------
(* The lines of a paper                                                     *)

Names       == DOMAIN Look
PaperLines  == [of : Names, page : Nat, block : Nat, margin : BOOLEAN, upper : BOOLEAN]
PaperTables == [of : Names, len : Nat \ {0}, page : Nat]
Collecteds  == [passage : Passages(Names), page : Nat, block : Nat]
Paragraphs  == [text : Full(Names), page : Nat]

\* What a look gives.
LEMMA LookIs ==
  ASSUME NEW l \in Names
  PROVE  /\ Look[l].len \in Nat \ {0} /\ Look[l].inline \in 0 .. Look[l].len
         /\ Look[l].size \in Nat /\ Look[l].number \in 0 .. 4
         /\ Look[l].stop \in BOOLEAN /\ Look[l].caption \in {"", "figure", "table"}
  BY LookAssumption DEF Names

\* Without their running headers the lines come page by page still.
LEMMA HeadersGo ==
  ASSUME NEW ls \in Seq(PaperLines), NEW pages, NEW P
  PROVE  LET kept == RemoveRunningHeaders(ls, pages)
         IN  /\ kept \in Seq(PaperLines)
             /\ Rising(ls) => Rising(kept)
             /\ Within(ls, P) => Within(kept, P)
<1>1. PICK I \in SUBSET DOMAIN ls : RemoveRunningHeaders(ls, pages) = Kept(ls, I)
  BY DEF RemoveRunningHeaders, Select
<1>2. Kept(ls, I) \in Seq(PaperLines)
  BY KeptIs
<1>3. (Rising(ls) => Rising(Kept(ls, I))) /\ (Within(ls, P) => Within(Kept(ls, I), P))
  BY KeptRises
<1> QED  BY <1>1, <1>2, <1>3

\* The font size of most characters is one of the sizes.
LEMMA BodyFontSizeIs ==
  ASSUME NEW ls \in Seq(PaperLines)
  PROVE  BodyFontSize(ls) \in Nat
<1> DEFINE size(i) == Look[ls[i].of].size
           letters(z) == [i \in DOMAIN ls |-> IF size(i) = z THEN Look[ls[i].of].len ELSE 0]
           weight(z) == Total(letters(z))
           heaviest(i) == \A k \in DOMAIN ls : weight(size(k)) <= weight(size(i))
           W == {weight(size(i)) : i \in DOMAIN ls}
           H == {i \in DOMAIN ls : heaviest(i)}
<1>1. \A i \in DOMAIN ls : size(i) \in Nat /\ Look[ls[i].of].len \in Nat
  <2> SUFFICES ASSUME NEW i \in DOMAIN ls PROVE size(i) \in Nat /\ Look[ls[i].of].len \in Nat
    OBVIOUS
  <2>1. ls[i] \in PaperLines
    OBVIOUS
  <2>2. ls[i].of \in Names
    BY <2>1 DEF PaperLines
  <2> QED  BY <2>2, LookIs
<1>2. BodyFontSize(ls) = IF ls = <<>> THEN 100
        ELSE size(CHOOSE i \in DOMAIN ls : heaviest(i) /\ \A k \in 1 .. i - 1 : ~heaviest(k))
  BY DEF BodyFontSize
<1>3. \A z : weight(z) \in Nat
  <2> SUFFICES ASSUME NEW z PROVE weight(z) \in Nat
    OBVIOUS
  <2>1. letters(z) \in [DOMAIN ls -> Nat]
    BY <1>1
  <2>2. letters(z) \in Seq(Nat)
    BY <2>1, EachIs
  <2> QED  BY <2>2, TotalIs
<1> HIDE DEF weight, size
<1>4. CASE ls # <<>>
  <2>1. W # {} /\ W \in SUBSET Int
    BY <1>3, <1>4
  <2>2. IsFiniteSet(W)
    <3>1. IsFiniteSet(DOMAIN ls)
      BY FS_Interval
    <3> DEFINE w == [i \in DOMAIN ls |-> weight(size(i))]
    <3>2. W = {w[i] : i \in DOMAIN ls}
      OBVIOUS
    <3>3. w \in Surjection(DOMAIN ls, W)
      BY <3>2 DEF Surjection
    <3> HIDE DEF w, W
    <3> QED  BY <3>1, <3>3, FS_Surjection
  <2>3. PICK i \in DOMAIN ls : weight(size(i)) = Max(W)
    BY <2>1, <2>2, MaxIsThere
  <2>4. i \in H
    BY <2>1, <2>2, <2>3, MaxIsThere
  <2>5. H \in SUBSET Nat /\ H # {}
    BY <2>4
  <2>6. PICK m \in H : \A h \in H : m <= h
    BY <2>5, MinIsThere
  <2>7. m \in DOMAIN ls /\ heaviest(m) /\ \A k \in 1 .. m - 1 : ~heaviest(k)
    <3>1. \A k \in 1 .. m - 1 : k \in DOMAIN ls /\ ~(m <= k)
      BY <2>6
    <3> QED  BY <2>6, <3>1
  <2> HIDE DEF heaviest
  <2>8. (CHOOSE j \in DOMAIN ls : heaviest(j) /\ \A k \in 1 .. j - 1 : ~heaviest(k)) \in DOMAIN ls
    BY <2>7
  <2> QED  BY <1>1, <1>2, <1>4, <2>8
<1> QED  BY <1>2, <1>4

\* The lines of a text are those it is about.
LEMMA LinesAre ==
  ASSUME NEW N, NEW t \in Texts(N)
  PROVE  Lines(t) \subseteq N
<1>1. \A i \in DOMAIN t : t[i] \in Passages(N)
  BY DEF Texts
<1> QED  BY <1>1 DEF Lines, Passages

\* The title is made of lines.
LEMMA DetectTitleIs ==
  ASSUME NEW ls \in Seq(PaperLines), NEW meta, meta.lines \subseteq Names
  PROVE  DetectTitle(ls, meta) \subseteq Names
<1> DEFINE I == {i \in DOMAIN ls : ls[i].page = 1 /\ ls[i].upper}
           first == Kept(ls, I)
           biggest == Max({Look[l.of].size : l \in ToSet(first)})
           large(i) == Look[first[i].of].size >= biggest - 3 /\ Look[first[i].of].len > 3
           runs == {i \in DOMAIN first : large(i) /\ \A a, b \in 1 .. i : (a < b /\ large(a)) => large(b)}
           largest == SubSeq(first, Min(runs), Max(runs))
           parts == [i \in DOMAIN largest |-> <<Passage(largest[i].of, Look[largest[i].of].len, FALSE)>>]
           text == JoinAll(parts, 1)
           usable == /\ TextLen(text) \in TITLE_MIN .. TITLE_MAX
                     /\ ~(Len(text) = 1 /\ Look[text[1].of].pageNumber)
                     /\ meta.len < 8 \/ meta.file
<1>1. DetectTitle(ls, meta) = IF runs # {} /\ usable THEN Lines(text) ELSE meta.lines
  BY DEF DetectTitle, Select
<1> HIDE DEF usable
<1>2. first \in Seq(PaperLines)
  <2>1. I \in SUBSET DOMAIN ls
    OBVIOUS
  <2> QED  BY <2>1, KeptIs
<1> HIDE DEF first
<1>3. runs \subseteq DOMAIN first
  OBVIOUS
<1> HIDE DEF runs
<1>4. ASSUME runs # {} PROVE Lines(text) \subseteq Names
  <2>1. IsFiniteSet(runs) /\ runs \in SUBSET Nat /\ runs \in SUBSET Int
    <3>1. IsFiniteSet(DOMAIN first) /\ DOMAIN first \subseteq Nat
      BY <1>2, FS_Interval
    <3> QED  BY <1>3, <3>1, FS_Subset
  <2>2. Min(runs) \in DOMAIN first /\ Max(runs) \in DOMAIN first
    BY <1>3, <1>4, <2>1, MinIsThere, MaxIsThere
  <2>3. largest \in Seq(PaperLines)
    BY <1>2, <2>2
  <2> HIDE DEF largest
  <2>4. \A i \in DOMAIN largest : parts[i] \in Texts(Names)
    <3> SUFFICES ASSUME NEW i \in DOMAIN largest PROVE <<Passage(largest[i].of, Look[largest[i].of].len, FALSE)>> \in Texts(Names)
      OBVIOUS
    <3>0. largest[i] \in PaperLines
      BY <2>3
    <3>1. largest[i].of \in Names
      BY <3>0 DEF PaperLines
    <3> QED  BY <3>1, LookIs, PassageIs DEF Full
  <2>5. parts \in Seq(Texts(Names))
    <3>1. parts \in [DOMAIN largest -> Texts(Names)]
      BY <2>4
    <3> HIDE DEF parts
    <3> QED  BY <2>3, <3>1, EachIs
  <2>6. text \in Texts(Names)
    BY <2>5, JoinAllIs
  <2> QED  BY <2>6, LinesAre
<1> QED  BY <1>1, <1>4

Blocks == [text : Full(Names), page : Nat, block : Nat]

\* A line goes on with the last paragraph or begins one, on its page.
LEMMA PutLineIs ==
  ASSUME NEW ps \in Seq(Blocks), NEW l \in Collecteds
  PROVE  /\ PutLine(ps, l) \in Seq(Blocks)
         /\ \A i \in DOMAIN PutLine(ps, l) :
              IF i \in DOMAIN ps THEN PutLine(ps, l)[i].page = ps[i].page
              ELSE PutLine(ps, l)[i].page = l.page /\ i = Len(ps) + 1
<1>0. l.passage \in Passages(Names) /\ l.page \in Nat /\ l.block \in Nat /\ <<l.passage>> \in Full(Names)
  BY DEF Collecteds, Full, Texts
<1>1. CASE ps # <<>> /\ Last(ps).block = l.block
  <2> DEFINE n == Len(ps)
  <2>1. PutLine(ps, l) = [ps EXCEPT ![n].text = Join(@, 1, <<l.passage>>)] /\ n \in DOMAIN ps
    BY <1>1 DEF PutLine
  <2>2. PICK p \in Blocks : p = ps[n]
    BY <2>1
  <2>3. PICK t \in Full(Names) : t = Join(p.text, 1, <<l.passage>>)
    <3>1. p.text \in Texts(Names) /\ <<l.passage>> \in Texts(Names) /\ <<l.passage>> # <<>>
      BY <1>0, <2>2 DEF Blocks, Full
    <3>2. Join(p.text, 1, <<l.passage>>) \in Full(Names)
      BY <3>1, JoinIs
    <3> QED  BY <3>2
  <2>4. [p EXCEPT !.text = t] \in Blocks /\ [p EXCEPT !.text = t].page = p.page
    BY <2>2, <2>3 DEF Blocks
  <2>5. PutLine(ps, l) = [ps EXCEPT ![n] = [p EXCEPT !.text = t]]
    BY <2>1, <2>2, <2>3
  <2> HIDE DEF n
  <2> QED  BY <2>1, <2>2, <2>4, <2>5
<1>2. CASE ~(ps # <<>> /\ Last(ps).block = l.block)
  <2> DEFINE b == [text |-> <<l.passage>>, page |-> l.page, block |-> l.block]
  <2>1. PutLine(ps, l) = Append(ps, b)
    BY <1>2 DEF PutLine
  <2>2. b \in Blocks /\ b.page = l.page
    BY <1>0 DEF Blocks
  <2> HIDE DEF b
  <2> QED  BY <2>1, <2>2
<1> QED  BY <1>1, <1>2

\* Paragraphs are put together line by line.
LEMMA ParagraphsLoop ==
  ASSUME NEW ls \in Seq(Collecteds)
  PROVE  \E f \in [0 .. Len(ls) -> Seq(Blocks)] :
           /\ f[0] = <<>>
           /\ \A k \in 1 .. Len(ls) : f[k] = PutLine(f[k - 1], ls[k])
           /\ Folded(PutLine, <<>>, ls) = f[Len(ls)]
<1> DEFINE n == Len(ls)
           D == Seq(Blocks)
           Def(f) == f = [k \in 0 .. n |-> IF k = 0 THEN <<>> ELSE PutLine(f[k - 1], ls[k])]
           upto == CHOOSE f : Def(f)
           step == [k \in 1 .. n |-> [a \in D |-> PutLine(a, ls[k])]]
<1>1. n \in Nat /\ <<>> \in D /\ \A k \in 1 .. n : ls[k] \in Collecteds
  OBVIOUS
<1>2. \A k \in 1 .. n : \A a \in D : PutLine(a, ls[k]) \in D
  BY <1>1, PutLineIs
<1>3. /\ step \in [1 .. n -> [D -> D]]
      /\ \A k \in 1 .. n : \A a \in D : step[k][a] = PutLine(a, ls[k])
  <2> HIDE DEF D
  <2> QED  BY <1>2
<1> HIDE DEF step, n, D
<1>4. PICK g : Loop(g, D, n, <<>>, step)
  BY <1>1, <1>3, LoopExists
<1>5. \A k \in 0 .. n : g[k] = IF k = 0 THEN <<>> ELSE PutLine(g[k - 1], ls[k])
  BY <1>3, <1>4 DEF Loop
<1>6. Def(g)
  BY <1>4, <1>5 DEF Loop
<1>7. Def(upto)
  BY <1>6
<1>8. Folded(PutLine, <<>>, ls) = upto[n]
  BY DEF Folded, n
<1> HIDE DEF upto
<1>9. upto[0] = <<>> /\ \A k \in 1 .. n : upto[k] = PutLine(upto[k - 1], ls[k])
  BY <1>1, <1>7
<1>10. upto \in [0 .. n -> D]
  <2>1. upto = [k \in 0 .. n |-> upto[k]]
    BY <1>7
  <2>2. \A k \in 1 .. n : upto[k - 1] \in D => upto[k] \in D
    BY <1>2, <1>9
  <2> HIDE DEF Def
  <2> QED  BY <1>1, <1>9, <2>1, <2>2, LoopStays
<1> QED  BY <1>8, <1>9, <1>10 DEF n, D

\* Paragraphs are on the pages of their lines, in their order.
LEMMA GroupParagraphsIs ==
  ASSUME NEW ls \in Seq(Collecteds)
  PROVE  /\ GroupParagraphs(ls) \in Seq(Paragraphs)
         /\ Rising(ls) => Rising(GroupParagraphs(ls))
         /\ \A i \in DOMAIN GroupParagraphs(ls) : \E k \in DOMAIN ls : GroupParagraphs(ls)[i].page = ls[k].page
<1> DEFINE n == Len(ls)
           FromLines(ps, k) == \A i \in DOMAIN ps : \E j \in 1 .. k : ps[i].page = ls[j].page
           P == [k \in 0 .. n |-> {ps \in Seq(Blocks) : FromLines(ps, k) /\ (Rising(ls) => Rising(ps))}]
           g == Folded(PutLine, <<>>, ls)
<1>1. PICK f \in [0 .. n -> Seq(Blocks)] :
           f[0] = <<>> /\ (\A k \in 1 .. n : f[k] = PutLine(f[k - 1], ls[k])) /\ g = f[n]
  BY ParagraphsLoop
<1>2. n \in Nat /\ \A k \in 1 .. n : ls[k] \in Collecteds /\ k - 1 \in 0 .. n /\ k \in 0 .. n
  OBVIOUS
<1>3. f[0] \in P[0]
  <2>1. 0 \in 0 .. n /\ f[0] \in Seq(Blocks) /\ f[0] = <<>>
    BY <1>1, <1>2
  <2>2. DOMAIN f[0] = {}
    BY <2>1
  <2> QED  BY <2>1, <2>2 DEF Rising
<1>4. ASSUME NEW k \in 1 .. n, f[k - 1] \in P[k - 1] PROVE f[k] \in P[k]
  <2>1. PICK ps \in Seq(Blocks) : ps = f[k - 1] /\ FromLines(ps, k - 1) /\ (Rising(ls) => Rising(ps))
    BY <1>2, <1>4
  <2>2. PICK qs \in Seq(Blocks) : qs = PutLine(ps, ls[k]) /\ qs = f[k]
    BY <1>1, <1>2, <2>1, PutLineIs
  <2>3. \A i \in DOMAIN qs : IF i \in DOMAIN ps THEN qs[i].page = ps[i].page
                             ELSE qs[i].page = ls[k].page /\ i = Len(ps) + 1
    <3>1. PICK l \in Collecteds : l = ls[k] /\ qs = PutLine(ps, l)
      BY <1>2, <2>2
    <3>2. \A i \in DOMAIN PutLine(ps, l) :
              IF i \in DOMAIN ps THEN PutLine(ps, l)[i].page = ps[i].page
              ELSE PutLine(ps, l)[i].page = l.page /\ i = Len(ps) + 1
      <4>1. ps \in Seq(Blocks) /\ l \in Collecteds
        BY <2>1, <3>1
      <4> HIDE DEF FromLines
      <4> QED  BY ONLY <4>1, PutLineIs
    <3> QED  BY <3>1, <3>2
  <2>4. FromLines(qs, k)
    <3> SUFFICES ASSUME NEW i \in DOMAIN qs PROVE \E j \in 1 .. k : qs[i].page = ls[j].page
      OBVIOUS
    <3>1. CASE i \in DOMAIN ps
      <4>1. PICK j \in 1 .. k - 1 : ps[i].page = ls[j].page
        BY <2>1, <3>1
      <4>2. j \in 1 .. k
        OBVIOUS
      <4> QED  BY <2>3, <3>1, <4>1, <4>2
    <3>2. CASE i \notin DOMAIN ps
      <4>1. k \in 1 .. k
        OBVIOUS
      <4> QED  BY <2>3, <3>2, <4>1
    <3> QED  BY <3>1, <3>2
  <2>5. ASSUME Rising(ls) PROVE Rising(qs)
    <3> SUFFICES ASSUME NEW i \in DOMAIN qs, NEW j \in 1 .. i PROVE qs[j].page <= qs[i].page
      BY DEF Rising
    <3>1. j \in DOMAIN qs /\ i \in Nat /\ j \in Nat
      OBVIOUS
    <3>2. CASE i \in DOMAIN ps
      <4>1. j \in DOMAIN ps
        BY <3>2
      <4>2. ps[j].page <= ps[i].page
        BY <2>1, <2>5, <3>2 DEF Rising
      <4> QED  BY <2>3, <3>1, <3>2, <4>1, <4>2
    <3>3. CASE i \notin DOMAIN ps
      <4>1. qs[i].page = ls[k].page /\ i = Len(ps) + 1
        BY <2>3, <3>3
      <4>2. PICK m \in 1 .. k : qs[j].page = ls[m].page
        BY <2>4, <3>1
      <4>3. ls[m].page <= ls[k].page
        BY <2>5, <4>2 DEF Rising
      <4> QED  BY <4>1, <4>2, <4>3
    <3> QED  BY <3>2, <3>3
  <2> HIDE DEF FromLines
  <2> QED  BY <1>2, <2>2, <2>4, <2>5
<1> HIDE DEF P
<1>5. \A k \in 0 .. n : f[k] \in P[k]
  BY <1>2, <1>3, <1>4, LoopKeeps
<1>6. g \in P[n] /\ n \in 0 .. n
  BY <1>1, <1>2, <1>5
<1>7. g \in Seq(Blocks) /\ FromLines(g, n) /\ (Rising(ls) => Rising(g))
  BY <1>6 DEF P
<1>8. GroupParagraphs(ls) = [i \in DOMAIN g |-> [text |-> g[i].text, page |-> g[i].page]]
  BY DEF GroupParagraphs
<1> HIDE DEF g
<1>9. \A i \in DOMAIN g : [text |-> g[i].text, page |-> g[i].page] \in Paragraphs
  <2> SUFFICES ASSUME NEW i \in DOMAIN g PROVE [text |-> g[i].text, page |-> g[i].page] \in Paragraphs
    OBVIOUS
  <2>1. g[i] \in Blocks
    BY <1>7
  <2> QED  BY <2>1 DEF Blocks, Paragraphs
<1> DEFINE h == [i \in DOMAIN g |-> [text |-> g[i].text, page |-> g[i].page]]
<1>10. h \in Seq(Paragraphs) /\ DOMAIN h = DOMAIN g /\ \A i \in DOMAIN g : h[i].page = g[i].page
  <2>1. h \in [DOMAIN g -> Paragraphs] /\ \A i \in DOMAIN g : h[i].page = g[i].page
    BY <1>9
  <2> HIDE DEF h
  <2> QED  BY <1>7, <2>1, EachIs
<1>11. GroupParagraphs(ls) = h
  BY <1>8
<1> HIDE DEF h
<1>12. Rising(g) => Rising(h)
  <2> SUFFICES ASSUME Rising(g), NEW i \in DOMAIN h, NEW k \in 1 .. i PROVE h[k].page <= h[i].page
    BY DEF Rising
  <2>1. k \in DOMAIN g /\ i \in DOMAIN g
    BY <1>7, <1>10
  <2> QED  BY <1>10, <2>1 DEF Rising
<1> QED  BY <1>7, <1>10, <1>11, <1>12

-----------------------------------------------------------------------------
(* Sections                                                                 *)

Sections       == [heading : Names, type : SectionTypes, level : 1 .. 4, paragraphs : Seq(Paragraphs)]
Follows(s, t)  == \A a \in DOMAIN s.paragraphs, b \in DOMAIN t.paragraphs : s.paragraphs[a].page <= t.paragraphs[b].page
Orderly(ss)    == /\ \A i \in DOMAIN ss : Rising(ss[i].paragraphs)
                  /\ \A i \in DOMAIN ss : \A k \in 1 .. i - 1 : Follows(ss[k], ss[i])
On(ss, P)      == \A i \in DOMAIN ss : Within(ss[i].paragraphs, P)
Told(ss)       == \A i \in DOMAIN ss : ss[i].paragraphs # <<>>

\* A heading has one of the types.
LEMMA ClassifySectionIs ==
  ASSUME NEW heading
  PROVE  ClassifySection(heading) \in SectionTypes
<1> DEFINE I == {i \in 1 .. Len(SectionPatterns) : SectionPatterns[i] \in Look[heading].hits}
<1>1. ClassifySection(heading) = IF I # {} THEN SectionPatterns[Min(I)] ELSE "other"
  <2>1. I # {} => Min(I) \in I
    <3>1. I \in SUBSET Nat
      OBVIOUS
    <3> HIDE DEF I
    <3> QED  BY <3>1, MinIsThere
  <2>2. \A i \in I : i # 0
    OBVIOUS
  <2>3. SelectInSeq(SectionPatterns, LAMBDA t : t \in Look[heading].hits) = IF I # {} THEN Min(I) ELSE 0
    BY DEF SelectInSeq
  <2> HIDE DEF I
  <2> QED  BY <2>1, <2>2, <2>3 DEF ClassifySection
<1>2. I \in SUBSET Nat /\ \A i \in I : i \in 1 .. Len(SectionPatterns)
  OBVIOUS
<1>3. DOMAIN SectionPatterns = 1 .. Len(SectionPatterns)
  BY DEF SectionPatterns
<1> HIDE DEF I
<1>4. I # {} => Min(I) \in DOMAIN SectionPatterns
  BY <1>2, <1>3, MinIsThere
<1>5. "other" \in SectionTypes
  BY DEF SectionTypes
<1> QED  BY <1>1, <1>4, <1>5 DEF SectionTypes, ToSet

\* A heading without a type of its own gets one.
LEMMA InheritTypeIs ==
  ASSUME NEW ss \in Seq(Sections)
  PROVE  InheritType(ss) \in SectionTypes
<1> DEFINE typed == {i \in DOMAIN ss : ss[i].type \notin {"front_matter", "other"}}
           last == ss[Max(typed)].type
<1>1. {"front_matter", "introduction", "other"} \subseteq SectionTypes
  <2>1. 10 \in DOMAIN SectionPatterns /\ SectionPatterns[10] = "introduction"
    BY DEF SectionPatterns
  <2> QED  BY <2>1 DEF SectionTypes, ToSet
<1>2. InheritType(ss) = CASE typed = {} -> "front_matter"
        [] typed # {} /\ last = "abstract" -> "introduction"
        [] typed # {} /\ last \in {"acknowledgements", "back_matter"} -> "other"
        [] OTHER -> last
  BY DEF InheritType
<1>3. IsFiniteSet(typed) /\ typed \in SUBSET Int /\ typed \subseteq DOMAIN ss
  <2>1. IsFiniteSet(DOMAIN ss) /\ DOMAIN ss \subseteq Int
    BY FS_Interval
  <2> QED  BY <2>1, FS_Subset
<1> HIDE DEF typed
<1>4. typed # {} => last \in SectionTypes
  <2> SUFFICES ASSUME typed # {} PROVE last \in SectionTypes
    OBVIOUS
  <2>1. Max(typed) \in DOMAIN ss
    BY <1>3, MaxIsThere
  <2>2. ss[Max(typed)] \in Sections
    BY <2>1
  <2> QED  BY <2>2 DEF Sections
<1> HIDE DEF last
<1> QED  BY <1>1, <1>2, <1>4

\* A heading has one of four levels.
LEMMA HeadingLevelIs ==
  ASSUME NEW heading \in Names
  PROVE  HeadingLevel(heading) \in 1 .. 4
<1>1. Look[heading].number \in 0 .. 4
  BY LookIs
<1> QED  BY <1>1 DEF HeadingLevel

\* The texts of paragraphs, and what they make.
LEMMA ParagraphTexts ==
  ASSUME NEW ps \in Seq(Paragraphs)
  PROVE  /\ [i \in DOMAIN ps |-> ps[i].text] \in Seq(Full(Names))
         /\ [i \in DOMAIN ps |-> ps[i].text] \in Seq(Texts(Names))
<1> DEFINE g == [i \in DOMAIN ps |-> ps[i].text]
<1>1. \A i \in DOMAIN ps : ps[i].text \in Full(Names)
  <2> SUFFICES ASSUME NEW i \in DOMAIN ps PROVE ps[i].text \in Full(Names)
    OBVIOUS
  <2>1. ps[i] \in Paragraphs
    OBVIOUS
  <2> QED  BY <2>1 DEF Paragraphs
<1>2. g \in [DOMAIN ps -> Full(Names)] /\ Full(Names) \subseteq Texts(Names)
  BY <1>1 DEF Full
<1> HIDE DEF g
<1>3. g \in Seq(Full(Names))
  BY <1>2, EachIs
<1>4. g \in Seq(Texts(Names))
  BY <1>2, <1>3
<1> QED  BY <1>3, <1>4 DEF g

\* A section's paragraphs make a text.
LEMMA SectionTextIs ==
  ASSUME NEW s, s.paragraphs \in Seq(Paragraphs)
  PROVE  SectionText(s) \in Texts(Names)
  BY ParagraphTexts, JoinAllIs DEF SectionText

\* A passage begins an entry or goes on with the last one.
LEMMA PutEntryIs ==
  ASSUME NEW es \in Seq(Full(Names)), NEW p \in Passages(Names), NEW mark
  PROVE  PutEntry(es, p, mark) \in Seq(Full(Names))
<1>1. <<p>> \in Full(Names)
  BY DEF Full, Texts
<1>2. CASE PutEntry(es, p, mark) = Append(es, <<p>>)
  BY <1>1, <1>2
<1>3. CASE PutEntry(es, p, mark) = [es EXCEPT ![Len(es)] = Append(@, p)] /\ es # <<>>
  <2>1. Len(es) \in DOMAIN es /\ es[Len(es)] \in Texts(Names)
    BY <1>3 DEF Full
  <2>2. Append(es[Len(es)], p) \in Full(Names)
    BY <2>1 DEF Full, Texts
  <2> QED  BY <1>3, <2>1, <2>2
<1> QED  BY <1>2, <1>3 DEF PutEntry

\* Entries are put together passage by passage.
LEMMA EntriesLoop ==
  ASSUME NEW t \in Texts(Names), NEW mark
  PROVE  \E f \in [0 .. Len(t) -> Seq(Full(Names))] :
           /\ f[0] = <<>>
           /\ \A k \in 1 .. Len(t) : f[k] = PutEntry(f[k - 1], t[k], mark)
           /\ CutBefore(t, mark) = f[Len(t)]
<1> DEFINE n == Len(t)
           D == Seq(Full(Names))
           Def(f) == f = [k \in 0 .. n |-> IF k = 0 THEN <<>> ELSE PutEntry(f[k - 1], t[k], mark)]
           upto == CHOOSE f : Def(f)
           step == [k \in 1 .. n |-> [a \in D |-> PutEntry(a, t[k], mark)]]
<1>1. n \in Nat /\ <<>> \in D /\ \A k \in 1 .. n : t[k] \in Passages(Names)
  BY DEF Texts
<1>2. \A k \in 1 .. n : \A a \in D : PutEntry(a, t[k], mark) \in D
  BY <1>1, PutEntryIs
<1>3. /\ step \in [1 .. n -> [D -> D]]
      /\ \A k \in 1 .. n : \A a \in D : step[k][a] = PutEntry(a, t[k], mark)
  <2> HIDE DEF D
  <2> QED  BY <1>2
<1> HIDE DEF step, n, D
<1>4. PICK g : Loop(g, D, n, <<>>, step)
  BY <1>1, <1>3, LoopExists
<1>5. \A k \in 0 .. n : g[k] = IF k = 0 THEN <<>> ELSE PutEntry(g[k - 1], t[k], mark)
  BY <1>3, <1>4 DEF Loop
<1>6. Def(g)
  BY <1>4, <1>5 DEF Loop
<1>7. Def(upto)
  BY <1>6
<1>8. CutBefore(t, mark) = upto[n]
  BY DEF CutBefore, Folded, n
<1> HIDE DEF upto
<1>9. upto[0] = <<>> /\ \A k \in 1 .. n : upto[k] = PutEntry(upto[k - 1], t[k], mark)
  BY <1>1, <1>7
<1>10. upto \in [0 .. n -> D]
  <2>1. upto = [k \in 0 .. n |-> upto[k]]
    BY <1>7
  <2>2. \A k \in 1 .. n : upto[k - 1] \in D => upto[k] \in D
    BY <1>2, <1>9
  <2> HIDE DEF Def
  <2> QED  BY <1>1, <1>9, <2>1, <2>2, LoopStays
<1> QED  BY <1>8, <1>9, <1>10 DEF n, D

\* The entries of a reference section are texts.
LEMMA SplitReferencesIs ==
  ASSUME NEW s \in Sections
  PROVE  SplitReferences(s) \in Seq(Texts(Names))
<1> DEFINE ts == [i \in DOMAIN s.paragraphs |-> s.paragraphs[i].text]
           text == JoinAll(ts, 1)
           A == CutBefore(text, "[n]")
           B == CutBefore(text, "n.")
<1>1. ts \in Seq(Texts(Names))
  <2>1. s.paragraphs \in Seq(Paragraphs)
    BY DEF Sections
  <2> QED  BY <2>1, ParagraphTexts
<1>2. PICK es : /\ es \in {A, B, ts}
                /\ SplitReferences(s) = Select(es, LAMBDA e : TextLen(e) >= MIN_REFERENCE_CHARS)
  BY DEF SplitReferences
<1> HIDE DEF ts
<1>3. text \in Texts(Names)
  BY <1>1, JoinAllIs
<1> HIDE DEF text
<1>4. \A m : CutBefore(text, m) \in Seq(Full(Names))
  <2> SUFFICES ASSUME NEW m PROVE CutBefore(text, m) \in Seq(Full(Names))
    OBVIOUS
  <2>1. PICK f \in [0 .. Len(text) -> Seq(Full(Names))] : CutBefore(text, m) = f[Len(text)]
    BY <1>3, EntriesLoop
  <2>2. Len(text) \in 0 .. Len(text)
    BY <1>3 DEF Texts
  <2> QED  BY <2>1, <2>2
<1>5. A \in Seq(Texts(Names)) /\ B \in Seq(Texts(Names))
  <2>1. A \in Seq(Full(Names)) /\ B \in Seq(Full(Names)) /\ Full(Names) \subseteq Texts(Names)
    BY <1>4 DEF Full
  <2> HIDE DEF A, B
  <2> QED  BY <2>1
<1> HIDE DEF A, B
<1>6. es \in Seq(Texts(Names))
  BY <1>1, <1>2, <1>5
<1>7. PICK I \in SUBSET DOMAIN es : SplitReferences(s) = Kept(es, I)
  BY <1>2 DEF Select
<1>8. Kept(es, I) \in Seq(Texts(Names))
  BY <1>6, KeptIs
<1> QED  BY <1>7, <1>8

-----------------------------------------------------------------------------
(* The parsed paper                                                         *)

\* Of sections in order, some are.
LEMMA KeptOrderly ==
  ASSUME NEW ss \in Seq(Sections), NEW I \in SUBSET DOMAIN ss, NEW P
  PROVE  /\ Kept(ss, I) \in Seq(Sections)
         /\ Orderly(ss) => Orderly(Kept(ss, I))
         /\ On(ss, P) => On(Kept(ss, I), P)
         /\ Told(ss) => Told(Kept(ss, I))
<1> DEFINE K == Kept(ss, I)
<1>1. /\ K \in Seq(Sections) /\ DOMAIN K = 1 .. Cardinality(I) /\ Cardinality(I) \in Nat
      /\ \A p \in DOMAIN K : Nth(I, p) \in I /\ K[p] = ss[Nth(I, p)]
      /\ \A p, q \in DOMAIN K : p < q => Nth(I, p) < Nth(I, q)
      /\ I \in SUBSET Nat
  BY KeptIs
<1> HIDE DEF K
<1>2. ASSUME Orderly(ss) PROVE Orderly(K)
  <2>1. \A i \in DOMAIN K : Rising(K[i].paragraphs)
    BY <1>1, <1>2 DEF Orderly
  <2>2. ASSUME NEW i \in DOMAIN K, NEW k \in 1 .. i - 1 PROVE Follows(K[k], K[i])
    <3>1. k \in DOMAIN K /\ k < i
      BY <1>1
    <3>2. Nth(I, i) \in DOMAIN ss /\ Nth(I, k) \in DOMAIN ss /\ Nth(I, k) < Nth(I, i)
      BY <1>1, <3>1
    <3>3. Nth(I, k) \in 1 .. Nth(I, i) - 1
      BY <3>2
    <3> QED  BY <1>1, <1>2, <3>1, <3>2, <3>3 DEF Orderly
  <2> QED  BY <2>1, <2>2 DEF Orderly
<1>3. On(ss, P) => On(K, P)
  BY <1>1 DEF On
<1>4. Told(ss) => Told(K)
  BY <1>1 DEF Told
<1> QED  BY <1>1, <1>2, <1>3, <1>4 DEF K

\* Sections before others are in order with them when each is with each.
LEMMA ConcatOrderly ==
  ASSUME NEW A \in Seq(Sections), NEW B \in Seq(Sections), Orderly(A), Orderly(B),
         \A i \in DOMAIN A, k \in DOMAIN B : Follows(A[i], B[k])
  PROVE  Orderly(A \o B)
<1> DEFINE C == A \o B
<1>1. /\ DOMAIN C = 1 .. Len(A) + Len(B) /\ Len(A) \in Nat /\ Len(B) \in Nat
      /\ DOMAIN A = 1 .. Len(A) /\ DOMAIN B = 1 .. Len(B)
      /\ \A i \in DOMAIN C : C[i] = IF i <= Len(A) THEN A[i] ELSE B[i - Len(A)]
  OBVIOUS
<1> HIDE DEF C
<1>2. \A i \in DOMAIN C : Rising(C[i].paragraphs)
  BY <1>1 DEF Orderly
<1>3. ASSUME NEW i \in DOMAIN C, NEW k \in 1 .. i - 1 PROVE Follows(C[k], C[i])
  <2>1. k \in DOMAIN C /\ k \in Nat /\ i \in Nat
    BY <1>1
  <2>2. CASE i <= Len(A)
    BY <1>1, <2>1, <2>2 DEF Orderly
  <2>3. CASE ~(i <= Len(A)) /\ k <= Len(A)
    BY <1>1, <2>1, <2>3
  <2>4. CASE ~(k <= Len(A))
    <3>1. k - Len(A) \in 1 .. (i - Len(A)) - 1 /\ i - Len(A) \in DOMAIN B
      BY <1>1, <2>1, <2>4
    <3>2. Follows(B[k - Len(A)], B[i - Len(A)])
      BY <3>1 DEF Orderly
    <3> QED  BY <1>1, <2>1, <2>4, <3>2
  <2> QED  BY <2>2, <2>3, <2>4
<1> QED  BY <1>2, <1>3 DEF Orderly, C

\* A section with a stretch of the paragraphs of another.
Part(t, s) == \A a \in DOMAIN t.paragraphs : \E b \in DOMAIN s.paragraphs : t.paragraphs[a] = s.paragraphs[b]

\* The abstract taken from the front matter leaves the sections in order.
LEMMA InferAbstractIs ==
  ASSUME NEW ss \in Seq(Sections), NEW P
  PROVE  /\ InferAbstract(ss) \in Seq(Sections)
         /\ Told(ss) => Told(InferAbstract(ss))
         /\ Orderly(ss) => Orderly(InferAbstract(ss))
         /\ On(ss, P) => On(InferAbstract(ss), P)
<1> DEFINE front == ss[1]
           ps == front.paragraphs
           long == {i \in DOMAIN ps : TextLen(ps[i].text) >= ABSTRACT_MIN /\ ps[i].page <= 2}
           i == Min(long)
           parts == <<[front EXCEPT !.paragraphs = SubSeq(@, 1, i - 1)],
                      Section("Abstract", "abstract", 1, <<ps[i]>>),
                      Section("Introduction", "introduction", 1, SubSeq(ps, i + 1, Len(ps)))>>
           I == {k \in DOMAIN parts : parts[k].paragraphs # <<>>}
<1>1. \/ InferAbstract(ss) = ss
      \/ ss # <<>> /\ long # {} /\ InferAbstract(ss) = Kept(parts, I) \o Tail(ss)
  BY DEF InferAbstract, Select
<1> HIDE DEF parts, I
<1>2. CASE InferAbstract(ss) = ss
  BY <1>2
<1>3. CASE ss # <<>> /\ long # {} /\ InferAbstract(ss) = Kept(parts, I) \o Tail(ss)
  <2>0. ss # <<>> /\ long # {}
    BY <1>3
  <2> HIDE DEF long
  <2>1. front \in Sections /\ ps \in Seq(Paragraphs) /\ 1 \in DOMAIN ss
    <3>1. front \in Sections /\ 1 \in DOMAIN ss
      BY <2>0
    <3> QED  BY <3>1 DEF Sections
  <2>2. long \subseteq DOMAIN ps
    BY DEF long
  <2> HIDE DEF front, ps
  <2>3. i \in DOMAIN ps /\ i \in Nat /\ i >= 1
    <3>1. long \in SUBSET Nat
      BY <2>1, <2>2
    <3> QED  BY <2>0, <2>1, <2>2, <3>1, MinIsThere
  <2> HIDE DEF i
  <2> DEFINE a == SubSeq(ps, 1, i - 1)
             b == SubSeq(ps, i + 1, Len(ps))
             X == [front EXCEPT !.paragraphs = a]
             Y == Section("Abstract", "abstract", 1, <<ps[i]>>)
             Z == Section("Introduction", "introduction", 1, b)
  <2>4. /\ a \in Seq(Paragraphs)
        /\ \A k \in DOMAIN a : k \in DOMAIN ps /\ a[k] = ps[k] /\ k < i
        /\ Rising(ps) => Rising(a)
    <3>1. 1 \in Nat /\ i - 1 \in Int /\ i - 1 <= Len(ps)
      BY <2>1, <2>3
    <3>2. /\ a \in Seq(Paragraphs)
          /\ \A k \in DOMAIN a : 1 + k - 1 \in DOMAIN ps /\ a[k] = ps[1 + k - 1]
          /\ Rising(ps) => Rising(a)
      BY <2>1, <3>1, StretchRises
    <3>3. \A k \in DOMAIN a : k \in Nat /\ 1 + k - 1 = k /\ k < i
      BY <2>1, <2>3
    <3> HIDE DEF a
    <3> QED  BY <3>2, <3>3
  <2>5. /\ b \in Seq(Paragraphs)
        /\ \A k \in DOMAIN b : i + k \in DOMAIN ps /\ b[k] = ps[i + k] /\ k >= 1 /\ k \in Nat
        /\ Rising(ps) => Rising(b)
    <3>1. i + 1 \in Nat /\ i + 1 >= 1 /\ Len(ps) \in Int /\ Len(ps) <= Len(ps)
      BY <2>1, <2>3
    <3>2. /\ b \in Seq(Paragraphs)
          /\ \A k \in DOMAIN b : (i + 1) + k - 1 \in DOMAIN ps /\ b[k] = ps[(i + 1) + k - 1]
          /\ Rising(ps) => Rising(b)
      BY <2>1, <3>1, StretchRises
    <3>3. DOMAIN b = 1 .. Len(b) /\ Len(b) \in Nat
      BY <3>2
    <3> HIDE DEF b
    <3>4. \A k \in DOMAIN b : (i + 1) + k - 1 = i + k /\ k >= 1 /\ k \in Nat
      BY <2>3, <3>3
    <3> QED  BY <3>2, <3>4
  <2> HIDE DEF a, b
  <2>6. {"Abstract", "Introduction"} \subseteq Names /\ {"abstract", "introduction"} \subseteq SectionTypes
    <3>1. 10 \in DOMAIN SectionPatterns /\ SectionPatterns[10] = "introduction" /\ 1 \in DOMAIN SectionPatterns /\ SectionPatterns[1] = "abstract"
      BY DEF SectionPatterns
    <3> QED  BY <3>1, LookAssumption DEF SectionTypes, ToSet, Names
  <2>7. /\ X \in Sections /\ Y \in Sections /\ Z \in Sections
        /\ X.paragraphs = a /\ Y.paragraphs = <<ps[i]>> /\ Z.paragraphs = b
    <3>1. ps[i] \in Paragraphs /\ <<ps[i]>> \in Seq(Paragraphs)
      BY <2>1, <2>3
    <3>2. X \in Sections /\ X.paragraphs = a
      BY <2>1, <2>4 DEF Sections
    <3>3. Y = [heading |-> "Abstract", type |-> "abstract", level |-> 1, paragraphs |-> <<ps[i]>>]
      BY DEF Section
    <3>4. Z = [heading |-> "Introduction", type |-> "introduction", level |-> 1, paragraphs |-> b]
      BY DEF Section
    <3> HIDE DEF X, Y, Z
    <3>5. Y \in Sections /\ Y.paragraphs = <<ps[i]>>
      BY <2>6, <3>1, <3>3 DEF Sections
    <3>6. Z \in Sections /\ Z.paragraphs = b
      BY <2>5, <2>6, <3>4 DEF Sections
    <3> QED  BY <3>2, <3>5, <3>6
  <2>8. parts = <<X, Y, Z>>
    BY DEF parts, ps, a, b
  <2> HIDE DEF X, Y, Z, parts
  <2>9. parts \in Seq(Sections) /\ DOMAIN parts = 1 .. 3 /\ parts[1] = X /\ parts[2] = Y /\ parts[3] = Z
    BY <2>7, <2>8
  <2>10. \A k \in DOMAIN parts : Part(parts[k], front)
    <3>1. Part(X, front)
      BY <2>4, <2>7 DEF Part, ps
    <3>2. Part(Y, front)
      BY <2>3, <2>7 DEF Part, ps
    <3>3. Part(Z, front)
      BY <2>5, <2>7 DEF Part, ps
    <3> QED  BY <2>9, <3>1, <3>2, <3>3
  <2>11. ASSUME Orderly(ss) PROVE Orderly(parts)
    <3>1. Rising(ps)
      BY <2>1, <2>11 DEF Orderly, front, ps
    <3>2. Rising(<<ps[i]>>)
      <4>1. ps[i] \in Paragraphs
        BY <2>1, <2>3
      <4> QED  BY <4>1 DEF Rising, Paragraphs
    <3>3. \A k \in DOMAIN parts : Rising(parts[k].paragraphs)
      <4>1. Rising(X.paragraphs) /\ Rising(Y.paragraphs) /\ Rising(Z.paragraphs)
        BY <2>4, <2>5, <2>7, <3>1, <3>2
      <4>2. \A k \in DOMAIN parts : k = 1 \/ k = 2 \/ k = 3
        BY <2>9
      <4> QED  BY <2>9, <4>1, <4>2
    <3>4. Follows(X, Y) /\ Follows(X, Z) /\ Follows(Y, Z)
      <4>1. \A m \in DOMAIN ps : \A k \in 1 .. m : ps[k].page <= ps[m].page
        BY <3>1 DEF Rising
      <4>2. \A k, m \in DOMAIN ps : k <= m => ps[k].page <= ps[m].page
        BY <2>1, <4>1
      <4>3. ASSUME NEW k \in DOMAIN a PROVE a[k].page <= ps[i].page
        <5>1. k \in DOMAIN ps /\ a[k] = ps[k] /\ k < i /\ k <= i
          BY <2>1, <2>3, <2>4
        <5> QED  BY <2>3, <4>2, <5>1
      <4>4. ASSUME NEW k \in DOMAIN b PROVE ps[i].page <= b[k].page
        <5>1. i + k \in DOMAIN ps /\ b[k] = ps[i + k] /\ i <= i + k
          BY <2>3, <2>5
        <5> QED  BY <2>3, <4>2, <5>1
      <4>5. ASSUME NEW k \in DOMAIN a, NEW m \in DOMAIN b PROVE a[k].page <= b[m].page
        <5>1. k \in DOMAIN ps /\ i + m \in DOMAIN ps /\ k <= i + m /\ a[k] = ps[k] /\ b[m] = ps[i + m]
          BY <2>1, <2>3, <2>4, <2>5
        <5> QED  BY <4>2, <5>1
      <4> QED  BY <2>7, <4>3, <4>4, <4>5 DEF Follows
    <3>5. \A k \in DOMAIN parts : \A m \in 1 .. k - 1 : Follows(parts[m], parts[k])
      <4> SUFFICES ASSUME NEW k \in 1 .. 3, NEW m \in 1 .. k - 1 PROVE Follows(parts[m], parts[k])
        BY <2>9
      <4>1. (m = 1 /\ k = 2) \/ (m = 1 /\ k = 3) \/ (m = 2 /\ k = 3)
        OBVIOUS
      <4> QED  BY <2>9, <3>4, <4>1
    <3> QED  BY <3>3, <3>5 DEF Orderly
  <2>12. On(ss, P) => On(parts, P)
    <3> SUFFICES ASSUME On(ss, P), NEW k \in DOMAIN parts, NEW m \in DOMAIN parts[k].paragraphs
                 PROVE  parts[k].paragraphs[m].page \in P
      BY DEF On, Within
    <3>1. PICK n \in DOMAIN front.paragraphs : parts[k].paragraphs[m] = front.paragraphs[n]
      BY <2>10 DEF Part
    <3> QED  BY <2>1, <3>1 DEF On, Within, front
  <2> DEFINE K == Kept(parts, I)
  <2>13. /\ K \in Seq(Sections) /\ (Orderly(ss) => Orderly(K)) /\ (On(ss, P) => On(K, P)) /\ Told(K)
         /\ \A k \in DOMAIN K : Part(K[k], front)
    <3>1. I \in SUBSET DOMAIN parts
      BY DEF I
    <3>2. K \in Seq(Sections) /\ (Orderly(parts) => Orderly(K)) /\ (On(parts, P) => On(K, P))
      BY <2>9, <3>1, KeptOrderly
    <3>3. \A k \in DOMAIN K : Nth(I, k) \in I /\ K[k] = parts[Nth(I, k)]
      BY <2>9, <3>1, KeptIs
    <3>4. Told(K)
      BY <3>3 DEF Told, I
    <3>5. \A k \in DOMAIN K : Part(K[k], front)
      BY <2>10, <3>1, <3>3
    <3> HIDE DEF K
    <3> QED  BY <2>11, <2>12, <3>2, <3>4, <3>5
  <2> HIDE DEF K
  <2> DEFINE T == Tail(ss)
  <2>14. T \in Seq(Sections) /\ \A k \in DOMAIN T : k + 1 \in DOMAIN ss /\ T[k] = ss[k + 1] /\ k \in Nat /\ k >= 1
    BY <1>3
  <2> HIDE DEF T
  <2>15. (Orderly(ss) => Orderly(T)) /\ (On(ss, P) => On(T, P)) /\ (Told(ss) => Told(T))
    <3>1. ASSUME Orderly(ss), NEW k \in DOMAIN T, NEW m \in 1 .. k - 1 PROVE Follows(T[m], T[k])
      <4>1. m \in DOMAIN T /\ m + 1 \in 1 .. (k + 1) - 1
        BY <2>14
      <4> QED  BY <2>14, <3>1, <4>1 DEF Orderly
    <3>2. Orderly(ss) => \A k \in DOMAIN T : Rising(T[k].paragraphs)
      BY <2>14 DEF Orderly
    <3>3. (On(ss, P) => On(T, P)) /\ (Told(ss) => Told(T))
      BY <2>14 DEF On, Told
    <3> QED  BY <3>1, <3>2, <3>3 DEF Orderly
  <2>16. ASSUME Orderly(ss), NEW k \in DOMAIN K, NEW m \in DOMAIN T PROVE Follows(K[k], T[m])
    <3>1. Follows(front, T[m])
      <4>1. 1 \in 1 .. (m + 1) - 1
        BY <2>14
      <4> QED  BY <2>14, <2>16, <4>1 DEF Orderly, front
    <3>2. Part(K[k], front)
      BY <2>13
    <3> QED  BY <3>1, <3>2 DEF Part, Follows
  <2>17. Orderly(ss) => Orderly(K \o T)
    BY <2>13, <2>14, <2>15, <2>16, ConcatOrderly
  <2>21. K \in Seq(Sections) /\ T \in Seq(Sections)
    BY <2>13, <2>14
  <2>18. K \o T \in Seq(Sections) /\ \A k \in DOMAIN (K \o T) : (\E m \in DOMAIN K : (K \o T)[k] = K[m]) \/ (\E m \in DOMAIN T : (K \o T)[k] = T[m])
    <3>1. /\ DOMAIN (K \o T) = 1 .. Len(K) + Len(T) /\ Len(K) \in Nat /\ Len(T) \in Nat
          /\ \A k \in DOMAIN (K \o T) : (K \o T)[k] = IF k <= Len(K) THEN K[k] ELSE T[k - Len(K)]
      BY <2>21
    <3>2. \A k \in DOMAIN (K \o T) : IF k <= Len(K) THEN k \in DOMAIN K ELSE k - Len(K) \in DOMAIN T
      BY <2>21, <3>1
    <3>3. K \o T \in Seq(Sections)
      BY <2>21
    <3> QED  BY <3>1, <3>2, <3>3
  <2>19. (On(ss, P) => On(K \o T, P)) /\ (Told(ss) => Told(K \o T))
    BY <2>13, <2>15, <2>18 DEF On, Told
  <2>20. InferAbstract(ss) = K \o T
    BY <1>3 DEF K, T
  <2> QED  BY <2>17, <2>18, <2>19, <2>20
<1> QED  BY <1>1, <1>2, <1>3

Captions    == [kind : {"", "figure", "table"}, text : Texts(Names), page : Nat]
FoundTables == [of : Names, len : Nat \ {0}, page : Nat, section : Names \cup {""}, caption : Texts(Names)]

\* Captions are paragraphs of the sections, on their pages.
LEMMA ExtractCaptionsIs ==
  ASSUME NEW ss \in Seq(Sections), NEW P
  PROVE  /\ ExtractCaptions(ss) \in Seq(Captions)
         /\ On(ss, P) => Within(ExtractCaptions(ss), P)
<1> DEFINE each == [i \in DOMAIN ss |-> ss[i].paragraphs]
           all == FlattenSeq(each)
           kind(p) == IF p.text[1].from = 0 THEN Look[p.text[1].of].caption ELSE ""
           I == {i \in DOMAIN all : kind(all[i]) # "" /\ TextLen(all[i].text) >= MIN_CAPTION_CHARS}
           K == Kept(all, I)
           made == [i \in DOMAIN K |-> [kind |-> kind(K[i]), text |-> K[i].text, page |-> K[i].page]]
<1>1. ExtractCaptions(ss) = made
  BY DEF ExtractCaptions, Select
<1>2. \A p \in Paragraphs : kind(p) \in {"", "figure", "table"}
  <2> SUFFICES ASSUME NEW p \in Paragraphs PROVE kind(p) \in {"", "figure", "table"}
    OBVIOUS
  <2>1. p.text \in Seq(Passages(Names)) /\ p.text # <<>>
    BY DEF Paragraphs, Full, Texts
  <2>2. p.text[1] \in Passages(Names)
    BY <2>1
  <2>3. p.text[1].of \in Names
    BY <2>2 DEF Passages
  <2> QED  BY <2>3, LookIs
<1>3. all \in Seq(Paragraphs) /\ ToSet(all) = UNION {ToSet(each[i]) : i \in DOMAIN ss}
  <2>1. \A i \in DOMAIN ss : ss[i].paragraphs \in Seq(Paragraphs)
    <3> SUFFICES ASSUME NEW i \in DOMAIN ss PROVE ss[i].paragraphs \in Seq(Paragraphs)
      OBVIOUS
    <3>1. ss[i] \in Sections
      OBVIOUS
    <3> QED  BY <3>1 DEF Sections
  <2>2. each \in [DOMAIN ss -> Seq(Paragraphs)]
    BY <2>1
  <2> HIDE DEF each
  <2> QED  BY <2>2, FlattenEach
<1>4. \A i \in DOMAIN ss : each[i] = ss[i].paragraphs
  OBVIOUS
<1>5. \A i \in DOMAIN all : \E k \in DOMAIN ss : \E m \in DOMAIN ss[k].paragraphs : all[i] = ss[k].paragraphs[m]
  <2> SUFFICES ASSUME NEW i \in DOMAIN all PROVE \E k \in DOMAIN ss : \E m \in DOMAIN ss[k].paragraphs : all[i] = ss[k].paragraphs[m]
    OBVIOUS
  <2> HIDE DEF all, each
  <2>1. all[i] \in ToSet(all)
    BY DEF ToSet
  <2>2. PICK k \in DOMAIN ss : all[i] \in ToSet(each[k])
    BY <1>3, <2>1
  <2> QED  BY <1>4, <2>2 DEF ToSet
<1>6. I \in SUBSET DOMAIN all
  OBVIOUS
<1> HIDE DEF I, all, kind
<1>7. K \in Seq(Paragraphs) /\ \A i \in DOMAIN K : Nth(I, i) \in DOMAIN all /\ K[i] = all[Nth(I, i)]
  BY <1>3, <1>6, KeptIs
<1> HIDE DEF K
<1>8. made \in Seq(Captions) /\ DOMAIN made = DOMAIN K
  <2>1. \A i \in DOMAIN K : [kind |-> kind(K[i]), text |-> K[i].text, page |-> K[i].page] \in Captions
    <3> SUFFICES ASSUME NEW i \in DOMAIN K PROVE [kind |-> kind(K[i]), text |-> K[i].text, page |-> K[i].page] \in Captions
      OBVIOUS
    <3>1. K[i] \in Paragraphs
      BY <1>7
    <3>2. K[i].text \in Texts(Names) /\ K[i].page \in Nat /\ kind(K[i]) \in {"", "figure", "table"}
      BY <1>2, <3>1 DEF Paragraphs, Full
    <3> QED  BY <3>2 DEF Captions
  <2>2. made \in [DOMAIN K -> Captions]
    BY <2>1
  <2> HIDE DEF made
  <2> QED  BY <1>7, <2>2, EachIs
<1>9. ASSUME On(ss, P), NEW i \in DOMAIN made PROVE made[i].page \in P
  <2>1. i \in DOMAIN K /\ made[i].page = K[i].page
    BY <1>8
  <2>2. PICK k \in DOMAIN ss : \E m \in DOMAIN ss[k].paragraphs : K[i] = ss[k].paragraphs[m]
    BY <1>5, <1>7, <2>1
  <2> QED  BY <1>9, <2>1, <2>2 DEF On, Within
<1> HIDE DEF made
<1> QED  BY <1>1, <1>8, <1>9 DEF Within

\* A page is in a section, or before them.
LEMMA SectionForPageIs ==
  ASSUME NEW ss \in Seq(Sections), NEW page
  PROVE  SectionForPage(ss, page) \in Names \cup {""}
<1> DEFINE I == {i \in 1 .. Len(ss) : PageStart(ss[i]) # NoPage /\ PageStart(ss[i]) <= page}
           i == SelectLastInSeq(ss, LAMBDA s : PageStart(s) # NoPage /\ PageStart(s) <= page)
<1>1. i = IF I # {} THEN Max(I) ELSE 0
  BY DEF SelectLastInSeq
<1>2. SectionForPage(ss, page) = IF i = 0 THEN "" ELSE ss[i].heading
  BY DEF SectionForPage
<1>3. IsFiniteSet(I) /\ I \in SUBSET Int /\ I \subseteq DOMAIN ss
  <2>1. IsFiniteSet(1 .. Len(ss)) /\ I \subseteq 1 .. Len(ss) /\ 1 .. Len(ss) \subseteq Int
    BY FS_Interval
  <2> HIDE DEF I
  <2>2. IsFiniteSet(I)
    BY <2>1, FS_Subset
  <2>3. DOMAIN ss = 1 .. Len(ss)
    OBVIOUS
  <2> QED  BY <2>1, <2>2, <2>3
<1> HIDE DEF I, i
<1>4. i = 0 \/ i \in DOMAIN ss
  BY <1>1, <1>3, MaxIsThere
<1>5. i \in DOMAIN ss => ss[i].heading \in Names
  <2> SUFFICES ASSUME i \in DOMAIN ss PROVE ss[i].heading \in Names
    OBVIOUS
  <2>1. ss[i] \in Sections
    OBVIOUS
  <2> QED  BY <2>1 DEF Sections
<1> QED  BY <1>2, <1>4, <1>5

\* The tables of the paper are among those found.
LEMMA TablesIs ==
  ASSUME NEW found \in Seq(PaperTables), NEW bad, NEW ss \in Seq(Sections), NEW cs \in Seq(Captions), NEW P
  PROVE  /\ Tables(found, bad, ss, cs) \in Seq(FoundTables)
         /\ Within(found, P) => Within(Tables(found, bad, ss, cs), P)
<1> DEFINE I == {k \in DOMAIN found : found[k].page \notin bad /\ found[k].len >= MIN_TABLE_CHARS}
           K == Kept(found, I)
           J(t) == {i \in 1 .. Len(cs) : cs[i].kind = "table" /\ cs[i].page = t.page}
           at1(t) == SelectInSeq(cs, LAMBDA c : c.kind = "table" /\ c.page = t.page)
           caption(t) == IF at1(t) = 0 THEN <<>> ELSE cs[at1(t)].text
           row(t) == [of |-> t.of, len |-> t.len, page |-> t.page,
                      section |-> SectionForPage(ss, t.page), caption |-> caption(t)]
           made == [i \in DOMAIN K |-> row(K[i])]
<1>1. Tables(found, bad, ss, cs) = made
  BY DEF Tables, Select
<1>2. \A t : caption(t) \in Texts(Names)
  <2> SUFFICES ASSUME NEW t PROVE caption(t) \in Texts(Names)
    OBVIOUS
  <2>1. at1(t) = IF J(t) # {} THEN Min(J(t)) ELSE 0
    BY DEF SelectInSeq
  <2>2. J(t) \in SUBSET Nat /\ J(t) \subseteq DOMAIN cs
    OBVIOUS
  <2> HIDE DEF J, at1
  <2>3. at1(t) = 0 \/ at1(t) \in DOMAIN cs
    BY <2>1, <2>2, MinIsThere
  <2>4. \A i \in DOMAIN cs : cs[i].text \in Texts(Names)
    <3> SUFFICES ASSUME NEW i \in DOMAIN cs PROVE cs[i].text \in Texts(Names)
      OBVIOUS
    <3>1. cs[i] \in Captions
      OBVIOUS
    <3> QED  BY <3>1 DEF Captions
  <2>5. <<>> \in Texts(Names)
    BY DEF Texts
  <2> QED  BY <2>3, <2>4, <2>5
<1>3. I \in SUBSET DOMAIN found
  OBVIOUS
<1> HIDE DEF I, caption
<1>4. K \in Seq(PaperTables) /\ (Within(found, P) => Within(K, P))
  <2>1. K \in Seq(PaperTables)
    BY <1>3, KeptIs
  <2>2. Within(found, P) => Within(K, P)
    BY <1>3, KeptRises
  <2> QED  BY <2>1, <2>2
<1> HIDE DEF K
<1>5. \A i \in DOMAIN K : row(K[i]) \in FoundTables
  <2> SUFFICES ASSUME NEW i \in DOMAIN K PROVE row(K[i]) \in FoundTables
    OBVIOUS
  <2>1. PICK t \in PaperTables : t = K[i]
    BY <1>4
  <2>2. t.of \in Names /\ t.len \in Nat \ {0} /\ t.page \in Nat
    BY DEF PaperTables
  <2>3. PICK h \in Names \cup {""} : h = SectionForPage(ss, t.page)
    BY SectionForPageIs
  <2>4. row(t) = [of |-> t.of, len |-> t.len, page |-> t.page, section |-> h, caption |-> caption(t)]
    BY <2>3
  <2>5. row(t) \in FoundTables
    BY <1>2, <2>2, <2>3, <2>4 DEF FoundTables
  <2> QED  BY <2>1, <2>5
<1>6. \A t : row(t).page = t.page
  OBVIOUS
<1>7. made \in Seq(FoundTables) /\ DOMAIN made = DOMAIN K /\ \A i \in DOMAIN K : made[i].page = K[i].page
  <2> HIDE DEF row
  <2>1. made \in [DOMAIN K -> FoundTables] /\ \A i \in DOMAIN K : made[i].page = K[i].page
    BY <1>5, <1>6
  <2> HIDE DEF made
  <2> QED  BY <1>4, <2>1, EachIs
<1> HIDE DEF made
<1> QED  BY <1>1, <1>4, <1>7 DEF Within

\* What parse_paper returns.
GoodParse(r, P) ==
  /\ r.sections \in Seq(Sections) /\ Told(r.sections) /\ Orderly(r.sections) /\ On(r.sections, P)
  /\ r.references \in Seq(Texts(Names))
  /\ r.captions \in Seq(Captions) /\ Within(r.captions, P)
  /\ r.tables \in Seq(FoundTables) /\ Within(r.tables, P)

\* Sections in order make a parsed paper in order.
LEMMA ParsedIs ==
  ASSUME NEW pp, pp.tables \in Seq(PaperTables), NEW P, Within(pp.tables, P),
         NEW heading, NEW ss \in Seq(Sections), Orderly(ss), On(ss, P), NEW bad
  PROVE  GoodParse(Parsed(pp, heading, ss, bad), P)
<1> DEFINE I == {i \in DOMAIN ss : ss[i].paragraphs # <<>>}
           K == Kept(ss, I)
           A == InferAbstract(K)
           C == Kept(A, {i \in DOMAIN A : (A[i].type = "references") = FALSE})
           R == Kept(A, {i \in DOMAIN A : (A[i].type = "references") = TRUE})
           F == ExtractCaptions(C)
           E == [i \in DOMAIN R |-> SplitReferences(R[i])]
           r == Parsed(pp, heading, ss, bad)
<1>1. r.sections = C /\ r.references = FlattenSeq(E) /\ r.captions = F /\ r.tables = Tables(pp.tables, bad, C, F)
  BY DEF Parsed, Select
<1>2. K \in Seq(Sections) /\ Orderly(K) /\ On(K, P) /\ Told(K)
  <2>1. I \in SUBSET DOMAIN ss
    OBVIOUS
  <2>2. K \in Seq(Sections) /\ Orderly(K) /\ On(K, P)
    BY <2>1, KeptOrderly
  <2>3. \A i \in DOMAIN K : Nth(I, i) \in I /\ K[i] = ss[Nth(I, i)]
    BY <2>1, KeptIs
  <2>4. Told(K)
    BY <2>3 DEF Told
  <2> QED  BY <2>2, <2>4
<1> HIDE DEF K
<1>3. A \in Seq(Sections) /\ Orderly(A) /\ On(A, P) /\ Told(A)
  BY <1>2, InferAbstractIs
<1> HIDE DEF A
<1>4. C \in Seq(Sections) /\ Orderly(C) /\ On(C, P) /\ Told(C)
  BY <1>3, KeptOrderly
<1>5. R \in Seq(Sections)
  BY <1>3, KeptOrderly
<1> HIDE DEF C, R
<1>6. F \in Seq(Captions) /\ Within(F, P)
  BY <1>4, ExtractCaptionsIs
<1> HIDE DEF F
<1>7. Tables(pp.tables, bad, C, F) \in Seq(FoundTables) /\ Within(Tables(pp.tables, bad, C, F), P)
  BY <1>4, <1>6, TablesIs
<1>8. FlattenSeq(E) \in Seq(Texts(Names))
  <2>1. \A i \in DOMAIN R : SplitReferences(R[i]) \in Seq(Texts(Names))
    BY <1>5, SplitReferencesIs
  <2>2. E \in [DOMAIN R -> Seq(Texts(Names))]
    BY <2>1
  <2> HIDE DEF E
  <2> QED  BY <1>5, <2>2, FlattenEach
<1> HIDE DEF r, E
<1>9. GoodParse(r, P)
  BY <1>1, <1>4, <1>6, <1>7, <1>8 DEF GoodParse
<1> QED  BY <1>9 DEF r

-----------------------------------------------------------------------------
(* Lists put one after the other                                            *)

\* Flattening goes list by list.
LEMMA FlattenLoops ==
  ASSUME NEW S, NEW ss \in Seq(Seq(S))
  PROVE  \E f \in [0 .. Len(ss) -> Seq(S)] :
           /\ f[0] = <<>>
           /\ \A k \in 1 .. Len(ss) : f[k] = f[k - 1] \o ss[k]
           /\ FlattenSeq(ss) = f[Len(ss)]
<1> DEFINE n == Len(ss)
           D == Seq(S)
           Def(f) == f = [k \in 1 .. n |-> IF k = 1 THEN ss[k] ELSE f[k - 1] \o ss[k]]
           flatten == CHOOSE f : Def(f)
           step == [k \in 1 .. n |-> [a \in D |-> a \o ss[k]]]
<1>1. n \in Nat /\ <<>> \in D /\ \A k \in 1 .. n : ss[k] \in D
  OBVIOUS
<1>2. \A k \in 1 .. n : \A a \in D : a \o ss[k] \in D
  BY <1>1
<1>3. /\ step \in [1 .. n -> [D -> D]]
      /\ \A k \in 1 .. n : \A a \in D : step[k][a] = a \o ss[k]
  <2> HIDE DEF D
  <2> QED  BY <1>2
<1> HIDE DEF step
<1>4. PICK g : Loop(g, D, n, <<>>, step)
  <2> HIDE DEF n, D
  <2> QED  BY <1>1, <1>3, LoopExists
<1>5. g \in [0 .. n -> D] /\ g[0] = <<>> /\ \A k \in 1 .. n : g[k] = g[k - 1] \o ss[k]
  BY <1>3, <1>4 DEF Loop
<1> DEFINE h == [k \in 1 .. n |-> g[k]]
<1>6. \A k \in 1 .. n : g[k] = IF k = 1 THEN ss[k] ELSE h[k - 1] \o ss[k]
  <2> SUFFICES ASSUME NEW k \in 1 .. n PROVE g[k] = IF k = 1 THEN ss[k] ELSE h[k - 1] \o ss[k]
    OBVIOUS
  <2>1. CASE k = 1
    <3>1. g[k] = <<>> \o ss[k] /\ ss[k] \in Seq(S)
      <4>1. k - 1 = 0 /\ k \in 1 .. n
        BY <2>1
      <4>2. g[k] = g[k - 1] \o ss[k] /\ ss[k] \in Seq(S)
        BY <1>1, <1>5
      <4> QED  BY <1>5, <4>1, <4>2
    <3> HIDE DEF n
    <3>2. <<>> \o ss[k] = ss[k]
      BY <3>1
    <3> QED  BY <2>1, <3>1, <3>2
  <2>2. CASE k # 1
    <3>1. k - 1 \in 1 .. n
      BY <1>1, <2>2
    <3> QED  BY <1>5, <2>2, <3>1
  <2> QED  BY <2>1, <2>2
<1>7. Def(h)
  BY <1>6
<1>8. Def(flatten)
  BY <1>7
<1>9. n # 0 => FlattenSeq(ss) = flatten[n]
  BY DEF FlattenSeq
<1> HIDE DEF flatten
<1> DEFINE A == {k \in Nat : k + 1 <= n => flatten[k + 1] = g[k + 1]}
<1>10. 0 \in A
  <2> SUFFICES ASSUME 1 <= n PROVE flatten[1] = g[1]
    OBVIOUS
  <2>1. 1 \in 1 .. n
    BY <1>1
  <2> QED  BY <1>6, <1>8, <2>1
<1>11. ASSUME NEW k \in Nat, k \in A PROVE k + 1 \in A
  <2> SUFFICES ASSUME k + 1 + 1 <= n PROVE flatten[k + 1 + 1] = g[k + 1 + 1]
    OBVIOUS
  <2>1. PICK m \in 1 .. n : m = k + 1 + 1
    BY <1>1
  <2>2. m # 1 /\ m - 1 = k + 1 /\ k + 1 <= n
    BY <1>1, <2>1
  <2>3. flatten[m - 1] = g[m - 1]
    BY <1>11, <2>2
  <2>4. flatten[m] = flatten[m - 1] \o ss[m]
    BY <1>8, <2>2
  <2>5. g[m] = g[m - 1] \o ss[m]
    BY <1>5
  <2> QED  BY <2>1, <2>3, <2>4, <2>5
<1> HIDE DEF A
<1>12. \A k \in Nat : k \in A
  BY <1>10, <1>11, SetInduction
<1>13. FlattenSeq(ss) = g[n]
  <2>1. CASE n = 0
    BY <1>5, <2>1 DEF FlattenSeq
  <2>2. CASE n # 0
    <3>1. n - 1 \in Nat /\ n - 1 + 1 = n /\ n <= n
      BY <1>1, <2>2
    <3>2. flatten[n] = g[n]
      BY <1>12, <3>1 DEF A
    <3> QED  BY <1>9, <2>2, <3>2
  <2> QED  BY <2>1, <2>2
<1> QED  BY <1>5, <1>13

\* A list after one that ends no later rises when both do.
LEMMA ConcatRises ==
  ASSUME NEW S, NEW a \in Seq(S), NEW b \in Seq(S), Rising(a), Rising(b),
         \A i \in DOMAIN a, k \in DOMAIN b : a[i].page <= b[k].page
  PROVE  Rising(a \o b)
<1> DEFINE c == a \o b
<1>1. /\ DOMAIN c = 1 .. Len(a) + Len(b) /\ Len(a) \in Nat /\ Len(b) \in Nat
      /\ DOMAIN a = 1 .. Len(a) /\ DOMAIN b = 1 .. Len(b)
      /\ \A i \in DOMAIN c : c[i] = IF i <= Len(a) THEN a[i] ELSE b[i - Len(a)]
  OBVIOUS
<1> HIDE DEF c
<1>2. ASSUME NEW i \in DOMAIN c, NEW k \in 1 .. i PROVE c[k].page <= c[i].page
  <2>1. k \in DOMAIN c /\ k \in Nat /\ i \in Nat /\ k <= i
    BY <1>1
  <2>2. CASE i <= Len(a)
    <3>1. i \in DOMAIN a /\ k <= Len(a)
      BY <1>1, <2>1, <2>2
    <3> QED  BY <1>1, <2>1, <2>2, <3>1 DEF Rising
  <2>3. CASE ~(i <= Len(a)) /\ k <= Len(a)
    <3>1. k \in DOMAIN a /\ i - Len(a) \in DOMAIN b
      BY <1>1, <2>1, <2>3
    <3> QED  BY <1>1, <2>1, <2>3, <3>1
  <2>4. CASE ~(i <= Len(a)) /\ ~(k <= Len(a))
    <3>1. i - Len(a) \in DOMAIN b /\ k - Len(a) \in 1 .. i - Len(a)
      BY <1>1, <2>1, <2>4
    <3> QED  BY <1>1, <2>1, <2>4, <3>1 DEF Rising
  <2> QED  BY <2>2, <2>3, <2>4
<1> QED  BY <1>2 DEF Rising, c

\* Lists whose pages follow each other make one that rises.
LEMMA FlattenRises ==
  ASSUME NEW S, NEW ss \in Seq(Seq(S)), \A i \in DOMAIN ss : Rising(ss[i]),
         \A i \in DOMAIN ss : \A k \in 1 .. i - 1 :
           \A a \in DOMAIN ss[k], b \in DOMAIN ss[i] : ss[k][a].page <= ss[i][b].page
  PROVE  Rising(FlattenSeq(ss))
<1> DEFINE n == Len(ss)
           From(q, k) == \A x \in DOMAIN q : \E j \in 1 .. k : \E m \in DOMAIN ss[j] : q[x] = ss[j][m]
           P == [k \in 0 .. n |-> {q \in Seq(S) : Rising(q) /\ From(q, k)}]
<1>1. PICK f \in [0 .. n -> Seq(S)] :
         f[0] = <<>> /\ (\A k \in 1 .. n : f[k] = f[k - 1] \o ss[k]) /\ FlattenSeq(ss) = f[n]
  BY FlattenLoops
<1>2. n \in Nat /\ \A k \in 1 .. n : k \in DOMAIN ss /\ ss[k] \in Seq(S) /\ k - 1 \in 0 .. n /\ k \in 0 .. n
  OBVIOUS
<1>3. f[0] \in P[0]
  <2>1. 0 \in 0 .. n /\ f[0] \in Seq(S) /\ DOMAIN f[0] = {}
    BY <1>1, <1>2
  <2> QED  BY <2>1 DEF Rising
<1>4. ASSUME NEW k \in 1 .. n, f[k - 1] \in P[k - 1] PROVE f[k] \in P[k]
  <2>1. PICK q \in Seq(S) : q = f[k - 1] /\ Rising(q) /\ From(q, k - 1)
    BY <1>2, <1>4
  <2>2. PICK t \in Seq(S) : t = ss[k] /\ Rising(t)
    BY <1>2
  <2>3. \A i \in DOMAIN q, m \in DOMAIN t : q[i].page <= t[m].page
    <3> SUFFICES ASSUME NEW i \in DOMAIN q, NEW m \in DOMAIN t PROVE q[i].page <= t[m].page
      OBVIOUS
    <3>1. PICK j \in 1 .. k - 1 : \E x \in DOMAIN ss[j] : q[i] = ss[j][x]
      BY <2>1
    <3> QED  BY <1>2, <2>2, <3>1
  <2> HIDE DEF From, n
  <2>4. Rising(q \o t)
    BY <2>1, <2>2, <2>3, ConcatRises
  <2>5. From(q \o t, k)
    <3> SUFFICES ASSUME NEW x \in DOMAIN (q \o t) PROVE \E j \in 1 .. k : \E m \in DOMAIN ss[j] : (q \o t)[x] = ss[j][m]
      BY DEF From
    <3>0. k \in Nat /\ k >= 1
      BY <1>2
    <3>1. CASE x \in DOMAIN q
      <4>1. (q \o t)[x] = q[x]
        BY <3>1
      <4>2. PICK j \in 1 .. k - 1 : \E m \in DOMAIN ss[j] : q[x] = ss[j][m]
        BY <2>1, <3>1 DEF From
      <4>3. j \in 1 .. k
        BY <3>0
      <4> QED  BY <4>1, <4>2, <4>3
    <3>2. CASE x \notin DOMAIN q
      <4>1. x - Len(q) \in DOMAIN t /\ (q \o t)[x] = t[x - Len(q)]
        BY <3>2
      <4>2. k \in 1 .. k
        BY <3>0
      <4> QED  BY <2>2, <4>1, <4>2
    <3> QED  BY <3>1, <3>2
  <2>6. f[k] = q \o t
    BY <1>1, <2>1, <2>2
  <2> QED  BY <1>2, <2>4, <2>5, <2>6
<1> HIDE DEF P
<1>5. \A k \in 0 .. n : f[k] \in P[k]
  BY <1>2, <1>3, <1>4, LoopKeeps
<1>6. f[n] \in P[n] /\ n \in 0 .. n
  BY <1>2, <1>5
<1> QED  BY <1>1, <1>6 DEF P

-----------------------------------------------------------------------------
(* Paragraphs in units                                                      *)

\* The sizes of chunks are numbers.
LEMMA ChunkSizes ==
  /\ CHUNK_MAX_CHARS \in Nat \ {0} /\ CHUNK_OVERLAP_CHARS \in Nat /\ MIN_CHUNK_CHARS \in Nat
  /\ HEADER_CHARS \in Nat \ {0} /\ REFERENCES_PER_CHUNK \in Nat \ {0}
  BY ChunkingAssumption

\* A quotient of numbers is a number.
LEMMA DivIs ==
  ASSUME NEW a \in Nat, NEW b \in Nat \ {0}
  PROVE  a \div b \in Nat
  OBVIOUS

\* A sentence is cut in at least one slice.
LEMMA SlicesIs ==
  ASSUME NEW s \in Full(Names)
  PROVE  Slices(s) \in Seq(Texts(Names)) /\ Slices(s) # <<>>
<1>1. PICK n \in Nat : n = (TextLen(s) - 1) \div CHUNK_MAX_CHARS
  <2>1. s \in Texts(Names) /\ s # <<>>
    BY DEF Full
  <2>2. TextLen(s) \in Nat /\ TextLen(s) >= 1
    BY <2>1, TextLenIs
  <2>3. TextLen(s) - 1 \in Nat
    BY <2>2
  <2> QED  BY <2>3, ChunkSizes, DivIs
<1>2. ASSUME NEW i \in 1 .. 1 + n PROVE Slice(s, (i - 1) * CHUNK_MAX_CHARS, i * CHUNK_MAX_CHARS) \in Texts(Names)
  <2>1. (i - 1) * CHUNK_MAX_CHARS \in Int /\ i * CHUNK_MAX_CHARS \in Int /\ s \in Texts(Names)
    BY ChunkSizes DEF Full
  <2> QED  BY <2>1, SliceIs
<1> DEFINE f == [i \in 1 .. 1 + n |-> Slice(s, (i - 1) * CHUNK_MAX_CHARS, i * CHUNK_MAX_CHARS)]
<1>3. f \in [1 .. 1 + n -> Texts(Names)]
  BY <1>2
<1>4. Slices(s) = f
  BY <1>1 DEF Slices
<1> HIDE DEF f
<1>5. f \in Seq(Texts(Names)) /\ Len(f) = 1 + n
  BY <1>3, FunctionIsSeq
<1> QED  BY <1>4, <1>5

Cutting == [texts : Seq(Texts(Names)), current : Texts(Names)]

\* A sentence is added to the stretch at hand, or cut when it is too long for one.
LEMMA PutSentenceIs ==
  ASSUME NEW acc \in Cutting, NEW s \in Full(Names)
  PROVE  PutSentence(acc, s) \in Cutting
<1> DEFINE parts == Slices(s)
           cut == SubSeq(parts, 1, Len(parts) - 1)
           rest == Last(parts)
<1>1. parts \in Seq(Texts(Names)) /\ parts # <<>>
  BY SlicesIs
<1>2. PutSentence(acc, s) = PutSlices(acc, cut, rest)
  BY DEF PutSentence
<1> HIDE DEF parts
<1>3. cut \in Seq(Texts(Names)) /\ rest \in Texts(Names)
  BY <1>1 DEF Last
<1> HIDE DEF cut, rest
<1>4. acc.texts \in Seq(Texts(Names)) /\ acc.current \in Texts(Names)
  BY DEF Cutting
<1>5. /\ acc.texts \o cut \o <<acc.current>> \in Seq(Texts(Names)) /\ acc.texts \o cut \in Seq(Texts(Names))
      /\ Join(acc.current, 1, rest) \in Texts(Names)
  BY <1>3, <1>4, JoinIs
<1> QED  BY <1>2, <1>3, <1>5 DEF PutSlices, Cutting

\* A paragraph is split sentence by sentence.
LEMMA SplitLoop ==
  ASSUME NEW ss \in Seq(Full(Names))
  PROVE  \E f \in [0 .. Len(ss) -> Cutting] :
           /\ f[0] = [texts |-> <<>>, current |-> <<>>]
           /\ \A k \in 1 .. Len(ss) : f[k] = PutSentence(f[k - 1], ss[k])
           /\ Folded(PutSentence, [texts |-> <<>>, current |-> <<>>], ss) = f[Len(ss)]
<1> DEFINE n == Len(ss)
           D == Cutting
           Def(f) == f = [k \in 0 .. n |-> IF k = 0 THEN [texts |-> <<>>, current |-> <<>>] ELSE PutSentence(f[k - 1], ss[k])]
           upto == CHOOSE f : Def(f)
           step == [k \in 1 .. n |-> [a \in D |-> PutSentence(a, ss[k])]]
<1>1. n \in Nat /\ [texts |-> <<>>, current |-> <<>>] \in D /\ \A k \in 1 .. n : ss[k] \in Full(Names)
  <2>1. <<>> \in Texts(Names) /\ <<>> \in Seq(Texts(Names))
    BY DEF Texts
  <2> QED  BY <2>1 DEF Cutting
<1>2. \A k \in 1 .. n : \A a \in D : PutSentence(a, ss[k]) \in D
  BY <1>1, PutSentenceIs
<1>3. /\ step \in [1 .. n -> [D -> D]]
      /\ \A k \in 1 .. n : \A a \in D : step[k][a] = PutSentence(a, ss[k])
  <2> HIDE DEF D
  <2> QED  BY <1>2
<1> HIDE DEF step, n, D
<1>4. PICK g : Loop(g, D, n, [texts |-> <<>>, current |-> <<>>], step)
  BY <1>1, <1>3, LoopExists
<1>5. \A k \in 0 .. n : g[k] = IF k = 0 THEN [texts |-> <<>>, current |-> <<>>] ELSE PutSentence(g[k - 1], ss[k])
  BY <1>3, <1>4 DEF Loop
<1>6. Def(g)
  BY <1>4, <1>5 DEF Loop
<1>7. Def(upto)
  BY <1>6
<1>8. Folded(PutSentence, [texts |-> <<>>, current |-> <<>>], ss) = upto[n]
  BY DEF Folded, n
<1> HIDE DEF upto
<1>9. upto[0] = [texts |-> <<>>, current |-> <<>>] /\ \A k \in 1 .. n : upto[k] = PutSentence(upto[k - 1], ss[k])
  BY <1>1, <1>7
<1>10. upto \in [0 .. n -> D]
  <2>1. upto = [k \in 0 .. n |-> upto[k]]
    BY <1>7
  <2>2. \A k \in 1 .. n : upto[k - 1] \in D => upto[k] \in D
    BY <1>2, <1>9
  <2> HIDE DEF Def
  <2> QED  BY <1>1, <1>9, <2>1, <2>2, LoopStays
<1> QED  BY <1>8, <1>9, <1>10 DEF n, D

Stretches == [text : Texts(Names), page : Nat]

\* A paragraph too long is split in texts on its page.
LEMMA SplitParagraphIs ==
  ASSUME NEW p \in Paragraphs
  PROVE  /\ SplitParagraph(p) \in Seq(Stretches)
         /\ \A i \in DOMAIN SplitParagraph(p) : SplitParagraph(p)[i].page = p.page
<1> DEFINE ss == SplitSentences(p.text)
           a == Folded(PutSentence, [texts |-> <<>>, current |-> <<>>], ss)
           ts == IF a.current = <<>> THEN a.texts ELSE Append(a.texts, a.current)
           made == [i \in DOMAIN ts |-> [text |-> ts[i], page |-> p.page]]
<1>1. SplitParagraph(p) = made
  BY DEF SplitParagraph, Each
<1>2. p.text \in Texts(Names) /\ p.page \in Nat
  BY DEF Paragraphs, Full
<1>3. ss \in Seq(Full(Names))
  BY <1>2, SentencesAre DEF Texts, Full
<1> HIDE DEF ss
<1>4. a \in Cutting
  <2>1. PICK f \in [0 .. Len(ss) -> Cutting] : a = f[Len(ss)]
    BY <1>3, SplitLoop
  <2>2. Len(ss) \in 0 .. Len(ss)
    BY <1>3
  <2> QED  BY <2>1, <2>2
<1> HIDE DEF a
<1>5. ts \in Seq(Texts(Names))
  BY <1>4 DEF Cutting
<1> HIDE DEF ts
<1>6. made \in [DOMAIN ts -> Stretches] /\ DOMAIN made = DOMAIN ts /\ \A i \in DOMAIN ts : made[i].page = p.page
  BY <1>2, <1>5 DEF Stretches
<1> HIDE DEF made
<1>7. made \in Seq(Stretches)
  BY <1>5, <1>6, EachIs
<1> QED  BY <1>1, <1>6, <1>7

\* The units of paragraphs are on their pages, in their order.
LEMMA UnitsIs ==
  ASSUME NEW ps \in Seq(Paragraphs), NEW P
  PROVE  /\ Units(ps) \in Seq(Stretches)
         /\ Rising(ps) => Rising(Units(ps))
         /\ Within(ps, P) => Within(Units(ps), P)
<1> DEFINE e == [i \in DOMAIN ps |-> IF TextLen(ps[i].text) <= CHUNK_MAX_CHARS THEN <<ps[i]>> ELSE SplitParagraph(ps[i])]
<1>1. Units(ps) = FlattenSeq(e)
  BY DEF Units
<1>2. \A i \in DOMAIN ps : e[i] \in Seq(Stretches) /\ \A m \in DOMAIN e[i] : e[i][m].page = ps[i].page
  <2> SUFFICES ASSUME NEW i \in DOMAIN ps PROVE e[i] \in Seq(Stretches) /\ \A m \in DOMAIN e[i] : e[i][m].page = ps[i].page
    OBVIOUS
  <2>1. PICK p \in Paragraphs : p = ps[i]
    OBVIOUS
  <2>2. CASE e[i] = <<p>>
    <3>1. p \in Stretches
      BY DEF Paragraphs, Stretches, Full
    <3> HIDE DEF e
    <3> QED  BY <2>1, <2>2, <3>1
  <2>3. CASE e[i] = SplitParagraph(p)
    <3> HIDE DEF e
    <3> QED  BY <2>1, <2>3, SplitParagraphIs
  <2> QED  BY <2>1, <2>2, <2>3
<1>3. e \in [DOMAIN ps -> Seq(Stretches)] /\ DOMAIN e = DOMAIN ps
  BY <1>2
<1> HIDE DEF e
<1>4. e \in Seq(Seq(Stretches))
  BY <1>3, EachIs
<1>5. FlattenSeq(e) \in Seq(Stretches) /\ ToSet(FlattenSeq(e)) = UNION {ToSet(e[i]) : i \in DOMAIN ps}
  BY <1>3, FlattenEach
<1>6. ASSUME Rising(ps) PROVE Rising(FlattenSeq(e))
  <2>1. \A i \in DOMAIN e : Rising(e[i])
    <3> SUFFICES ASSUME NEW i \in DOMAIN e, NEW m \in DOMAIN e[i], NEW k \in 1 .. m PROVE e[i][k].page <= e[i][m].page
      BY DEF Rising
    <3>1. e[i] \in Seq(Stretches) /\ k \in DOMAIN e[i]
      BY <1>2, <1>3
    <3>2. e[i][k].page = ps[i].page /\ e[i][m].page = ps[i].page /\ ps[i] \in Paragraphs
      BY <1>2, <1>3, <3>1
    <3>3. ps[i].page \in Nat
      BY <3>2 DEF Paragraphs
    <3> QED  BY <3>2, <3>3
  <2>2. ASSUME NEW i \in DOMAIN e, NEW k \in 1 .. i - 1, NEW x \in DOMAIN e[k], NEW y \in DOMAIN e[i] PROVE e[k][x].page <= e[i][y].page
    <3>1. i \in DOMAIN ps /\ k \in DOMAIN ps /\ k \in 1 .. i
      BY <1>3
    <3>2. ps[k].page <= ps[i].page
      BY <1>6, <3>1 DEF Rising
    <3> QED  BY <1>2, <3>1, <3>2
  <2> QED  BY <1>4, <2>1, <2>2, FlattenRises
<1>7. ASSUME Within(ps, P), NEW i \in DOMAIN FlattenSeq(e) PROVE FlattenSeq(e)[i].page \in P
  <2> DEFINE q == FlattenSeq(e)
  <2>1. q[i] \in ToSet(q)
    BY <1>7 DEF ToSet
  <2>2. PICK k \in DOMAIN ps : q[i] \in ToSet(e[k])
    BY <1>5, <2>1
  <2>3. PICK m \in DOMAIN e[k] : q[i] = e[k][m]
    BY <2>2 DEF ToSet
  <2> QED  BY <1>2, <1>7, <2>3 DEF Within
<1> QED  BY <1>1, <1>5, <1>6, <1>7 DEF Within

-----------------------------------------------------------------------------
(* Sections in pieces                                                       *)

Pieces  == [text : Texts(Names), first : Nat, last : Nat]
Packing == [pieces : Seq(Pieces), text : Texts(Names), first : Nat, last : Nat]

\* A piece opens anew or grows.
LEMMA PutUnitCases ==
  ASSUME NEW acc \in Packing, NEW u \in Stretches
  PROVE  \/ \E tail \in Texts(Names), t \in Texts(Names) :
              /\ acc.text # <<>>
              /\ PutUnit(acc, u) = [pieces |-> Append(acc.pieces, Piece(acc)), text |-> t,
                                    first |-> IF tail = <<>> THEN u.page ELSE acc.last, last |-> u.page]
         \/ \E t \in Texts(Names) :
              PutUnit(acc, u) = [pieces |-> acc.pieces, text |-> t,
                                 first |-> IF acc.text = <<>> THEN u.page ELSE acc.first, last |-> u.page]
<1>1. /\ acc.pieces \in Seq(Pieces) /\ acc.text \in Texts(Names) /\ acc.first \in Nat /\ acc.last \in Nat
      /\ u.text \in Texts(Names) /\ u.page \in Nat
  BY DEF Packing, Stretches
<1>2. PICK tail \in Texts(Names) : tail = OverlapTail(acc.text, CHUNK_OVERLAP_CHARS)
  BY <1>1, ChunkSizes, OverlapTailIs
<1>3. PICK a \in Texts(Names) : a = Join(tail, 2, u.text)
  BY <1>1, JoinIs
<1>4. PICK b \in Texts(Names) : b = Join(acc.text, 2, u.text)
  BY <1>1, JoinIs
<1>5. CASE acc.text # <<>> /\ PutUnit(acc, u) = OpenPiece(acc, tail, u)
  <2>1. PutUnit(acc, u) = [pieces |-> Append(acc.pieces, Piece(acc)), text |-> a,
                           first |-> IF tail = <<>> THEN u.page ELSE acc.last, last |-> u.page]
    BY <1>3, <1>5 DEF OpenPiece
  <2> QED  BY <1>5, <2>1
<1>6. CASE PutUnit(acc, u) = [acc EXCEPT !.text = b, !.last = u.page, !.first = IF acc.text = <<>> THEN u.page ELSE @]
  <2>1. PutUnit(acc, u) = [pieces |-> acc.pieces, text |-> b,
                           first |-> IF acc.text = <<>> THEN u.page ELSE acc.first, last |-> u.page]
    BY <1>6 DEF Packing
  <2> QED  BY <2>1
<1>7. PutUnit(acc, u) =
        IF acc.text # <<>> /\ TextLen(acc.text) + TextLen(u.text) + 2 > CHUNK_MAX_CHARS
        THEN OpenPiece(acc, tail, u)
        ELSE [acc EXCEPT !.text = b, !.last = u.page, !.first = IF acc.text = <<>> THEN u.page ELSE @]
  BY <1>2, <1>4 DEF PutUnit
<1> QED  BY <1>5, <1>6, <1>7

\* A unit is added to the piece at hand or begins the next one.
LEMMA PutUnitIs ==
  ASSUME NEW acc \in Packing, NEW u \in Stretches
  PROVE  PutUnit(acc, u) \in Packing
<1>1. /\ acc.pieces \in Seq(Pieces) /\ acc.text \in Texts(Names) /\ acc.first \in Nat /\ acc.last \in Nat
      /\ u.page \in Nat
  BY DEF Packing, Stretches
<1>2. Piece(acc) \in Pieces
  BY <1>1 DEF Piece, Pieces
<1>3. Append(acc.pieces, Piece(acc)) \in Seq(Pieces)
  BY <1>1, <1>2
<1>4. CASE \E tail \in Texts(Names), t \in Texts(Names) :
              PutUnit(acc, u) = [pieces |-> Append(acc.pieces, Piece(acc)), text |-> t,
                                 first |-> IF tail = <<>> THEN u.page ELSE acc.last, last |-> u.page]
  BY <1>1, <1>3, <1>4 DEF Packing
<1>5. CASE \E t \in Texts(Names) :
              PutUnit(acc, u) = [pieces |-> acc.pieces, text |-> t,
                                 first |-> IF acc.text = <<>> THEN u.page ELSE acc.first, last |-> u.page]
  BY <1>1, <1>5 DEF Packing
<1> QED  BY <1>4, <1>5, PutUnitCases

\* Pieces are filled unit by unit.
LEMMA PackLoop ==
  ASSUME NEW us \in Seq(Stretches)
  PROVE  \E f \in [0 .. Len(us) -> Packing] :
           /\ f[0] = NoPieces
           /\ \A k \in 1 .. Len(us) : f[k] = PutUnit(f[k - 1], us[k])
           /\ Folded(PutUnit, NoPieces, us) = f[Len(us)]
<1> DEFINE n == Len(us)
           D == Packing
           Def(f) == f = [k \in 0 .. n |-> IF k = 0 THEN NoPieces ELSE PutUnit(f[k - 1], us[k])]
           upto == CHOOSE f : Def(f)
           step == [k \in 1 .. n |-> [a \in D |-> PutUnit(a, us[k])]]
<1>1. n \in Nat /\ NoPieces \in D /\ \A k \in 1 .. n : us[k] \in Stretches
  <2>1. <<>> \in Texts(Names) /\ <<>> \in Seq(Pieces)
    BY DEF Texts
  <2> QED  BY <2>1 DEF Packing, NoPieces, NoPage
<1>2. \A k \in 1 .. n : \A a \in D : PutUnit(a, us[k]) \in D
  BY <1>1, PutUnitIs
<1>3. /\ step \in [1 .. n -> [D -> D]]
      /\ \A k \in 1 .. n : \A a \in D : step[k][a] = PutUnit(a, us[k])
  <2> HIDE DEF D
  <2> QED  BY <1>2
<1> HIDE DEF step, n, D
<1>4. PICK g : Loop(g, D, n, NoPieces, step)
  BY <1>1, <1>3, LoopExists
<1>5. \A k \in 0 .. n : g[k] = IF k = 0 THEN NoPieces ELSE PutUnit(g[k - 1], us[k])
  BY <1>3, <1>4 DEF Loop
<1>6. Def(g)
  BY <1>4, <1>5 DEF Loop
<1>7. Def(upto)
  BY <1>6
<1>8. Folded(PutUnit, NoPieces, us) = upto[n]
  BY DEF Folded, n
<1> HIDE DEF upto
<1>9. upto[0] = NoPieces /\ \A k \in 1 .. n : upto[k] = PutUnit(upto[k - 1], us[k])
  BY <1>1, <1>7
<1>10. upto \in [0 .. n -> D]
  <2>1. upto = [k \in 0 .. n |-> upto[k]]
    BY <1>7
  <2>2. \A k \in 1 .. n : upto[k - 1] \in D => upto[k] \in D
    BY <1>2, <1>9
  <2> HIDE DEF Def
  <2> QED  BY <1>1, <1>9, <2>1, <2>2, LoopStays
<1> QED  BY <1>8, <1>9, <1>10 DEF n, D

Spans(p, P) == p.first \in P /\ p.last \in P /\ p.first <= p.last

\* After k units: pieces and the text at hand span pages in order, none
\* beyond the units to come.
Packed(acc, us, k, P) ==
  /\ acc.text # <<>> => Spans(acc, P)
  /\ \A i \in DOMAIN acc.pieces : Spans(acc.pieces[i], P)
  /\ \A i \in DOMAIN acc.pieces : \A m \in 1 .. i : acc.pieces[m].last <= acc.pieces[i].last
  /\ acc.text # <<>> => \A i \in DOMAIN acc.pieces : acc.pieces[i].last <= acc.last
  /\ acc.text # <<>> => \A j \in k + 1 .. Len(us) : acc.last <= us[j].page
  /\ \A j \in k + 1 .. Len(us) : \A i \in DOMAIN acc.pieces : acc.pieces[i].last <= us[j].page

\* The piece at hand spans the pages of its units, and comes after those made.
LEMMA PutUnitPacks ==
  ASSUME NEW us \in Seq(Stretches), NEW P \in SUBSET Nat, Rising(us), Within(us, P),
         NEW k \in 1 .. Len(us), NEW acc \in Packing, Packed(acc, us, k - 1, P)
  PROVE  Packed(PutUnit(acc, us[k]), us, k, P)
<1>1. PICK u \in Stretches : u = us[k]
  OBVIOUS
<1>2. u.page \in P /\ u.page \in Nat /\ \A j \in k + 1 .. Len(us) : u.page <= us[j].page
  <2>1. u.page \in P
    BY <1>1 DEF Within
  <2>2. ASSUME NEW j \in k + 1 .. Len(us) PROVE u.page <= us[j].page
    <3>1. j \in DOMAIN us /\ k \in 1 .. j
      OBVIOUS
    <3> QED  BY <1>1, <3>1 DEF Rising
  <2> QED  BY <2>1, <2>2
<1>3. k \in (k - 1) + 1 .. Len(us) /\ \A j \in k + 1 .. Len(us) : j \in (k - 1) + 1 .. Len(us)
  OBVIOUS
<1>4. /\ acc.text # <<>> => Spans(acc, P) /\ acc.last <= u.page
      /\ \A i \in DOMAIN acc.pieces : Spans(acc.pieces[i], P) /\ acc.pieces[i].last <= u.page
      /\ \A i \in DOMAIN acc.pieces : \A m \in 1 .. i : acc.pieces[m].last <= acc.pieces[i].last
      /\ acc.text # <<>> => \A i \in DOMAIN acc.pieces : acc.pieces[i].last <= acc.last
      /\ acc.text # <<>> => \A j \in k + 1 .. Len(us) : acc.last <= us[j].page
      /\ \A j \in k + 1 .. Len(us) : \A i \in DOMAIN acc.pieces : acc.pieces[i].last <= us[j].page
  BY <1>1, <1>3 DEF Packed
<1>5. acc.pieces \in Seq(Pieces) /\ acc.first \in Nat /\ acc.last \in Nat
  BY DEF Packing
<1> DEFINE new == PutUnit(acc, u)
<1>6. ASSUME NEW tail \in Texts(Names), NEW t \in Texts(Names), acc.text # <<>>,
             new = [pieces |-> Append(acc.pieces, Piece(acc)), text |-> t,
                    first |-> IF tail = <<>> THEN u.page ELSE acc.last, last |-> u.page]
      PROVE  Packed(new, us, k, P)
  <2> DEFINE qs == Append(acc.pieces, Piece(acc))
             n == Len(acc.pieces)
  <2>0. n \in Nat /\ DOMAIN acc.pieces = 1 .. n
    BY <1>5
  <2>1. new.pieces = qs /\ new.last = u.page /\ new.first = IF tail = <<>> THEN u.page ELSE acc.last
    BY <1>6
  <2>2. Piece(acc).first = acc.first /\ Piece(acc).last = acc.last
    BY DEF Piece
  <2>3. /\ DOMAIN qs = 1 .. n + 1
        /\ \A i \in 1 .. n : qs[i] = acc.pieces[i]
        /\ qs[n + 1] = Piece(acc)
    BY <1>5
  <2> HIDE DEF qs, n, new
  <2>4. Spans(acc, P)
    BY <1>4, <1>6
  <2>5. Spans(new, P)
    BY <1>2, <1>4, <1>6, <2>1, <2>4 DEF Spans
  <2>6. \A i \in DOMAIN qs : i \in 1 .. n \/ i = n + 1
    BY <2>0, <2>3
  <2>7. \A i \in DOMAIN qs : Spans(qs[i], P) /\ qs[i].last <= acc.last
    <3>1. \A i \in 1 .. n : Spans(qs[i], P) /\ qs[i].last <= acc.last
      BY <1>4, <1>6, <2>0, <2>3
    <3>2. Spans(qs[n + 1], P) /\ qs[n + 1].last <= acc.last
      BY <1>5, <2>2, <2>3, <2>4 DEF Spans
    <3> QED  BY <2>6, <3>1, <3>2
  <2>8. \A i \in DOMAIN qs : qs[i].last \in Nat
    BY <2>7 DEF Spans
  <2>9. \A i \in DOMAIN qs : \A m \in 1 .. i : qs[m].last <= qs[i].last
    <3> SUFFICES ASSUME NEW i \in DOMAIN qs, NEW m \in 1 .. i PROVE qs[m].last <= qs[i].last
      OBVIOUS
    <3>1. m \in DOMAIN qs
      BY <2>0, <2>3
    <3>2. CASE i \in 1 .. n
      <4>1. m \in 1 .. n /\ i \in DOMAIN acc.pieces
        BY <2>0, <3>2
      <4> QED  BY <1>4, <2>3, <3>2, <4>1
    <3>3. CASE i = n + 1
      BY <2>2, <2>3, <2>7, <3>1, <3>3
    <3> QED  BY <2>6, <3>2, <3>3
  <2>10. \A i \in DOMAIN qs : qs[i].last <= u.page
    BY <1>2, <1>4, <1>5, <1>6, <2>7, <2>8
  <2>11. \A j \in k + 1 .. Len(us) : \A i \in DOMAIN qs : qs[i].last <= us[j].page
    BY <1>4, <1>6, <2>0, <2>2, <2>3, <2>6
  <2> QED  BY <1>2, <2>1, <2>5, <2>7, <2>9, <2>10, <2>11 DEF Packed
<1>7. ASSUME NEW t \in Texts(Names),
             new = [pieces |-> acc.pieces, text |-> t,
                    first |-> IF acc.text = <<>> THEN u.page ELSE acc.first, last |-> u.page]
      PROVE  Packed(new, us, k, P)
  <2>1. new.pieces = acc.pieces /\ new.last = u.page /\ new.first = IF acc.text = <<>> THEN u.page ELSE acc.first
    BY <1>7
  <2> HIDE DEF new
  <2>2. Spans(new, P)
    BY <1>2, <1>4, <1>5, <2>1 DEF Spans
  <2> QED  BY <1>2, <1>4, <2>1, <2>2 DEF Packed
<1> HIDE DEF new
<1>8. Packed(new, us, k, P)
  BY <1>6, <1>7, PutUnitCases DEF new
<1> QED  BY <1>1, <1>8 DEF new

\* A last piece that is too small joins the one before it, which spans it too.
LEMMA JoinLastIs ==
  ASSUME NEW ps \in Seq(Pieces), NEW P, \A i \in DOMAIN ps : Spans(ps[i], P),
         \A i \in DOMAIN ps : \A m \in 1 .. i : ps[m].last <= ps[i].last
  PROVE  JoinLast(ps) \in Seq(Pieces) /\ \A i \in DOMAIN JoinLast(ps) : Spans(JoinLast(ps)[i], P)
<1> DEFINE n == Len(ps)
<1>1. CASE JoinLast(ps) = ps
  BY <1>1
<1>2. CASE n >= 2 /\ JoinLast(ps) = Append(SubSeq(ps, 1, n - 2),
                  [ps[n - 1] EXCEPT !.text = Join(@, 2, ps[n].text), !.last = ps[n].last])
  <2>1. PICK a \in Pieces, b \in Pieces : a = ps[n - 1] /\ b = ps[n]
    BY <1>2
  <2>2. /\ a.text \in Texts(Names) /\ a.first \in Nat /\ a.last \in Nat
        /\ b.text \in Texts(Names) /\ b.first \in Nat /\ b.last \in Nat
    BY DEF Pieces
  <2>3. PICK t \in Texts(Names) : t = Join(a.text, 2, b.text)
    BY <2>2, JoinIs
  <2> DEFINE c == [a EXCEPT !.text = t, !.last = b.last]
  <2>4. DOMAIN a = {"text", "first", "last"}
    BY DEF Pieces
  <2>5. c \in Pieces /\ c.first = a.first /\ c.last = b.last
    BY <2>2, <2>4 DEF Pieces
  <2>6. Spans(c, P)
    <3>1. Spans(a, P) /\ Spans(b, P) /\ a.last <= b.last
      <4>1. n - 1 \in DOMAIN ps /\ n \in DOMAIN ps /\ n - 1 \in 1 .. n
        BY <1>2
      <4> QED  BY <2>1, <4>1
    <3> QED  BY <2>2, <2>5, <3>1 DEF Spans
  <2>7. JoinLast(ps) = Append(SubSeq(ps, 1, n - 2), c)
    BY <1>2, <2>1, <2>3
  <2> HIDE DEF c
  <2> DEFINE q == SubSeq(ps, 1, n - 2)
  <2>8. q \in Seq(Pieces) /\ \A i \in DOMAIN q : q[i] = ps[i] /\ i \in DOMAIN ps
    BY <1>2
  <2> HIDE DEF q
  <2>9. Append(q, c) \in Seq(Pieces) /\ \A i \in DOMAIN Append(q, c) : (i \in DOMAIN q /\ Append(q, c)[i] = q[i]) \/ Append(q, c)[i] = c
    BY <2>5, <2>8
  <2>10. \A i \in DOMAIN Append(q, c) : Spans(Append(q, c)[i], P)
    BY <2>6, <2>8, <2>9
  <2> QED  BY <2>7, <2>9, <2>10 DEF q
<1> QED  BY <1>1, <1>2 DEF JoinLast

\* The pieces of a section are on pages of its paragraphs, from a first to a
\* last one.
LEMMA PackSectionIs ==
  ASSUME NEW ps \in Seq(Paragraphs), Rising(ps), NEW P \in SUBSET Nat, Within(ps, P)
  PROVE  PackSection(ps) \in Seq(Pieces) /\ \A i \in DOMAIN PackSection(ps) : Spans(PackSection(ps)[i], P)
<1> DEFINE us == Units(ps)
           n == Len(us)
           a == Folded(PutUnit, NoPieces, us)
           all == IF a.text = <<>> THEN a.pieces ELSE Append(a.pieces, Piece(a))
           Inv == [k \in 0 .. n |-> {acc \in Packing : Packed(acc, us, k, P)}]
<1>1. us \in Seq(Stretches) /\ Rising(us) /\ Within(us, P)
  BY UnitsIs
<1>2. PackSection(ps) = JoinLast(all)
  BY DEF PackSection
<1> HIDE DEF us
<1>3. PICK f \in [0 .. n -> Packing] : f[0] = NoPieces /\ (\A k \in 1 .. n : f[k] = PutUnit(f[k - 1], us[k])) /\ a = f[n]
  BY <1>1, PackLoop
<1>4. n \in Nat /\ \A k \in 1 .. n : k - 1 \in 0 .. n /\ k \in 0 .. n
  BY <1>1
<1>5. f[0] \in Inv[0]
  <2>1. 0 \in 0 .. n /\ f[0] \in Packing /\ NoPieces.text = <<>> /\ DOMAIN NoPieces.pieces = {}
    BY <1>3, <1>4 DEF NoPieces
  <2>2. Packed(NoPieces, us, 0, P)
    BY <2>1 DEF Packed
  <2> QED  BY <1>3, <2>1, <2>2
<1>6. ASSUME NEW k \in 1 .. n, f[k - 1] \in Inv[k - 1] PROVE f[k] \in Inv[k]
  <2>1. f[k - 1] \in Packing /\ Packed(f[k - 1], us, k - 1, P)
    BY <1>4, <1>6
  <2>2. Packed(PutUnit(f[k - 1], us[k]), us, k, P)
    BY <1>1, <2>1, PutUnitPacks
  <2> QED  BY <1>3, <1>4, <2>2
<1> HIDE DEF Inv
<1>7. \A k \in 0 .. n : f[k] \in Inv[k]
  BY <1>4, <1>5, <1>6, LoopKeeps
<1>8. a \in Packing /\ Packed(a, us, n, P)
  <2>1. n \in 0 .. n /\ f[n] \in Inv[n]
    BY <1>4, <1>7
  <2> QED  BY <1>3, <2>1 DEF Inv
<1> HIDE DEF a
<1>9. /\ a.pieces \in Seq(Pieces) /\ a.text \in Texts(Names) /\ a.first \in Nat /\ a.last \in Nat
      /\ Piece(a) \in Pieces /\ Piece(a).first = a.first /\ Piece(a).last = a.last
  BY <1>8 DEF Packing, Piece, Pieces
<1>10. /\ all \in Seq(Pieces) /\ \A i \in DOMAIN all : Spans(all[i], P)
       /\ \A i \in DOMAIN all : \A m \in 1 .. i : all[m].last <= all[i].last
  <2>1. CASE a.text = <<>>
    BY <1>8, <1>9, <2>1 DEF Packed
  <2>2. CASE a.text # <<>>
    <3> DEFINE qs == Append(a.pieces, Piece(a))
               l == Len(a.pieces)
    <3>1. /\ l \in Nat /\ DOMAIN a.pieces = 1 .. l
          /\ qs \in Seq(Pieces) /\ DOMAIN qs = 1 .. l + 1
          /\ \A i \in 1 .. l : qs[i] = a.pieces[i]
          /\ qs[l + 1] = Piece(a)
      BY <1>9
    <3>2. all = qs
      BY <2>2
    <3> HIDE DEF qs, all, l
    <3>3. \A i \in DOMAIN qs : i \in 1 .. l \/ i = l + 1
      BY <3>1
    <3>4. \A i \in DOMAIN qs : Spans(qs[i], P)
      <4>1. Spans(a, P) /\ Spans(Piece(a), P)
        BY <1>8, <1>9, <2>2 DEF Packed, Spans
      <4> QED  BY <1>8, <3>1, <3>3, <4>1 DEF Packed
    <3>5. \A i \in DOMAIN qs : \A m \in 1 .. i : qs[m].last <= qs[i].last
      <4> SUFFICES ASSUME NEW i \in DOMAIN qs, NEW m \in 1 .. i PROVE qs[m].last <= qs[i].last
        OBVIOUS
      <4>1. CASE i \in 1 .. l
        <5>1. m \in 1 .. l
          BY <3>1, <4>1
        <5> QED  BY <1>8, <3>1, <4>1, <5>1 DEF Packed
      <4>2. CASE i = l + 1 /\ m \in 1 .. l
        BY <1>8, <1>9, <2>2, <3>1, <4>2 DEF Packed
      <4>3. CASE i = l + 1 /\ m = l + 1
        BY <1>9, <3>1, <4>3
      <4>4. m \in 1 .. l \/ m = l + 1
        BY <3>1
      <4> QED  BY <3>3, <4>1, <4>2, <4>3, <4>4
    <3> QED  BY <3>1, <3>2, <3>4, <3>5
  <2> QED  BY <2>1, <2>2
<1> HIDE DEF all
<1>11. JoinLast(all) \in Seq(Pieces) /\ \A i \in DOMAIN JoinLast(all) : Spans(JoinLast(all)[i], P)
  BY <1>10, JoinLastIs
<1> QED  BY <1>2, <1>11

-----------------------------------------------------------------------------
(* The chunks of the sections                                               *)

Headings     == Names \cup {"", "Figure", "References", "Paper profile"}
ContentTypes == {"abstract", "front_matter", "section_text", "table", "table_caption", "figure",
                 "reference", "page_text", "paper_profile"}
Types        == SectionTypes \cup {"results", "references", "other", "profile"}
Chunks(N)    == [text : Texts(N), page : Nat, first : Nat, last : Nat, contentType : ContentTypes,
                 section : Headings, path : Seq(Headings), type : Types]
AllSpan(cs, P) == \A i \in DOMAIN cs : Spans(cs[i], P)

\* A chunk begins and ends on the page it is made for.
LEMMA ChunkIs ==
  ASSUME NEW N, NEW t \in Texts(N), NEW p \in Nat, NEW k \in ContentTypes, NEW h \in Headings,
         NEW path \in Seq(Headings), NEW type \in Types
  PROVE  /\ Chunk(t, p, k, h, path, type) \in Chunks(N)
         /\ Chunk(t, p, k, h, path, type).first = p /\ Chunk(t, p, k, h, path, type).last = p
  BY DEF Chunk, Chunks

\* A member of a list is of its members' set.
LEMMA MemberIs ==
  ASSUME NEW S, NEW s \in Seq(S), NEW i \in DOMAIN s
  PROVE  s[i] \in S
  OBVIOUS

\* One or two members make a list.
LEMMA PairIs ==
  ASSUME NEW S, NEW a \in S, NEW b \in S
  PROVE  <<a>> \in Seq(S) /\ <<b>> \in Seq(S) /\ <<a, b>> \in Seq(S)
  OBVIOUS

\* A section has chunks, on pages of its paragraphs.
LEMMA SectionChunksIs ==
  ASSUME NEW s \in Sections, Rising(s.paragraphs), NEW P \in SUBSET Nat, Within(s.paragraphs, P),
         NEW parent \in Names \cup {""}
  PROVE  SectionChunks(s, parent) \in Seq(Chunks(Names)) /\ AllSpan(SectionChunks(s, parent), P)
<1> DEFINE ps == PackSection(s.paragraphs)
           I == {i \in DOMAIN ps : ContentType(s) = "abstract" \/ TextLen(ps[i].text) >= MIN_CHUNK_CHARS}
           K == Kept(ps, I)
           row(p) == [Chunk(p.text, p.first, ContentType(s), s.heading, SectionPath(s, parent), s.type) EXCEPT !.last = p.last]
           made == [i \in DOMAIN K |-> row(K[i])]
<1>1. SectionChunks(s, parent) = made
  BY DEF SectionChunks, Select
<1>2. s.paragraphs \in Seq(Paragraphs) /\ s.heading \in Headings /\ s.type \in Types
  BY DEF Sections, Headings, Types
<1>3. ps \in Seq(Pieces) /\ \A i \in DOMAIN ps : Spans(ps[i], P)
  BY <1>2, PackSectionIs
<1>4. I \in SUBSET DOMAIN ps
  OBVIOUS
<1> HIDE DEF ps, I
<1>5. K \in Seq(Pieces) /\ \A i \in DOMAIN K : Spans(K[i], P)
  <2>1. K \in Seq(Pieces) /\ \A i \in DOMAIN K : Nth(I, i) \in I /\ K[i] = ps[Nth(I, i)]
    BY <1>3, <1>4, KeptIs
  <2> HIDE DEF K
  <2> QED  BY <1>3, <1>4, <2>1
<1> HIDE DEF K
<1>6. SectionPath(s, parent) \in Seq(Headings) /\ ContentType(s) \in ContentTypes
  <2>1. SectionPath(s, parent) \in Seq(Headings)
    <3>1. parent \in Headings
      BY DEF Headings
    <3>2. PICK g \in Headings, h \in Headings : g = parent /\ h = s.heading
      BY <1>2, <3>1
    <3>3. <<s.heading>> \in Seq(Headings) /\ <<parent, s.heading>> \in Seq(Headings)
      BY <3>2, PairIs
    <3> QED  BY <3>3 DEF SectionPath
  <2>2. ContentType(s) \in ContentTypes
    BY DEF ContentType, ContentTypes
  <2> QED  BY <2>1, <2>2
<1>7. ASSUME NEW p \in Pieces
      PROVE  row(p) \in Chunks(Names) /\ row(p).first = p.first /\ row(p).last = p.last
  <2>1. p.text \in Texts(Names) /\ p.first \in Nat /\ p.last \in Nat
    BY DEF Pieces
  <2> DEFINE c == Chunk(p.text, p.first, ContentType(s), s.heading, SectionPath(s, parent), s.type)
  <2>2. c \in Chunks(Names) /\ c.first = p.first
    <3>1. PICK k \in ContentTypes, h \in Headings, path \in Seq(Headings), type \in Types :
            k = ContentType(s) /\ h = s.heading /\ path = SectionPath(s, parent) /\ type = s.type
      BY <1>2, <1>6
    <3>2. PICK t \in Texts(Names), n \in Nat : t = p.text /\ n = p.first
      BY <2>1
    <3>3. Chunk(t, n, k, h, path, type) \in Chunks(Names) /\ Chunk(t, n, k, h, path, type).first = n
      BY ONLY <3>1 DEF Chunk, Chunks
    <3> QED  BY <3>1, <3>2, <3>3
  <2>0. row(p) = [c EXCEPT !.last = p.last]
    OBVIOUS
  <2> HIDE DEF c, row
  <2>3. DOMAIN c = {"text", "page", "first", "last", "contentType", "section", "path", "type"}
    BY <2>2 DEF Chunks
  <2>4. [c EXCEPT !.last = p.last] \in Chunks(Names)
    BY <2>1, <2>2 DEF Chunks
  <2>5. [c EXCEPT !.last = p.last].first = p.first /\ [c EXCEPT !.last = p.last].last = p.last
    BY <2>2, <2>3
  <2> QED  BY <2>0, <2>4, <2>5
<1> HIDE DEF row
<1>8. \A i \in DOMAIN K : row(K[i]) \in Chunks(Names) /\ row(K[i]).first = K[i].first /\ row(K[i]).last = K[i].last
  <2> SUFFICES ASSUME NEW i \in DOMAIN K
               PROVE  row(K[i]) \in Chunks(Names) /\ row(K[i]).first = K[i].first /\ row(K[i]).last = K[i].last
    OBVIOUS
  <2>1. K \in Seq(Pieces) /\ i \in DOMAIN K
    BY <1>5
  <2>2. K[i] \in Pieces
    BY ONLY <2>1, MemberIs
  <2> QED  BY <1>7, <2>2
<1>9. made \in [DOMAIN K -> Chunks(Names)] /\ DOMAIN made = DOMAIN K /\ \A i \in DOMAIN K : made[i].first = K[i].first /\ made[i].last = K[i].last
  BY <1>8
<1> HIDE DEF made
<1>10. made \in Seq(Chunks(Names))
  BY <1>5, <1>9, EachIs
<1> QED  BY <1>1, <1>5, <1>9, <1>10 DEF AllSpan, Spans

\* What a short section is carried on as.
LEMMA LeadIs ==
  ASSUME NEW s \in Sections
  PROVE  /\ Lead(s) \in Paragraphs
         /\ \A p \in Nat \ {0} : s.paragraphs # <<>> /\ s.paragraphs[1].page = p => Lead(s).page = p
<1>1. s.paragraphs \in Seq(Paragraphs) /\ s.heading \in Names
  BY DEF Sections
<1>2. PICK t \in Texts(Names) : t = SectionText(s)
  BY <1>1, SectionTextIs
<1>3. PICK h \in Full(Names) : h = <<Passage(s.heading, Look[s.heading].len, FALSE)>>
  BY <1>1, LookIs, PassageIs
<1>4. Join(h, 2, t) \in Full(Names)
  <2>1. h \in Texts(Names) /\ h # <<>>
    BY DEF Full
  <2> QED  BY <2>1, JoinIs
<1>5. PICK q \in Nat : q = PageStart(s) /\ (s.paragraphs # <<>> => q = s.paragraphs[1].page)
  <2>1. CASE s.paragraphs = <<>>
    <3>1. 0 \in Nat /\ PageStart(s) = 0
      BY <2>1 DEF PageStart, NoPage
    <3> QED  BY <2>1, <3>1
  <2>2. CASE s.paragraphs # <<>>
    <3>1. s.paragraphs[1] \in Paragraphs
      BY <1>1, <2>2
    <3>2. s.paragraphs[1].page \in Nat
      BY <3>1 DEF Paragraphs
    <3> QED  BY <2>2, <3>2 DEF PageStart
  <2> QED  BY <2>1, <2>2
<1>6. Lead(s) = [text |-> Join(h, 2, t), page |-> IF q = NoPage THEN 1 ELSE q]
  BY <1>2, <1>3, <1>5 DEF Lead
<1> QED  BY <1>4, <1>5, <1>6 DEF Paragraphs, NoPage

Folding == [chunks : Seq(Chunks(Names)), parent : Names \cup {""}, carry : Seq(Paragraphs)]

\* After k sections: the chunks span pages in order, and what is carried is on
\* one, not beyond the sections to come.
Carried(acc, ss, k, P) ==
  /\ AllSpan(acc.chunks, P)
  /\ Len(acc.carry) <= 1 /\ Within(acc.carry, P)
  /\ \A j \in k + 1 .. Len(ss) : \A a \in DOMAIN acc.carry, b \in DOMAIN ss[j].paragraphs :
       acc.carry[a].page <= ss[j].paragraphs[b].page

\* Chunks after chunks.
LEMMA MoreChunks ==
  ASSUME NEW N, NEW A \in Seq(Chunks(N)), NEW B \in Seq(Chunks(N)), NEW P, AllSpan(A, P), AllSpan(B, P)
  PROVE  A \o B \in Seq(Chunks(N)) /\ AllSpan(A \o B, P)
<1> DEFINE C == A \o B
<1>1. /\ C \in Seq(Chunks(N)) /\ DOMAIN C = 1 .. Len(A) + Len(B) /\ Len(A) \in Nat /\ Len(B) \in Nat
      /\ DOMAIN A = 1 .. Len(A) /\ DOMAIN B = 1 .. Len(B)
      /\ \A i \in DOMAIN C : C[i] = IF i <= Len(A) THEN A[i] ELSE B[i - Len(A)]
  OBVIOUS
<1> HIDE DEF C
<1>2. \A i \in DOMAIN C : IF i <= Len(A) THEN i \in DOMAIN A ELSE i - Len(A) \in DOMAIN B
  BY <1>1
<1>3. AllSpan(C, P)
  BY <1>1, <1>2 DEF AllSpan
<1> QED  BY <1>1, <1>3 DEF C

\* A section with what was carried into it is one in order.
LEMMA CarriedInto ==
  ASSUME NEW s \in Sections, Rising(s.paragraphs), NEW P \in SUBSET Nat, Within(s.paragraphs, P),
         NEW c \in Seq(Paragraphs), Len(c) <= 1, Within(c, P),
         \A a \in DOMAIN c, b \in DOMAIN s.paragraphs : c[a].page <= s.paragraphs[b].page
  PROVE  LET t == [s EXCEPT !.paragraphs = c \o @]
         IN  /\ t \in Sections /\ t.paragraphs = c \o s.paragraphs
             /\ Rising(t.paragraphs) /\ Within(t.paragraphs, P)
<1> DEFINE t == [s EXCEPT !.paragraphs = c \o @]
           q == s.paragraphs
           r == c \o q
<1>1. q \in Seq(Paragraphs) /\ DOMAIN s = {"heading", "type", "level", "paragraphs"}
  BY DEF Sections
<1>2. t.paragraphs = r
  BY <1>1
<1>3. r \in Seq(Paragraphs)
  BY <1>1
<1>4. t \in Sections
  BY <1>3 DEF Sections
<1>5. Rising(c)
  <2> SUFFICES ASSUME NEW i \in DOMAIN c, NEW k \in 1 .. i PROVE c[k].page <= c[i].page
    BY DEF Rising
  <2>1. k = i /\ c[i] \in Paragraphs
    OBVIOUS
  <2> QED  BY <2>1 DEF Paragraphs
<1> HIDE DEF q, t
<1>6. Rising(r)
  BY <1>1, <1>5, ConcatRises DEF q
<1>7. Within(r, P)
  <2> SUFFICES ASSUME NEW i \in DOMAIN r PROVE r[i].page \in P
    BY DEF Within
  <2>1. \/ i \in DOMAIN c /\ r[i] = c[i]
        \/ i - Len(c) \in DOMAIN q /\ r[i] = q[i - Len(c)]
    BY <1>1
  <2> QED  BY <2>1 DEF Within, q
<1> HIDE DEF r
<1>8. t \in Sections /\ t.paragraphs = r /\ Rising(t.paragraphs) /\ Within(t.paragraphs, P)
  BY <1>2, <1>4, <1>6, <1>7
<1> QED  BY <1>8 DEF t, r, q

\* A list that is not empty has a first member.
LEMMA FirstIs ==
  ASSUME NEW S, NEW s \in Seq(S), s # <<>>
  PROVE  1 \in DOMAIN s /\ s[1] \in S /\ Len(s) \in Nat /\ Len(s) >= 1
  OBVIOUS

\* A list of one member.
LEMMA SingleIs ==
  ASSUME NEW S, NEW a \in S
  PROVE  <<a>> \in Seq(S) /\ Len(<<a>>) = 1 /\ DOMAIN <<a>> = {1} /\ <<a>>[1] = a
  OBVIOUS

\* The empty list.
LEMMA EmptyIs ==
  ASSUME NEW S
  PROVE  <<>> \in Seq(S) /\ DOMAIN <<>> = {} /\ Len(<<>>) = 0
  OBVIOUS

\* A later place is a place, with the earlier ones before it.
LEMMA IndexLater ==
  ASSUME NEW S, NEW s \in Seq(S), NEW k \in 1 .. Len(s), NEW j \in k + 1 .. Len(s)
  PROVE  j \in DOMAIN s /\ k \in 1 .. j - 1 /\ j \in k .. Len(s) /\ j \in 1 .. Len(s)
  OBVIOUS

\* A place is among those from itself on.
LEMMA IndexHere ==
  ASSUME NEW S, NEW s \in Seq(S), NEW k \in 1 .. Len(s)
  PROVE  k \in k .. Len(s)
  OBVIOUS

\* The places of a loop, and the ones before them.
LEMMA IndexBefore ==
  ASSUME NEW n \in Nat
  PROVE  0 \in 0 .. n /\ n \in 0 .. n /\ \A k \in 1 .. n : k - 1 \in 0 .. n /\ k \in 0 .. n
  OBVIOUS

\* Zero and one are at most one.
LEMMA OneAtMost ==
  ASSUME NEW n, n = 0 \/ n = 1
  PROVE  n <= 1
  OBVIOUS

\* Two lists joined begin as the first of them that has a member.
LEMMA ConcatFirst ==
  ASSUME NEW S, NEW a \in Seq(S), NEW b \in Seq(S), b # <<>>
  PROVE  a \o b # <<>> /\ (a \o b)[1] = IF a = <<>> THEN b[1] ELSE a[1]
  OBVIOUS

\* A section that a carry is put in front of begins with the carry.
LEMMA CarriedFirst ==
  ASSUME NEW carry \in Seq(Paragraphs), NEW own \in Seq(Paragraphs), own # <<>>
  PROVE  carry \o own # <<>> /\ (carry \o own)[1] = IF carry = <<>> THEN own[1] ELSE carry[1]
  BY ConcatFirst

\* Body text makes chunks of its own, or is carried on from its first page.
LEMMA PutBodyIs ==
  ASSUME NEW acc \in Folding, NEW t \in Sections, t.paragraphs # <<>>, Rising(t.paragraphs),
         NEW P \in SUBSET (Nat \ {0}), Within(t.paragraphs, P), NEW parent \in Names \cup {""}, AllSpan(acc.chunks, P)
  PROVE  /\ PutBody(acc, t, parent) \in Folding
         /\ AllSpan(PutBody(acc, t, parent).chunks, P)
         /\ Len(PutBody(acc, t, parent).carry) <= 1
         /\ \A a \in DOMAIN PutBody(acc, t, parent).carry : PutBody(acc, t, parent).carry[a].page = t.paragraphs[1].page
<1>1. acc.chunks \in Seq(Chunks(Names)) /\ DOMAIN acc = {"chunks", "parent", "carry"}
  BY DEF Folding
<1>2. CASE TextLen(SectionText(t)) < MIN_CHUNK_CHARS
  <2>1. PICK q \in P : q = t.paragraphs[1].page
    <3>1. t.paragraphs \in Seq(Paragraphs)
      BY DEF Sections
    <3>2. 1 \in DOMAIN t.paragraphs
      BY <3>1, FirstIs
    <3> QED  BY <3>2 DEF Within
  <2>2. Lead(t) \in Paragraphs /\ Lead(t).page = q
    <3>1. q \in Nat \ {0}
      OBVIOUS
    <3> QED  BY <2>1, <3>1, LeadIs
  <2>3. PICK e \in Paragraphs : e = Lead(t) /\ e.page = q
    BY <2>2
  <2> DEFINE r == [acc EXCEPT !.parent = parent, !.carry = <<e>>]
  <2>4. PutBody(acc, t, parent) = r
    BY <1>2, <2>3 DEF PutBody
  <2>5. r.chunks = acc.chunks /\ r.carry = <<e>> /\ r.parent = parent /\ DOMAIN r = {"chunks", "parent", "carry"}
    BY <1>1
  <2>6. <<e>> \in Seq(Paragraphs) /\ Len(<<e>>) = 1 /\ DOMAIN <<e>> = {1} /\ <<e>>[1] = e
    BY ONLY <2>3, SingleIs
  <2>7. r \in Folding
    BY <1>1, <2>6 DEF Folding
  <2> HIDE DEF r
  <2> HIDE DEF r
  <2>8. \A a \in DOMAIN r.carry : r.carry[a].page = t.paragraphs[1].page
    BY <2>1, <2>3, <2>5, <2>6
  <2>9. Len(r.carry) <= 1 /\ AllSpan(r.chunks, P)
    <3>1. Len(r.carry) = 1
      BY ONLY <2>5, <2>6
    <3>2. r.chunks = acc.chunks
      BY ONLY <2>5
    <3>3. AllSpan(r.chunks, P)
      BY <3>2
    <3>4. Len(r.carry) <= 1
      BY ONLY <3>1, OneAtMost
    <3> QED  BY ONLY <3>3, <3>4
  <2> QED  BY <2>4, <2>7, <2>8, <2>9
<1>3. CASE ~(TextLen(SectionText(t)) < MIN_CHUNK_CHARS)
  <2>1. PICK made \in Seq(Chunks(Names)) : made = SectionChunks(t, parent) /\ AllSpan(made, P)
    <3>1. P \in SUBSET Nat
      OBVIOUS
    <3> QED  BY <3>1, SectionChunksIs
  <2>2. acc.chunks \o made \in Seq(Chunks(Names)) /\ AllSpan(acc.chunks \o made, P)
    BY <1>1, <2>1, MoreChunks
  <2> DEFINE r == [parent |-> parent, carry |-> <<>>, chunks |-> acc.chunks \o made]
  <2>3. PutBody(acc, t, parent) = r
    BY <1>3, <2>1 DEF PutBody
  <2>4. <<>> \in Seq(Paragraphs) /\ DOMAIN <<>> = {} /\ Len(<<>>) = 0
    BY ONLY EmptyIs
  <2>5. r \in Folding
    BY <2>2, <2>4 DEF Folding
  <2>6. r.chunks = acc.chunks \o made /\ r.carry = <<>>
    OBVIOUS
  <2> HIDE DEF r
  <2>7. DOMAIN r.carry = {} /\ Len(r.carry) = 0
    BY ONLY <2>4, <2>6
  <2>8. AllSpan(r.chunks, P)
    BY <2>2, <2>6
  <2>9. Len(r.carry) <= 1 /\ \A a \in DOMAIN r.carry : r.carry[a].page = t.paragraphs[1].page
    <3>1. Len(r.carry) <= 1
      BY ONLY <2>7, OneAtMost
    <3>2. \A a \in DOMAIN r.carry : r.carry[a].page = t.paragraphs[1].page
      BY ONLY <2>7
    <3> QED  BY <3>1, <3>2
  <2> QED  BY <2>3, <2>5, <2>8, <2>9
<1> QED  BY <1>2, <1>3

\* The next section makes chunks in order, or is carried to those that follow.
LEMMA PutSectionIs ==
  ASSUME NEW ss \in Seq(Sections), Told(ss), Orderly(ss), NEW P \in SUBSET (Nat \ {0}), On(ss, P),
         NEW k \in 1 .. Len(ss), NEW acc \in Folding, Carried(acc, ss, k - 1, P)
  PROVE  PutSection(acc, ss[k]) \in Folding /\ Carried(PutSection(acc, ss[k]), ss, k, P)
<1>1. k \in DOMAIN ss /\ Len(ss) \in Nat
  OBVIOUS
<1>2. PICK s \in Sections : s = ss[k]
  BY <1>1
<1>3. s.paragraphs # <<>> /\ Rising(s.paragraphs) /\ Within(s.paragraphs, P) /\ s.paragraphs \in Seq(Paragraphs)
  BY <1>1, <1>2 DEF Told, Orderly, On, Sections
<1>4. /\ acc.chunks \in Seq(Chunks(Names)) /\ acc.parent \in Names \cup {""} /\ acc.carry \in Seq(Paragraphs)
      /\ DOMAIN acc = {"chunks", "parent", "carry"}
  BY DEF Folding
<1>5. /\ AllSpan(acc.chunks, P) /\ Len(acc.carry) <= 1 /\ Within(acc.carry, P)
      /\ \A j \in k .. Len(ss) : \A a \in DOMAIN acc.carry, b \in DOMAIN ss[j].paragraphs :
           acc.carry[a].page <= ss[j].paragraphs[b].page
  BY DEF Carried
<1>6. PICK parent \in Names \cup {""} : parent = IF s.level = 1 THEN s.heading ELSE acc.parent
  <2>1. s.heading \in Names
    BY DEF Sections
  <2> QED  BY <1>4, <2>1
<1>7. P \in SUBSET Nat
  OBVIOUS
<1>8. PICK ps : ps = acc.carry \o s.paragraphs
  OBVIOUS
<1>9. /\ ps # <<>>
      /\ ps[1] = IF acc.carry = <<>> THEN s.paragraphs[1] ELSE acc.carry[1]
  <2>0. /\ acc.carry \o s.paragraphs # <<>>
        /\ (acc.carry \o s.paragraphs)[1] = IF acc.carry = <<>> THEN s.paragraphs[1] ELSE acc.carry[1]
    <3>1. acc.carry \in Seq(Paragraphs) /\ s.paragraphs \in Seq(Paragraphs) /\ s.paragraphs # <<>>
      BY <1>3, <1>4
    <3> QED  BY Zenon, <3>1, CarriedFirst
  <2> QED  BY Zenon, <1>8, <2>0
<1>10. CASE ContentType(s) = "section_text"
  <2> DEFINE t == [s EXCEPT !.paragraphs = acc.carry \o @]
  <2>1. /\ t \in Sections /\ t.paragraphs = acc.carry \o s.paragraphs
        /\ Rising(t.paragraphs) /\ Within(t.paragraphs, P)
    <3>1. \A a \in DOMAIN acc.carry, b \in DOMAIN s.paragraphs : acc.carry[a].page <= s.paragraphs[b].page
      <4>1. k \in k .. Len(ss)
        BY IndexHere
      <4> QED  BY <1>2, <1>5, <4>1
    <3>2. PICK c \in Seq(Paragraphs) : c = acc.carry
      BY <1>4
    <3>3. Len(c) <= 1 /\ Within(c, P) /\ \A a \in DOMAIN c, b \in DOMAIN s.paragraphs : c[a].page <= s.paragraphs[b].page
      BY <1>5, <3>1, <3>2
    <3> QED  BY <1>3, <1>7, <3>2, <3>3, CarriedInto
  <2>2. PutSection(acc, s) = PutBody(acc, t, parent)
    BY <1>6, <1>10 DEF PutSection
  <2> HIDE DEF t
  <2>3. /\ t.paragraphs # <<>>
        /\ t.paragraphs[1] = IF acc.carry = <<>> THEN s.paragraphs[1] ELSE acc.carry[1]
    <3>1. t.paragraphs = ps
      BY ONLY <1>8, <2>1
    <3> QED  BY ONLY <1>9, <3>1
  <2>4. PICK r : r = PutBody(acc, t, parent)
    OBVIOUS
  <2>5. /\ r \in Folding /\ AllSpan(r.chunks, P) /\ Len(r.carry) <= 1
        /\ \A a \in DOMAIN r.carry : r.carry[a].page = t.paragraphs[1].page
    BY <1>5, <2>1, <2>3, <2>4, PutBodyIs
  <2>6. t.paragraphs[1].page \in P
    <3>1. 1 \in DOMAIN t.paragraphs
      <4>1. t.paragraphs \in Seq(Paragraphs)
        BY <2>1 DEF Sections
      <4> QED  BY <2>3, <4>1, FirstIs
    <3> QED  BY <2>1, <3>1 DEF Within
  <2>7. ASSUME NEW j \in k + 1 .. Len(ss), NEW b \in DOMAIN ss[j].paragraphs
        PROVE  t.paragraphs[1].page <= ss[j].paragraphs[b].page
    <3>1. CASE acc.carry = <<>>
      <4>0. 1 \in DOMAIN s.paragraphs
        BY <1>3, FirstIs
      <4>1. j \in DOMAIN ss /\ k \in 1 .. j - 1
        BY <1>1, IndexLater
      <4>2. Follows(s, ss[j])
        BY <1>2, <4>1 DEF Orderly
      <4> QED  BY <2>3, <3>1, <4>0, <4>2 DEF Follows
    <3>2. CASE acc.carry # <<>>
      <4>1. 1 \in DOMAIN acc.carry /\ j \in k .. Len(ss)
        BY <1>1, <1>4, <3>2, FirstIs, IndexLater
      <4> QED  BY <1>5, <2>3, <3>2, <4>1
    <3> QED  BY <3>1, <3>2
  <2>8. Within(r.carry, P)
    BY <2>5, <2>6 DEF Within
  <2>9. Carried(r, ss, k, P)
    BY <2>5, <2>7, <2>8 DEF Carried
  <2> QED  BY <1>2, <2>2, <2>4, <2>5, <2>9
<1>11. CASE ContentType(s) # "section_text"
  <2>1. PICK made \in Seq(Chunks(Names)) : made = SectionChunks(s, parent) /\ AllSpan(made, P)
    BY <1>3, <1>7, SectionChunksIs
  <2>2. acc.chunks \o made \in Seq(Chunks(Names)) /\ AllSpan(acc.chunks \o made, P)
    BY <1>4, <1>5, <2>1, MoreChunks
  <2> DEFINE r == [acc EXCEPT !.parent = parent, !.chunks = @ \o made]
  <2>3. PutSection(acc, s) = r
    BY <1>6, <1>11, <2>1 DEF PutSection
  <2>4. r.chunks = acc.chunks \o made /\ r.carry = acc.carry
    BY <1>4
  <2>5. r \in Folding
    BY <1>4, <2>2 DEF Folding
  <2> HIDE DEF r
  <2>6. \A j \in k + 1 .. Len(ss) : j \in k .. Len(ss)
    BY <1>1, IndexLater
  <2>7. Carried(r, ss, k, P)
    BY <1>5, <2>2, <2>4, <2>6 DEF Carried
  <2> QED  BY <1>2, <2>3, <2>5, <2>7
<1> QED  BY <1>10, <1>11

\* Sections in order make chunks that span pages of theirs.
LEMMA SectionsLoop ==
  ASSUME NEW ss \in Seq(Sections), Told(ss), Orderly(ss), NEW P \in SUBSET (Nat \ {0}), On(ss, P)
  PROVE  LET r == Folded(PutSection, [chunks |-> <<>>, parent |-> "", carry |-> <<>>], ss)
         IN  r \in Folding /\ Carried(r, ss, Len(ss), P)
<1> DEFINE n == Len(ss)
           start == [chunks |-> <<>>, parent |-> "", carry |-> <<>>]
           Def(f) == f = [k \in 0 .. n |-> IF k = 0 THEN start ELSE PutSection(f[k - 1], ss[k])]
           upto == CHOOSE f : Def(f)
           step == [k \in 1 .. n |-> [a \in Folding |->
                      IF PutSection(a, ss[k]) \in Folding THEN PutSection(a, ss[k]) ELSE a]]
           Good == [k \in 0 .. n |-> {a \in Folding : Carried(a, ss, k, P)}]
<1>1. n \in Nat /\ start \in Folding /\ Carried(start, ss, 0, P)
  <2>1. <<>> \in Seq(Chunks(Names)) /\ <<>> \in Seq(Paragraphs) /\ DOMAIN <<>> = {} /\ Len(<<>>) = 0
    OBVIOUS
  <2>2. start \in Folding
    BY <2>1 DEF Folding
  <2>3. AllSpan(<<>>, P) /\ Within(<<>>, P)
    BY <2>1 DEF AllSpan, Within
  <2>4. start.chunks = <<>> /\ start.carry = <<>>
    OBVIOUS
  <2> HIDE DEF start
  <2>5. Carried(start, ss, 0, P)
    BY <2>1, <2>3, <2>4 DEF Carried
  <2> QED  BY <2>2, <2>5
<1>2. \A k \in 1 .. n : \A a \in Good[k - 1] : PutSection(a, ss[k]) \in Folding /\ PutSection(a, ss[k]) \in Good[k]
  <2> SUFFICES ASSUME NEW k \in 1 .. n, NEW a \in Good[k - 1]
               PROVE  PutSection(a, ss[k]) \in Folding /\ PutSection(a, ss[k]) \in Good[k]
    OBVIOUS
  <2>0. k - 1 \in 0 .. n /\ k \in 0 .. n
    BY <1>1, IndexBefore
  <2>1. a \in Folding /\ Carried(a, ss, k - 1, P)
    BY <2>0
  <2>2. PutSection(a, ss[k]) \in Folding /\ Carried(PutSection(a, ss[k]), ss, k, P)
    BY <2>1, PutSectionIs
  <2> QED  BY <2>0, <2>2
<1>3. start \in Good[0] /\ \A k \in 0 .. n : \A a \in Good[k] : a \in Folding /\ Carried(a, ss, k, P)
  <2>1. 0 \in 0 .. n
    BY <1>1, IndexBefore
  <2> QED  BY <1>1, <2>1
<1>4. /\ step \in [1 .. n -> [Folding -> Folding]]
      /\ \A k \in 1 .. n : \A a \in Folding : PutSection(a, ss[k]) \in Folding => step[k][a] = PutSection(a, ss[k])
  OBVIOUS
<1> HIDE DEF step, n, Good, start
<1>5. PICK g : Loop(g, Folding, n, start, step)
  BY <1>1, <1>4, LoopExists
<1>6. \A k \in 0 .. n : g[k] \in Good[k]
  <2>1. g[0] \in Good[0]
    BY <1>3, <1>5 DEF Loop
  <2>2. ASSUME NEW k \in 1 .. n, g[k - 1] \in Good[k - 1]
        PROVE  g[k] \in Good[k]
    <3>1. g[k - 1] \in Folding /\ g[k] = step[k][g[k - 1]]
      BY <1>5 DEF Loop
    <3>2. PutSection(g[k - 1], ss[k]) \in Folding /\ PutSection(g[k - 1], ss[k]) \in Good[k]
      BY <1>2, <2>2
    <3> QED  BY <1>4, <3>1, <3>2
  <2> QED  BY <1>1, <2>1, <2>2, LoopKeeps
<1>7. \A k \in 0 .. n : g[k] = IF k = 0 THEN start ELSE PutSection(g[k - 1], ss[k])
  <2> SUFFICES ASSUME NEW k \in 0 .. n, k # 0
               PROVE  g[k] = PutSection(g[k - 1], ss[k])
    BY <1>5 DEF Loop
  <2>1. k \in 1 .. n /\ k - 1 \in 0 .. n
    BY <1>1
  <2>2. g[k - 1] \in Folding /\ g[k] = step[k][g[k - 1]]
    BY <1>5, <2>1 DEF Loop
  <2>3. PutSection(g[k - 1], ss[k]) \in Folding
    BY <1>2, <1>6, <2>1
  <2> QED  BY <1>4, <2>1, <2>2, <2>3
<1>8. Def(g)
  BY <1>5, <1>7 DEF Loop
<1>9. Def(upto)
  BY <1>8
<1>10. Folded(PutSection, start, ss) = upto[n]
  BY DEF Folded, n
<1> HIDE DEF upto
<1>11. upto[0] = start /\ \A k \in 1 .. n : upto[k] = PutSection(upto[k - 1], ss[k])
  BY <1>1, <1>9
<1>12. \A k \in 0 .. n : upto[k] \in Good[k]
  <2>1. \A k \in 1 .. n : upto[k - 1] \in Good[k - 1] => upto[k] \in Good[k]
    BY <1>2, <1>11
  <2>2. upto[0] \in Good[0]
    BY <1>3, <1>11
  <2> QED  BY <1>1, <2>1, <2>2, LoopKeeps
<1>13. upto[n] \in Good[n]
  BY <1>1, <1>12
<1>14. upto[n] \in Folding /\ Carried(upto[n], ss, n, P)
  BY <1>1, <1>3, <1>13
<1> QED  BY <1>10, <1>14 DEF n, start

\* What is carried to the end joins a chunk there is; its pages stay.
LEMMA AttachCarryIs ==
  ASSUME NEW acc \in Folding, NEW P, AllSpan(acc.chunks, P)
  PROVE  AttachCarry(acc) \in Seq(Chunks(Names)) /\ AllSpan(AttachCarry(acc), P)
<1>1. /\ acc.chunks \in Seq(Chunks(Names)) /\ acc.carry \in Seq(Paragraphs)
  BY DEF Folding
<1> DEFINE b == SelectLastInSeq(acc.chunks, LAMBDA c : c.contentType = "section_text")
<1>2. b \in 0 .. Len(acc.chunks)
  <2> DEFINE I == {i \in 1 .. Len(acc.chunks) : acc.chunks[i].contentType = "section_text"}
  <2>1. b = IF I # {} THEN Max(I) ELSE 0
    BY DEF SelectLastInSeq
  <2>2. IsFiniteSet(1 .. Len(acc.chunks)) /\ I \in SUBSET (1 .. Len(acc.chunks)) /\ Len(acc.chunks) \in Nat
    BY <1>1, FS_Interval
  <2> HIDE DEF I
  <2>6. 1 .. Len(acc.chunks) \subseteq Int
    BY <2>2
  <2>5. I \in SUBSET Int /\ IsFiniteSet(I)
    BY <2>2, <2>6, FS_Subset
  <2>3. I # {} => Max(I) \in I
    BY <2>5, MaxIsThere
  <2>4. 0 \in 0 .. Len(acc.chunks)
    BY <2>2
  <2> QED  BY <2>1, <2>2, <2>3, <2>4
<1>3. CASE acc.carry = <<>> \/ b = 0
  BY <1>1, <1>3 DEF AttachCarry
<1>4. CASE acc.carry # <<>> /\ b # 0
  <2>1. b \in DOMAIN acc.chunks /\ acc.carry[1] \in Paragraphs
    BY <1>1, <1>2, <1>4
  <2>2. PICK c \in Chunks(Names) : c = acc.chunks[b]
    BY <1>1, <2>1, MemberIs
  <2>3. acc.carry[1].text \in Texts(Names) /\ c.text \in Texts(Names)
    BY <2>1 DEF Paragraphs, Full, Chunks
  <2>4. PICK t \in Texts(Names) : t = Join(c.text, 2, acc.carry[1].text)
    BY <2>3, JoinIs
  <2> DEFINE d == [c EXCEPT !.text = t]
             r == [acc.chunks EXCEPT ![b] = d]
  <2>5. AttachCarry(acc) = r
    BY <1>4, <2>2, <2>4 DEF AttachCarry
  <2>6. d \in Chunks(Names) /\ d.first = c.first /\ d.last = c.last
    BY DEF Chunks
  <2> HIDE DEF d, b
  <2>7. r \in Seq(Chunks(Names)) /\ DOMAIN r = DOMAIN acc.chunks /\ \A i \in DOMAIN r : r[i] = IF i = b THEN d ELSE acc.chunks[i]
    BY <1>1, <2>1, <2>6
  <2> HIDE DEF r
  <2>8. \A i \in DOMAIN r : Spans(r[i], P)
    BY <2>1, <2>2, <2>6, <2>7 DEF AllSpan, Spans
  <2> QED  BY <2>5, <2>7, <2>8 DEF AllSpan
<1> QED  BY <1>3, <1>4

\* The chunks of the sections are on pages of the sections.
LEMMA BodyChunksIs ==
  ASSUME NEW ss \in Seq(Sections), Told(ss), Orderly(ss), NEW P \in SUBSET (Nat \ {0}), On(ss, P)
  PROVE  BodyChunks(ss) \in Seq(Chunks(Names)) /\ AllSpan(BodyChunks(ss), P)
<1>1. PICK r \in Folding : r = Folded(PutSection, [chunks |-> <<>>, parent |-> "", carry |-> <<>>], ss) /\ AllSpan(r.chunks, P)
  BY SectionsLoop DEF Carried
<1>2. BodyChunks(ss) = AttachCarry(r)
  BY <1>1 DEF BodyChunks
<1> QED  BY <1>1, <1>2, AttachCarryIs

\* Chunks that span pages of P.
Made(P) == {c \in Chunks(Names) : Spans(c, P)}

\* Chunks on some pages are among those made on more.
LEMMA MadeIs ==
  ASSUME NEW cs \in Seq(Chunks(Names)), NEW P, AllSpan(cs, P), NEW Q, P \subseteq Q
  PROVE  cs \in Seq(Made(Q))
<1>1. \A i \in DOMAIN cs : cs[i] \in Made(Q)
  <2> SUFFICES ASSUME NEW i \in DOMAIN cs PROVE cs[i] \in Made(Q)
    OBVIOUS
  <2>1. cs[i] \in Chunks(Names)
    BY MemberIs
  <2>2. Spans(cs[i], P)
    BY DEF AllSpan
  <2> QED  BY <2>1, <2>2 DEF Made, Spans
<1>2. cs \in [DOMAIN cs -> Made(Q)] /\ DOMAIN cs = 1 .. Len(cs) /\ Len(cs) \in Nat
  BY <1>1
<1> QED  BY <1>2

\* A chunk of one page.
LEMMA ChunkOn ==
  ASSUME NEW P \in SUBSET Nat, NEW t \in Texts(Names), NEW p \in P, NEW k \in ContentTypes, NEW h \in Headings,
         NEW g \in Headings, NEW type \in Types
  PROVE  Chunk(t, p, k, h, <<g>>, type) \in Made(P)
<1>1. <<g>> \in Seq(Headings) /\ p \in Nat
  BY SingleIs
<1>2. /\ Chunk(t, p, k, h, <<g>>, type) \in Chunks(Names)
      /\ Chunk(t, p, k, h, <<g>>, type).first = p /\ Chunk(t, p, k, h, <<g>>, type).last = p
  <2>1. PICK path \in Seq(Headings) : path = <<g>>
    BY <1>1
  <2>2. Chunk(t, p, k, h, path, type) \in Chunks(Names)
    BY <1>1 DEF Chunk, Chunks
  <2> QED  BY <2>1, <2>2 DEF Chunk
<1>3. p <= p
  BY <1>1
<1> QED  BY <1>2, <1>3 DEF Made, Spans

\* The kinds of chunks there are for tables, captions and references.
LEMMA KindsAre ==
  /\ {"table", "table_caption", "figure", "reference", "page_text", "paper_profile"} \subseteq ContentTypes
  /\ {"results", "references", "other", "profile"} \subseteq Types
  /\ {"", "Figure", "References", "Paper profile"} \subseteq Headings
  /\ Names \cup {""} \subseteq Headings
  BY DEF ContentTypes, Types, Headings

\* Tables found make chunks on their pages.
LEMMA TableChunksIs ==
  ASSUME NEW ts \in Seq(FoundTables), NEW P \in SUBSET Nat, Within(ts, P)
  PROVE  TableChunks(ts) \in Seq(Made(P))
<1> DEFINE row(t) == Chunk(Join(t.caption, 1, <<Passage(t.of, t.len, TRUE)>>), t.page, "table", t.section, <<t.section>>, "results")
           made == [i \in DOMAIN ts |-> row(ts[i])]
<1>1. TableChunks(ts) = made
  BY DEF TableChunks
<1>2. ASSUME NEW i \in DOMAIN ts
      PROVE  row(ts[i]) \in Made(P)
  <2>1. PICK t \in FoundTables : t = ts[i]
    BY MemberIs
  <2>2. t.page \in P
    BY <2>1 DEF Within
  <2>3. t.of \in Names /\ t.len \in Nat \ {0} /\ t.caption \in Texts(Names) /\ t.section \in Names \cup {""}
    BY DEF FoundTables
  <2>4. PICK w \in Texts(Names) : w = Join(t.caption, 1, <<Passage(t.of, t.len, TRUE)>>)
    <3>1. TRUE \in BOOLEAN
      OBVIOUS
    <3>2. <<Passage(t.of, t.len, TRUE)>> \in Texts(Names)
      BY <2>3, <3>1, PassageIs DEF Full
    <3> QED  BY <2>3, <3>2, JoinIs
  <2>5. PICK h \in Headings, p \in P : h = t.section /\ p = t.page
    BY <2>2, <2>3, KindsAre
  <2>6. Chunk(w, p, "table", h, <<h>>, "results") \in Made(P)
    BY KindsAre, ChunkOn
  <2> QED  BY <2>1, <2>4, <2>5, <2>6
<1> HIDE DEF row
<1>3. made \in [DOMAIN ts -> Made(P)]
  BY <1>2
<1> HIDE DEF made
<1> QED  BY <1>1, <1>3, EachIs

\* So do captions.
LEMMA CaptionChunksIs ==
  ASSUME NEW cs \in Seq(Captions), NEW ts, NEW P \in SUBSET Nat, Within(cs, P)
  PROVE  CaptionChunks(cs, ts) \in Seq(Made(P))
<1> DEFINE I == {i \in DOMAIN cs : ~(cs[i].kind = "table" /\ \E t \in ToSet(ts) : t.caption = cs[i].text)}
           K == Kept(cs, I)
           row(c) == Chunk(c.text, c.page, IF c.kind = "figure" THEN "figure" ELSE "table_caption", "", <<"Figure">>, "results")
           made == [i \in DOMAIN K |-> row(K[i])]
<1>1. CaptionChunks(cs, ts) = made
  BY DEF CaptionChunks, Select
<1>2. I \in SUBSET DOMAIN cs
  OBVIOUS
<1> HIDE DEF I
<1>3. K \in Seq(Captions) /\ Within(K, P)
  BY <1>2, KeptIs, KeptRises
<1> HIDE DEF K
<1>4. ASSUME NEW i \in DOMAIN K
      PROVE  row(K[i]) \in Made(P)
  <2>1. PICK c \in Captions : c = K[i]
    BY <1>3, MemberIs
  <2>2. PICK t \in Texts(Names), p \in P : t = c.text /\ p = c.page
    <3>1. c.page \in P
      BY <1>3, <2>1 DEF Within
    <3> QED  BY <3>1 DEF Captions
  <2>3. PICK k \in ContentTypes : k = IF c.kind = "figure" THEN "figure" ELSE "table_caption"
    BY KindsAre
  <2>4. Chunk(t, p, k, "", <<"Figure">>, "results") \in Made(P)
    BY KindsAre, ChunkOn
  <2> QED  BY <2>1, <2>2, <2>3, <2>4
<1> HIDE DEF row
<1>5. made \in [DOMAIN K -> Made(P)]
  BY <1>4
<1> HIDE DEF made
<1> QED  BY <1>1, <1>3, <1>5, EachIs

\* A product of numbers is a number.
LEMMA TimesIs ==
  ASSUME NEW a \in Nat, NEW b \in Nat
  PROVE  a * b \in Nat
  OBVIOUS

\* The references make chunks without a page.
LEMMA ReferenceChunksIs ==
  ASSUME NEW es \in Seq(Texts(Names))
  PROVE  ReferenceChunks(es) \in Seq(Made({0}))
<1> DEFINE R == REFERENCES_PER_CHUNK
           group(i) == SubSeq(es, (i - 1) * R + 1, Min({i * R, Len(es)}))
           row(i) == Chunk(JoinAll(group(i), 1), NoPage, "reference", "", <<"References">>, "references")
<1>1. R \in Nat \ {0} /\ Len(es) \in Nat
  BY ChunkSizes
<1>2. PICK n \in Nat : n = (Len(es) + R - 1) \div R
  <2>1. Len(es) + R - 1 \in Nat
    BY <1>1
  <2> QED  BY <1>1, <2>1, DivIs
<1> DEFINE made == [i \in 1 .. n |-> row(i)]
<1>3. ReferenceChunks(es) = made
  BY <1>2 DEF ReferenceChunks
<1>4. ASSUME NEW i \in 1 .. n
      PROVE  row(i) \in Made({0})
  <2>1. PICK a \in Nat, b \in Nat : a = (i - 1) * R + 1 /\ b = i * R /\ a >= 1
    <3>1. i - 1 \in Nat /\ i \in Nat /\ R \in Nat
      BY <1>1
    <3>2. (i - 1) * R \in Nat /\ i * R \in Nat
      BY <3>1, TimesIs
    <3> QED  BY <3>2
  <2>2. PICK m \in Int : m = Min({b, Len(es)}) /\ m <= Len(es)
    <3>1. b \in Int /\ Len(es) \in Int
      BY <1>1
    <3>2. Min({b, Len(es)}) = IF b <= Len(es) THEN b ELSE Len(es)
      BY <3>1, MinOfTwo
    <3> QED  BY <3>1, <3>2
  <2>3. SubSeq(es, a, m) \in Seq(Texts(Names))
    BY <2>1, <2>2, StretchRises
  <2>4. PICK t \in Texts(Names) : t = JoinAll(SubSeq(es, a, m), 1)
    BY <2>3, JoinAllIs
  <2>5. 0 \in {0} /\ {0} \in SUBSET Nat
    OBVIOUS
  <2>6. Chunk(t, 0, "reference", "", <<"References">>, "references") \in Made({0})
    BY <2>5, KindsAre, ChunkOn
  <2> QED  BY <2>1, <2>2, <2>4, <2>6 DEF NoPage
<1> HIDE DEF row
<1>5. made \in [1 .. n -> Made({0})]
  BY <1>4
<1> HIDE DEF made
<1> QED  BY <1>3, <1>5, FunctionIsSeq

\* Chunks made on some pages are made on more.
LEMMA MadeOn ==
  ASSUME NEW P, NEW Q, P \subseteq Q, NEW cs \in Seq(Made(P))
  PROVE  cs \in Seq(Made(Q))
<1>1. Made(P) \subseteq Made(Q)
  BY DEF Made, Spans
<1> QED  BY <1>1

\* What a parsed paper is cut into spans pages of the paper, or none.
LEMMA BuildChunksIs ==
  ASSUME NEW n \in Nat, NEW r, GoodParse(r, 1 .. n)
  PROVE  BuildChunks(r) \in Seq(Made(0 .. n))
<1> DEFINE P == 1 .. n
           Q == 0 .. n
<1>1. P \in SUBSET (Nat \ {0}) /\ P \in SUBSET Nat /\ P \subseteq Q /\ {0} \subseteq Q
  OBVIOUS
<1>2. /\ r.sections \in Seq(Sections) /\ Told(r.sections) /\ Orderly(r.sections) /\ On(r.sections, P)
      /\ r.references \in Seq(Texts(Names))
      /\ r.captions \in Seq(Captions) /\ Within(r.captions, P)
      /\ r.tables \in Seq(FoundTables) /\ Within(r.tables, P)
  BY DEF GoodParse
<1> HIDE DEF P, Q
<1>3. BodyChunks(r.sections) \in Seq(Made(Q))
  <2>1. BodyChunks(r.sections) \in Seq(Chunks(Names)) /\ AllSpan(BodyChunks(r.sections), P)
    BY <1>1, <1>2, BodyChunksIs
  <2> QED  BY <1>1, <2>1, MadeIs
<1>4. TableChunks(r.tables) \in Seq(Made(Q)) /\ CaptionChunks(r.captions, r.tables) \in Seq(Made(Q))
  <2>1. TableChunks(r.tables) \in Seq(Made(P)) /\ CaptionChunks(r.captions, r.tables) \in Seq(Made(P))
    BY <1>1, <1>2, TableChunksIs, CaptionChunksIs
  <2>2. TableChunks(r.tables) \in Seq(Made(Q))
    BY <1>1, <2>1, MadeOn
  <2>3. CaptionChunks(r.captions, r.tables) \in Seq(Made(Q))
    <3>1. PICK cs \in Seq(Made(P)) : cs = CaptionChunks(r.captions, r.tables)
      BY <2>1
    <3>2. cs \in Seq(Made(Q))
      BY <1>1, MadeOn
    <3> QED  BY <3>1, <3>2
  <2> QED  BY <2>2, <2>3
<1>5. ReferenceChunks(r.references) \in Seq(Made(Q))
  <2>1. ReferenceChunks(r.references) \in Seq(Made({0}))
    BY <1>2, ReferenceChunksIs
  <2> QED  BY <1>1, <2>1, MadeOn
<1>6. PICK a, b, c, d \in Seq(Made(Q)) :
        BuildChunks(r) = a \o b \o c \o d
  BY <1>3, <1>4, <1>5 DEF BuildChunks
<1>7. a \o b \o c \o d \in Seq(Made(Q))
  OBVIOUS
<1> QED  BY <1>6, <1>7 DEF Q

-----------------------------------------------------------------------------
(* The chunks of the pages                                                  *)

\* A text is kept at the end or left out.
LEMMA KeepIs ==
  ASSUME NEW ts \in Seq(Texts(Names)), NEW t \in Texts(Names)
  PROVE  Keep(ts, t) \in Seq(Texts(Names))
<1>1. Append(ts, t) \in Seq(Texts(Names))
  OBVIOUS
<1> QED  BY <1>1 DEF Keep

\* A piece fills the text at hand or opens another with the tail of it.
LEMMA PutPieceIs ==
  ASSUME NEW acc \in Cutting, NEW t \in Texts(Names)
  PROVE  PutPiece(acc, t) \in Cutting
<1>1. PICK ts \in Seq(Texts(Names)), u \in Texts(Names) : ts = acc.texts /\ u = acc.current
  BY DEF Cutting
<1>2. PICK grown \in Texts(Names) : grown = Join(u, 2, t)
  BY JoinIs
<1>3. PICK kept \in Seq(Texts(Names)) : kept = Keep(ts, u)
  BY KeepIs
<1>4. PICK tail \in Texts(Names) : tail = TailOverlap(u)
  <2>1. TextLen(u) \in Nat
    BY TextLenIs
  <2>2. TextLen(u) \in Int /\ TextLen(u) - CHUNK_OVERLAP_CHARS \in Int
    BY <2>1, ChunkSizes
  <2>3. Slice(u, TextLen(u) - CHUNK_OVERLAP_CHARS, TextLen(u)) \in Texts(Names)
    BY <2>2, SliceIs
  <2> QED  BY <2>3 DEF TailOverlap
<1>5. PICK begun \in Texts(Names) : begun = Join(tail, 2, t)
  BY JoinIs
<1>6. PutPiece(acc, t) = [acc EXCEPT !.current = grown] \/ PutPiece(acc, t) = [texts |-> kept, current |-> begun]
  BY <1>1, <1>2, <1>3, <1>4, <1>5 DEF PutPiece
<1>7. [acc EXCEPT !.current = grown] \in Cutting
  BY DEF Cutting
<1>8. [texts |-> kept, current |-> begun] \in Cutting
  BY DEF Cutting
<1> QED  BY <1>6, <1>7, <1>8

\* A page is split piece by piece.
LEMMA PiecesLoop ==
  ASSUME NEW ts \in Seq(Texts(Names))
  PROVE  \E f \in [0 .. Len(ts) -> Cutting] :
           /\ f[0] = [texts |-> <<>>, current |-> <<>>]
           /\ \A k \in 1 .. Len(ts) : f[k] = PutPiece(f[k - 1], ts[k])
           /\ Folded(PutPiece, [texts |-> <<>>, current |-> <<>>], ts) = f[Len(ts)]
<1> DEFINE n == Len(ts)
           D == Cutting
           Def(f) == f = [k \in 0 .. n |-> IF k = 0 THEN [texts |-> <<>>, current |-> <<>>] ELSE PutPiece(f[k - 1], ts[k])]
           upto == CHOOSE f : Def(f)
           step == [k \in 1 .. n |-> [a \in D |-> PutPiece(a, ts[k])]]
<1>1. n \in Nat /\ [texts |-> <<>>, current |-> <<>>] \in D /\ \A k \in 1 .. n : ts[k] \in Texts(Names)
  <2>1. <<>> \in Seq(Texts(Names)) /\ <<>> \in Texts(Names)
    BY DEF Texts
  <2>2. [texts |-> <<>>, current |-> <<>>] \in Cutting
    BY <2>1 DEF Cutting
  <2> QED  BY <2>2
<1>2. \A k \in 1 .. n : \A a \in D : PutPiece(a, ts[k]) \in D
  BY <1>1, PutPieceIs
<1>3. /\ step \in [1 .. n -> [D -> D]]
      /\ \A k \in 1 .. n : \A a \in D : step[k][a] = PutPiece(a, ts[k])
  <2> HIDE DEF D
  <2> QED  BY <1>2
<1> HIDE DEF step, n, D
<1>4. PICK g : Loop(g, D, n, [texts |-> <<>>, current |-> <<>>], step)
  BY <1>1, <1>3, LoopExists
<1>5. \A k \in 0 .. n : g[k] = IF k = 0 THEN [texts |-> <<>>, current |-> <<>>] ELSE PutPiece(g[k - 1], ts[k])
  BY <1>3, <1>4 DEF Loop
<1>6. Def(g)
  BY <1>4, <1>5 DEF Loop
<1>7. Def(upto)
  BY <1>6
<1>8. Folded(PutPiece, [texts |-> <<>>, current |-> <<>>], ts) = upto[n]
  BY DEF Folded, n
<1> HIDE DEF upto
<1>9. upto[0] = [texts |-> <<>>, current |-> <<>>] /\ \A k \in 1 .. n : upto[k] = PutPiece(upto[k - 1], ts[k])
  BY <1>1, <1>7
<1>10. upto \in [0 .. n -> D]
  <2>1. upto = [k \in 0 .. n |-> upto[k]]
    BY <1>7
  <2>2. \A k \in 1 .. n : upto[k - 1] \in D => upto[k] \in D
    BY <1>2, <1>9
  <2> HIDE DEF Def
  <2> QED  BY <1>1, <1>9, <2>1, <2>2, LoopStays
<1> QED  BY <1>8, <1>9, <1>10 DEF n, D

\* The text of a page is split in texts.
LEMMA SplitTextIs ==
  ASSUME NEW ps \in Seq(Texts(Names))
  PROVE  SplitText(ps) \in Seq(Texts(Names))
<1> DEFINE each == [i \in DOMAIN ps |-> IF TextLen(ps[i]) <= CHUNK_MAX_CHARS THEN <<ps[i]>> ELSE SplitSentences(ps[i])]
           pieces == FlattenSeq(each)
           r == Folded(PutPiece, [texts |-> <<>>, current |-> <<>>], pieces)
<1>1. pieces \in Seq(Texts(Names))
  <2>1. \A i \in DOMAIN ps : each[i] \in Seq(Texts(Names))
    <3> SUFFICES ASSUME NEW i \in DOMAIN ps
                 PROVE  each[i] \in Seq(Texts(Names))
      OBVIOUS
    <3>1. PICK p \in Texts(Names) : p = ps[i]
      BY MemberIs
    <3>2. <<p>> \in Seq(Texts(Names))
      BY SingleIs
    <3>3. SplitSentences(p) \in Seq(Texts(Names))
      <4>1. SplitSentences(p) \in Seq(Texts(Names) \ {<<>>})
        BY SentencesAre DEF Texts
      <4> QED  BY <4>1
    <3> QED  BY <3>1, <3>2, <3>3
  <2>2. each \in [DOMAIN ps -> Seq(Texts(Names))]
    BY <2>1
  <2> HIDE DEF each
  <2> QED  BY <2>2, FlattenEach
<1> HIDE DEF pieces
<1>2. r \in Cutting
  <2>1. PICK f \in [0 .. Len(pieces) -> Cutting] : r = f[Len(pieces)]
    BY <1>1, PiecesLoop
  <2>2. Len(pieces) \in 0 .. Len(pieces)
    <3>1. Len(pieces) \in Nat
      BY <1>1
    <3> QED  BY <3>1
  <2> QED  BY <2>1, <2>2
<1>3. PICK ts \in Seq(Texts(Names)), t \in Texts(Names) : ts = r.texts /\ t = r.current
  BY <1>2 DEF Cutting
<1>4. PICK whole \in Texts(Names) : whole = JoinAll(ps, 2)
  BY JoinAllIs
<1>5. Keep(<<>>, whole) \in Seq(Texts(Names)) /\ Keep(ts, t) \in Seq(Texts(Names))
  <2>1. <<>> \in Seq(Texts(Names))
    BY EmptyIs
  <2> QED  BY <2>1, KeepIs
<1>6. SplitText(ps) = IF TextLen(whole) <= CHUNK_MAX_CHARS THEN Keep(<<>>, whole) ELSE Keep(r.texts, r.current)
  BY <1>4 DEF SplitText, pieces
<1> QED  BY <1>3, <1>5, <1>6

\* What Papers holds.
GoodPaper(pp) ==
  /\ pp.pages \in Nat /\ pp.meta.lines \subseteq Names
  /\ pp.lines \in Seq(PaperLines) /\ Rising(pp.lines) /\ Within(pp.lines, 1 .. pp.pages)
  /\ pp.tables \in Seq(PaperTables) /\ Within(pp.tables, 1 .. pp.pages)

\* Papers are as PaperAssumption says.
LEMMA PapersAreGood ==
  ASSUME NEW pp \in Papers
  PROVE  GoodPaper(pp)
<1> DEFINE PL == [of : Names, page : 1 .. pp.pages, block : Nat, margin : BOOLEAN, upper : BOOLEAN]
           PT == [of : Names, len : Nat \ {0}, page : 1 .. pp.pages]
<1>1. /\ pp.pages \in Nat /\ pp.meta.lines \subseteq Names /\ pp.lines \in Seq(PL) /\ pp.tables \in Seq(PT)
      /\ Rising(pp.lines)
  BY PaperAssumption DEF Names, Rising
<1>2. 1 .. pp.pages \subseteq Nat
  BY <1>1
<1>3. PL \subseteq PaperLines /\ PT \subseteq PaperTables /\ (\A l \in PL : l.page \in 1 .. pp.pages) /\ (\A t \in PT : t.page \in 1 .. pp.pages)
  BY <1>2 DEF PaperLines, PaperTables
<1> HIDE DEF PL, PT
<1>4. pp.lines \in Seq(PaperLines) /\ pp.tables \in Seq(PaperTables)
  BY <1>1, <1>3
<1>5. Within(pp.lines, 1 .. pp.pages)
  <2> SUFFICES ASSUME NEW i \in DOMAIN pp.lines
               PROVE  pp.lines[i].page \in 1 .. pp.pages
    BY DEF Within
  <2>1. pp.lines[i] \in PL
    BY <1>1, MemberIs
  <2> QED  BY <1>3, <2>1
<1>6. Within(pp.tables, 1 .. pp.pages)
  <2> SUFFICES ASSUME NEW i \in DOMAIN pp.tables
               PROVE  pp.tables[i].page \in 1 .. pp.pages
    BY DEF Within
  <2>1. pp.tables[i] \in PT
    BY <1>1, MemberIs
  <2> QED  BY <1>3, <2>1
<1> QED  BY <1>1, <1>4, <1>5, <1>6 DEF GoodPaper

\* A line's text.
LEMMA LineTextIs ==
  ASSUME NEW l \in PaperLines, NEW ends \in BOOLEAN
  PROVE  <<Passage(l.of, Look[l.of].len, ends)>> \in Texts(Names)
<1>1. l.of \in Names
  BY DEF PaperLines
<1>2. Look[l.of].len \in Nat \ {0}
  BY <1>1, LookIs
<1>3. <<Passage(l.of, Look[l.of].len, ends)>> \in Full(Names)
  BY <1>1, <1>2, PassageIs
<1> QED  BY <1>3 DEF Full

\* The text of a page.
LEMMA PageTextIs ==
  ASSUME NEW pp, GoodPaper(pp), NEW page
  PROVE  PageText(pp, page) \in Texts(Names)
<1> DEFINE I == {i \in DOMAIN pp.lines : pp.lines[i].page = page}
           K == Kept(pp.lines, I)
           row(l) == <<Passage(l.of, Look[l.of].len, Look[l.of].stop)>>
           made == [i \in DOMAIN K |-> row(K[i])]
<1>1. PageText(pp, page) = JoinAll(made, 1)
  BY DEF PageText, Select
<1>2. I \in SUBSET DOMAIN pp.lines /\ pp.lines \in Seq(PaperLines)
  BY DEF GoodPaper
<1> HIDE DEF I
<1>3. K \in Seq(PaperLines)
  BY <1>2, KeptIs
<1> HIDE DEF K
<1>4. ASSUME NEW i \in DOMAIN K
      PROVE  row(K[i]) \in Texts(Names)
  <2>1. PICK l \in PaperLines : l = K[i]
    BY <1>3, MemberIs
  <2>2. l.of \in Names
    BY DEF PaperLines
  <2>3. Look[l.of].stop \in BOOLEAN
    BY <2>2, LookIs
  <2> QED  BY <2>1, <2>3, LineTextIs
<1> HIDE DEF row
<1>5. made \in [DOMAIN K -> Texts(Names)]
  BY <1>4
<1> HIDE DEF made
<1>6. made \in Seq(Texts(Names))
  BY <1>3, <1>5, EachIs
<1> QED  BY <1>1, <1>6, JoinAllIs

\* The heading over a page is one of its lines or of an earlier page.
LEMMA PageSectionIs ==
  ASSUME NEW pp, GoodPaper(pp), NEW page
  PROVE  PageSection(pp, page) \in Names \cup {""}
<1> DEFINE like(l) == /\ l.page <= page /\ Look[l.of].fits /\ ~Look[l.of].ends
                      /\ Look[l.of].number > 0 \/ Look[l.of].upper \/ Look[l.of].titled
           I == {i \in 1 .. Len(pp.lines) : like(pp.lines[i])}
           last == IF I # {} THEN Max(I) ELSE 0
           J == {i \in 1 .. Len(pp.lines) : like(pp.lines[i]) /\ pp.lines[i].page = pp.lines[last].page}
           i == IF J # {} THEN Min(J) ELSE 0
<1>1. PageSection(pp, page) = IF last = 0 THEN "" ELSE pp.lines[i].of
  BY DEF PageSection, SelectInSeq, SelectLastInSeq
<1>2. pp.lines \in Seq(PaperLines) /\ Len(pp.lines) \in Nat /\ DOMAIN pp.lines = 1 .. Len(pp.lines)
  BY DEF GoodPaper
<1>3. IsFiniteSet(1 .. Len(pp.lines)) /\ 1 .. Len(pp.lines) \subseteq Int
  BY <1>2, FS_Interval
<1>4. /\ I \subseteq 1 .. Len(pp.lines) /\ J \subseteq 1 .. Len(pp.lines)
      /\ \A j \in I : pp.lines[j].page = pp.lines[last].page => j \in J
  OBVIOUS
<1> HIDE DEF I, J
<1>5. I \in SUBSET Int /\ J \in SUBSET Int /\ IsFiniteSet(I) /\ IsFiniteSet(J)
  BY <1>3, <1>4, FS_Subset
<1>6. CASE last = 0
  BY <1>1, <1>6
<1>7. CASE last # 0
  <2>1. last = Max(I) /\ I # {}
    BY <1>7
  <2>2. last \in I
    BY <1>5, <2>1, MaxIsThere
  <2>3. last \in J
    BY <1>4, <2>2
  <2>4. i = Min(J)
    BY <2>3
  <2>5. Min(J) \in J
    <3>1. J # {}
      BY <2>3
    <3>2. 1 .. Len(pp.lines) \subseteq Nat
      BY <1>2
    <3>3. J \in SUBSET Nat
      BY <1>4, <3>2
    <3> QED  BY <3>1, <3>3, MinIsThere
  <2>6. i \in DOMAIN pp.lines
    BY <1>2, <1>4, <2>4, <2>5
  <2> HIDE DEF i, last
  <2>7. PICK l \in PaperLines : l = pp.lines[i]
    BY <1>2, <2>6, MemberIs
  <2>8. l.of \in Names
    BY DEF PaperLines
  <2> QED  BY <1>1, <1>7, <2>7, <2>8
<1> QED  BY <1>6, <1>7

\* Texts of a page make chunks on it.
LEMMA PageRowsIs ==
  ASSUME NEW ts \in Seq(Texts(Names)), NEW P \in SUBSET Nat, NEW p \in P, NEW h \in Headings, NEW k \in ContentTypes
  PROVE  [i \in DOMAIN ts |-> Chunk(ts[i], p, k, h, <<h>>, "other")] \in Seq(Made(P))
<1> DEFINE made == [i \in DOMAIN ts |-> Chunk(ts[i], p, k, h, <<h>>, "other")]
<1>1. ASSUME NEW i \in DOMAIN ts
      PROVE  Chunk(ts[i], p, k, h, <<h>>, "other") \in Made(P)
  <2>1. PICK t \in Texts(Names) : t = ts[i]
    BY MemberIs
  <2>2. Chunk(t, p, k, h, <<h>>, "other") \in Made(P)
    BY KindsAre, ChunkOn
  <2> QED  BY <2>1, <2>2
<1>2. made \in [DOMAIN ts -> Made(P)]
  BY <1>1
<1> HIDE DEF made
<1>3. made \in Seq(Made(P))
  BY <1>2, EachIs
<1> QED  BY <1>3 DEF made

\* Page by page, chunks on the page.
LEMMA LegacyPageChunksIs ==
  ASSUME NEW pp, GoodPaper(pp), NEW bad
  PROVE  LegacyPageChunks(pp, bad) \in Seq(Made(0 .. pp.pages))
<1> DEFINE Q == 0 .. pp.pages
           header == <<[Passage("header", HEADER_CHARS, FALSE) EXCEPT !.gap = 2]>>
           made(ts, page, section, type) == [i \in DOMAIN ts |-> Chunk(ts[i], page, type, section, <<section>>, "other")]
           texts(text) == IF TextLen(text) < MIN_CHUNK_CHARS THEN <<>> ELSE SplitText(<<header, text>>)
           found(page) == Kept(pp.tables, {i \in DOMAIN pp.tables :
                            pp.tables[i].page = page /\ page \notin bad /\ pp.tables[i].len >= MIN_CHUNK_CHARS})
           tabled(page) == [i \in DOMAIN found(page) |-> <<Passage(found(page)[i].of, found(page)[i].len, TRUE)>>]
           captions(page) == Kept(pp.lines, {i \in DOMAIN pp.lines : pp.lines[i].page = page /\ Look[pp.lines[i].of].caption = "figure"})
           captioned(page) == [i \in DOMAIN captions(page) |-> <<Passage(captions(page)[i].of, Look[captions(page)[i].of].len, TRUE)>>]
           figured(page) == IF page \notin pp.images THEN <<>> ELSE IF captions(page) = <<>> THEN <<header>> ELSE captioned(page)
           all(page) == made(texts(PageText(pp, page)), page, PageSection(pp, page), "page_text")
                          \o made(tabled(page), page, PageSection(pp, page), "table")
                          \o made(figured(page), page, PageSection(pp, page), "figure")
           each == [page \in 1 .. pp.pages |-> all(page)]
<1>1. LegacyPageChunks(pp, bad) = FlattenSeq(each)
  BY DEF LegacyPageChunks, Select
<1>2. header \in Texts(Names)
  <2>1. "header" \in Names /\ FALSE \in BOOLEAN
    BY ChunkingAssumption DEF Names
  <2>2. PICK p \in Passages(Names) : p = Passage("header", HEADER_CHARS, FALSE)
    BY <2>1, ChunkSizes, PassageIs
  <2>3. [p EXCEPT !.gap = 2] \in Passages(Names)
    BY DEF Passages
  <2>4. PICK q \in Passages(Names) : q = [p EXCEPT !.gap = 2]
    BY <2>3
  <2>5. <<q>> \in Seq(Passages(Names))
    BY SingleIs
  <2> QED  BY <2>2, <2>4, <2>5 DEF Texts
<1> HIDE DEF header
<1>3. ASSUME NEW t \in Texts(Names)
      PROVE  texts(t) \in Seq(Texts(Names))
  <2>1. <<header, t>> \in Seq(Texts(Names)) /\ <<>> \in Seq(Texts(Names))
    BY <1>2, PairIs, EmptyIs
  <2>2. SplitText(<<header, t>>) \in Seq(Texts(Names))
    BY <2>1, SplitTextIs
  <2> QED  BY <2>1, <2>2
<1>4. ASSUME NEW page
      PROVE  tabled(page) \in Seq(Texts(Names))
  <2> DEFINE I == {i \in DOMAIN pp.tables : pp.tables[i].page = page /\ page \notin bad /\ pp.tables[i].len >= MIN_CHUNK_CHARS}
             K == Kept(pp.tables, I)
             row == [i \in DOMAIN K |-> <<Passage(K[i].of, K[i].len, TRUE)>>]
  <2>1. tabled(page) = row
    OBVIOUS
  <2>2. I \in SUBSET DOMAIN pp.tables /\ pp.tables \in Seq(PaperTables)
    BY DEF GoodPaper
  <2> HIDE DEF I, tabled, found
  <2>3. K \in Seq(PaperTables)
    BY <2>2, KeptIs
  <2> HIDE DEF K
  <2>4. ASSUME NEW i \in DOMAIN K
        PROVE  <<Passage(K[i].of, K[i].len, TRUE)>> \in Texts(Names)
    <3>1. PICK t \in PaperTables : t = K[i]
      BY <2>3, MemberIs
    <3>2. t.of \in Names /\ t.len \in Nat \ {0} /\ TRUE \in BOOLEAN
      BY DEF PaperTables
    <3>3. <<Passage(t.of, t.len, TRUE)>> \in Texts(Names)
      BY <3>2, PassageIs DEF Full
    <3> QED  BY <3>1, <3>3
  <2>5. row \in [DOMAIN K -> Texts(Names)]
    BY <2>4
  <2> HIDE DEF row
  <2> QED  BY <2>1, <2>3, <2>5, EachIs
<1>5. ASSUME NEW page
      PROVE  figured(page) \in Seq(Texts(Names))
  <2> DEFINE I == {i \in DOMAIN pp.lines : pp.lines[i].page = page /\ Look[pp.lines[i].of].caption = "figure"}
             K == Kept(pp.lines, I)
             row == [i \in DOMAIN K |-> <<Passage(K[i].of, Look[K[i].of].len, TRUE)>>]
  <2>1. captioned(page) = row
    OBVIOUS
  <2>2. I \in SUBSET DOMAIN pp.lines /\ pp.lines \in Seq(PaperLines)
    BY DEF GoodPaper
  <2> HIDE DEF I, captioned, captions
  <2>3. K \in Seq(PaperLines)
    BY <2>2, KeptIs
  <2> HIDE DEF K
  <2>4. ASSUME NEW i \in DOMAIN K
        PROVE  <<Passage(K[i].of, Look[K[i].of].len, TRUE)>> \in Texts(Names)
    <3>1. PICK l \in PaperLines : l = K[i]
      BY <2>3, MemberIs
    <3>2. TRUE \in BOOLEAN
      OBVIOUS
    <3>3. <<Passage(l.of, Look[l.of].len, TRUE)>> \in Texts(Names)
      BY <3>2, LineTextIs
    <3> QED  BY <3>1, <3>3
  <2>5. row \in [DOMAIN K -> Texts(Names)]
    BY <2>4
  <2> HIDE DEF row
  <2>6. captioned(page) \in Seq(Texts(Names))
    BY <2>1, <2>3, <2>5, EachIs
  <2>7. <<>> \in Seq(Texts(Names)) /\ <<header>> \in Seq(Texts(Names))
    BY <1>2, EmptyIs, SingleIs
  <2> QED  BY <2>6, <2>7
<1> HIDE DEF tabled, figured, texts, found, captions, captioned
<1>6. Q \in SUBSET Nat /\ 1 .. pp.pages \subseteq Q /\ pp.pages \in Nat
  BY DEF GoodPaper
<1> HIDE DEF Q
<1>7. ASSUME NEW page \in 1 .. pp.pages
      PROVE  all(page) \in Seq(Made(Q))
  <2>1. PICK h \in Headings : h = PageSection(pp, page)
    <3>1. PageSection(pp, page) \in Names \cup {""}
      BY PageSectionIs
    <3> QED  BY <3>1, KindsAre
  <2>2. PICK t \in Texts(Names) : t = PageText(pp, page)
    BY PageTextIs
  <2>3. page \in Q
    BY <1>6
  <2>4. PICK a \in Seq(Texts(Names)), b \in Seq(Texts(Names)), c \in Seq(Texts(Names)) :
          a = texts(t) /\ b = tabled(page) /\ c = figured(page)
    BY <1>3, <1>4, <1>5
  <2>5. PICK x \in Seq(Made(Q)) : x = made(a, page, h, "page_text")
    BY <1>6, <2>3, KindsAre, PageRowsIs
  <2>6. PICK y \in Seq(Made(Q)) : y = made(b, page, h, "table")
    BY <1>6, <2>3, KindsAre, PageRowsIs
  <2>7. PICK z \in Seq(Made(Q)) : z = made(c, page, h, "figure")
    BY <1>6, <2>3, KindsAre, PageRowsIs
  <2> HIDE DEF made
  <2>8. all(page) = x \o y \o z
    BY <2>1, <2>2, <2>4, <2>5, <2>6, <2>7
  <2>9. x \o y \o z \in Seq(Made(Q))
    OBVIOUS
  <2> QED  BY <2>8, <2>9
<1> HIDE DEF all
<1>8. each \in [1 .. pp.pages -> Seq(Made(Q))]
  BY <1>7
<1> HIDE DEF each
<1>9. each \in Seq(Seq(Made(Q)))
  BY <1>6, <1>8, FunctionIsSeq
<1>10. FlattenSeq(each) \in Seq(Made(Q))
  BY <1>9, FlattenIs
<1> QED  BY <1>1, <1>10 DEF Q

\* The chunks of a paper span pages of it, however they were made.
LEMMA DocumentChunksIs ==
  ASSUME NEW pp, GoodPaper(pp), NEW built \in Seq(Made(0 .. pp.pages)), NEW bad
  PROVE  DocumentChunks(pp, built, bad) \in Seq(Made(0 .. pp.pages))
<1> DEFINE I == {i \in DOMAIN built : built[i].contentType = "reference"}
<1>1. I \in SUBSET DOMAIN built
  OBVIOUS
<1> HIDE DEF I
<1>2. PICK a \in Seq(Made(0 .. pp.pages)) : a = Kept(built, I)
  BY <1>1, KeptIs
<1>3. PICK b \in Seq(Made(0 .. pp.pages)) : b = LegacyPageChunks(pp, bad)
  BY LegacyPageChunksIs
<1>4. DocumentChunks(pp, built, bad) = IF UsesPages(built) THEN b \o a ELSE built
  BY <1>2, <1>3 DEF DocumentChunks, Select, I
<1>5. b \o a \in Seq(Made(0 .. pp.pages))
  OBVIOUS
<1> QED  BY <1>4, <1>5

-----------------------------------------------------------------------------
(* Rows                                                                     *)

Labels == Names \cup Sayings \cup {NoLine}
Ids    == Nat \X Nat
Rows   == [id : Ids, text : Texts(Labels), page : Nat, first : Nat, last : Nat, contentType : ContentTypes,
           section : Headings, path : Seq(Headings), type : Types]

\* The row of a chunk has what the chunk has.
LEMMA WithIdIs ==
  ASSUME NEW x \in Ids, NEW c \in Chunks(Labels)
  PROVE  /\ WithId(x, c) \in Rows /\ WithId(x, c).id = x
         /\ WithId(x, c).first = c.first /\ WithId(x, c).last = c.last
  BY DEF WithId, Chunks, Rows

\* Chunks of the paper are about lines of the paper.
LEMMA ChunksGrow == Chunks(Names) \subseteq Chunks(Labels)
<1>1. Names \subseteq Labels
  BY DEF Labels
<1>2. Texts(Names) \subseteq Texts(Labels)
  BY <1>1, TextsGrow
<1> QED  BY <1>2 DEF Chunks

\* The rows of chunks, numbered.
LEMMA NumberedIs ==
  ASSUME NEW Q, NEW cs \in Seq(Made(Q)), NEW n \in Nat
  PROVE  LET rows == [i \in DOMAIN cs |-> WithId(<<n, i>>, cs[i])]
         IN  /\ rows \in Seq(Rows) /\ DOMAIN rows = DOMAIN cs
             /\ \A i \in DOMAIN rows : rows[i].id = <<n, i>> /\ Spans(rows[i], Q)
<1> DEFINE rows == [i \in DOMAIN cs |-> WithId(<<n, i>>, cs[i])]
<1>1. ASSUME NEW i \in DOMAIN cs
      PROVE  /\ WithId(<<n, i>>, cs[i]) \in Rows
             /\ WithId(<<n, i>>, cs[i]).id = <<n, i>> /\ Spans(WithId(<<n, i>>, cs[i]), Q)
  <2>1. PICK c \in Chunks(Labels) : c = cs[i] /\ Spans(c, Q)
    <3>1. cs[i] \in Made(Q)
      BY MemberIs
    <3> QED  BY <3>1, ChunksGrow DEF Made
  <2>2. <<n, i>> \in Ids
    <3>1. i \in Nat
      OBVIOUS
    <3> QED  BY <3>1 DEF Ids
  <2>3. /\ WithId(<<n, i>>, c) \in Rows /\ WithId(<<n, i>>, c).id = <<n, i>>
        /\ WithId(<<n, i>>, c).first = c.first /\ WithId(<<n, i>>, c).last = c.last
    BY <2>2, WithIdIs
  <2> QED  BY <2>1, <2>3 DEF Spans
<1>2. rows \in [DOMAIN cs -> Rows]
  BY <1>1
<1>3. \A i \in DOMAIN rows : rows[i].id = <<n, i>> /\ Spans(rows[i], Q)
  BY <1>1
<1> HIDE DEF rows
<1>4. rows \in Seq(Rows) /\ DOMAIN rows = DOMAIN cs
  BY <1>2, EachIs
<1> QED  BY <1>3, <1>4 DEF rows

-----------------------------------------------------------------------------
(* The ids of stored rows                                                   *)

\* c is r but for the id.
Same(c, r) == c.text = r.text /\ c.path = r.path /\ c.first = r.first /\ c.last = r.last

\* A chunk keeps its id, or takes one of a stored row of its content that no
\* chunk before it has.
LEMMA PutAdoptedIs ==
  ASSUME NEW acc \in Seq(Rows), NEW c \in Rows, NEW old \in Seq(Rows)
  PROVE  \E r \in Rows :
           /\ PutAdopted(acc, c, old) = Append(acc, r) /\ Append(acc, r) \in Seq(Rows)
           /\ Same(r, c)
           /\ \/ r.id = c.id
              \/ \E o \in ToSet(old) : r.id = o.id /\ Content(r) = Content(o) /\ \A i \in DOMAIN acc : acc[i].id # r.id
<1> DEFINE F == {k \in 1 .. Len(old) : Content(old[k]) = Content(c) /\ \A a \in ToSet(acc) : a.id # old[k].id}
           free == IF F # {} THEN Min(F) ELSE 0
<1>1. PutAdopted(acc, c, old) = Append(acc, IF free = 0 THEN c ELSE [c EXCEPT !.id = old[free].id])
  BY DEF PutAdopted, SelectInSeq
<1>2. CASE free = 0
  <2>1. PutAdopted(acc, c, old) = Append(acc, c) /\ Append(acc, c) \in Seq(Rows)
    BY <1>1, <1>2
  <2> QED  BY <2>1 DEF Same
<1>3. CASE free # 0
  <2>1. F # {} /\ free = Min(F)
    BY <1>3
  <2>2. F \in SUBSET Nat
    <3>1. Len(old) \in Nat
      OBVIOUS
    <3> QED  BY <3>1
  <2>3. free \in F
    <3> HIDE DEF F
    <3>1. Min(F) \in F
      BY <2>1, <2>2, MinIsThere
    <3> QED  BY <2>1, <3>1
  <2> HIDE DEF free
  <2>4. PICK o \in Rows : o = old[free] /\ o \in ToSet(old) /\ Content(o) = Content(c) /\ \A a \in ToSet(acc) : a.id # o.id
    <3>1. free \in DOMAIN old
      BY <2>3
    <3>2. old[free] \in Rows /\ old[free] \in ToSet(old)
      BY <3>1, MemberIs DEF ToSet
    <3> QED  BY <2>3, <3>2
  <2>5. o.id \in Ids
    BY DEF Rows
  <2>6. PICK r \in Rows : r = [c EXCEPT !.id = o.id] /\ r.id = o.id /\ Same(r, c)
    <3>1. [c EXCEPT !.id = o.id] \in Rows
      BY <2>5 DEF Rows
    <3>2. /\ [c EXCEPT !.id = o.id].id = o.id
          /\ [c EXCEPT !.id = o.id].text = c.text /\ [c EXCEPT !.id = o.id].path = c.path
          /\ [c EXCEPT !.id = o.id].first = c.first /\ [c EXCEPT !.id = o.id].last = c.last
      BY DEF Rows
    <3> QED  BY <3>1, <3>2 DEF Same
  <2>7. PutAdopted(acc, c, old) = Append(acc, r) /\ Append(acc, r) \in Seq(Rows)
    BY <1>1, <1>3, <2>4, <2>6
  <2>8. Content(r) = Content(o)
    BY <2>4, <2>6 DEF Content, Same
  <2>9. \A i \in DOMAIN acc : acc[i].id # r.id
    BY <2>4, <2>6 DEF ToSet
  <2> QED  BY <2>4, <2>6, <2>7, <2>8, <2>9
<1> QED  BY <1>2, <1>3

\* What is adopted so far are rows.
LEMMA PutAdoptedStays ==
  ASSUME NEW acc \in Seq(Rows), NEW c \in Rows, NEW old \in Seq(Rows)
  PROVE  PutAdopted(acc, c, old) \in Seq(Rows)
<1>1. PICK r \in Rows : PutAdopted(acc, c, old) = Append(acc, r) /\ Append(acc, r) \in Seq(Rows)
  BY PutAdoptedIs
<1> QED  BY <1>1

\* Ids are adopted chunk by chunk.
LEMMA AdoptLoop ==
  ASSUME NEW new \in Seq(Rows), NEW old \in Seq(Rows)
  PROVE  \E f \in [0 .. Len(new) -> Seq(Rows)] :
           /\ f[0] = <<>>
           /\ \A k \in 1 .. Len(new) : f[k] = PutAdopted(f[k - 1], new[k], old)
           /\ AdoptIds(new, old) = f[Len(new)]
<1> DEFINE n == Len(new)
           D == Seq(Rows)
           Def(f) == f = [k \in 0 .. n |-> IF k = 0 THEN <<>> ELSE PutAdopted(f[k - 1], new[k], old)]
           upto == CHOOSE f : Def(f)
           step == [k \in 1 .. n |-> [a \in D |-> PutAdopted(a, new[k], old)]]
<1>1. n \in Nat /\ <<>> \in D /\ \A k \in 1 .. n : new[k] \in Rows
  BY EmptyIs, MemberIs
<1>2. \A k \in 1 .. n : \A a \in D : PutAdopted(a, new[k], old) \in D
  BY <1>1, PutAdoptedStays
<1>3. /\ step \in [1 .. n -> [D -> D]]
      /\ \A k \in 1 .. n : \A a \in D : step[k][a] = PutAdopted(a, new[k], old)
  <2> HIDE DEF D
  <2> QED  BY <1>2
<1> HIDE DEF step, n, D
<1>4. PICK g : Loop(g, D, n, <<>>, step)
  BY <1>1, <1>3, LoopExists
<1>5. \A k \in 0 .. n : g[k] = IF k = 0 THEN <<>> ELSE PutAdopted(g[k - 1], new[k], old)
  BY <1>3, <1>4 DEF Loop
<1>6. Def(g)
  BY <1>4, <1>5 DEF Loop
<1>7. Def(upto)
  BY <1>6
<1>8. AdoptIds(new, old) = upto[n]
  BY DEF AdoptIds, Folded, n
<1> HIDE DEF upto
<1>9. upto[0] = <<>> /\ \A k \in 1 .. n : upto[k] = PutAdopted(upto[k - 1], new[k], old)
  BY <1>1, <1>7
<1>10. upto \in [0 .. n -> D]
  <2>1. upto = [k \in 0 .. n |-> upto[k]]
    BY <1>7
  <2>2. \A k \in 1 .. n : upto[k - 1] \in D => upto[k] \in D
    BY <1>2, <1>9
  <2> HIDE DEF Def
  <2> QED  BY <1>1, <1>9, <2>1, <2>2, LoopStays
<1> QED  BY <1>8, <1>9, <1>10 DEF n, D

\* The first k chunks with their ids: still of what they were, with ids of
\* their own or of stored rows of their content, no two with the same.
Adopted(acc, new, k, old) ==
  /\ Len(acc) = k
  /\ \A i \in 1 .. k : Same(acc[i], new[i])
  /\ \A i \in 1 .. k : acc[i].id = new[i].id \/ \E o \in ToSet(old) : acc[i].id = o.id /\ Content(acc[i]) = Content(o)
  /\ \A i \in 1 .. k : \A j \in 1 .. i - 1 : acc[j].id # acc[i].id

\* One more chunk keeps its id or adopts one.
LEMMA AdoptedGrows ==
  ASSUME NEW new \in Seq(Rows), NEW old \in Seq(Rows), NEW n \in Nat, \A i \in DOMAIN new : new[i].id = <<n, i>>,
         \A o \in ToSet(old) : o.id[1] # n, NEW k \in 1 .. Len(new), NEW acc \in Seq(Rows), Adopted(acc, new, k - 1, old)
  PROVE  Adopted(PutAdopted(acc, new[k], old), new, k, old)
<1>1. k \in DOMAIN new /\ k \in Nat
  OBVIOUS
<1>2. PICK c \in Rows : c = new[k] /\ c.id = <<n, k>>
  BY <1>1, MemberIs
<1>3. PICK r \in Rows :
        /\ PutAdopted(acc, c, old) = Append(acc, r) /\ Append(acc, r) \in Seq(Rows)
        /\ Same(r, c)
        /\ \/ r.id = c.id
           \/ \E o \in ToSet(old) : r.id = o.id /\ Content(r) = Content(o) /\ \A i \in DOMAIN acc : acc[i].id # r.id
  BY PutAdoptedIs
<1>4. PICK s \in Seq(Rows) : s = Append(acc, r)
  BY <1>3
<1>5. /\ Len(acc) = k - 1 /\ DOMAIN acc = 1 .. k - 1
  BY DEF Adopted
<1>6. /\ Len(s) = k /\ s[k] = r /\ \A i \in 1 .. k - 1 : s[i] = acc[i]
  BY <1>1, <1>4, <1>5
<1>7. \A i \in 1 .. k : i = k \/ i \in 1 .. k - 1
  BY <1>1
<1>8. \A i \in 1 .. k - 1 : i \in DOMAIN new /\ i \in Nat /\ i # k
  BY <1>1
<1>9. \A i \in 1 .. k - 1 : acc[i].id # r.id
  <2> SUFFICES ASSUME NEW i \in 1 .. k - 1
               PROVE  acc[i].id # r.id
    OBVIOUS
  <2>1. CASE r.id = c.id
    <3>1. r.id = <<n, k>>
      BY <1>2, <2>1
    <3>2. CASE acc[i].id = new[i].id
      <4>1. acc[i].id = <<n, i>> /\ i # k
        BY <1>8, <3>2
      <4> QED  BY <3>1, <4>1
    <3>3. CASE \E o \in ToSet(old) : acc[i].id = o.id
      <4>1. acc[i].id[1] # n
        BY <3>3
      <4> QED  BY <3>1, <4>1
    <3> QED  BY <3>2, <3>3 DEF Adopted
  <2>2. CASE r.id # c.id
    BY <1>3, <1>5, <2>2
  <2> QED  BY <2>1, <2>2
<1>10. \A i \in 1 .. k : Same(s[i], new[i])
  BY <1>2, <1>3, <1>6, <1>7 DEF Adopted
<1>11. \A i \in 1 .. k : s[i].id = new[i].id \/ \E o \in ToSet(old) : s[i].id = o.id /\ Content(s[i]) = Content(o)
  <2> SUFFICES ASSUME NEW i \in 1 .. k
               PROVE  s[i].id = new[i].id \/ \E o \in ToSet(old) : s[i].id = o.id /\ Content(s[i]) = Content(o)
    OBVIOUS
  <2>1. CASE i = k
    <3>1. s[i] = r /\ new[i] = c
      BY <1>2, <1>6, <2>1
    <3>2. r.id = c.id \/ \E o \in ToSet(old) : r.id = o.id /\ Content(r) = Content(o)
      BY <1>3
    <3> QED  BY <3>1, <3>2
  <2>2. CASE i \in 1 .. k - 1
    <3>1. acc[i].id = new[i].id \/ \E o \in ToSet(old) : acc[i].id = o.id /\ Content(acc[i]) = Content(o)
      BY <2>2 DEF Adopted
    <3>2. s[i] = acc[i]
      BY <1>6, <2>2
    <3> QED  BY <3>1, <3>2
  <2> QED  BY <1>7, <2>1, <2>2
<1>12. \A i \in 1 .. k : \A j \in 1 .. i - 1 : s[j].id # s[i].id
  <2> SUFFICES ASSUME NEW i \in 1 .. k, NEW j \in 1 .. i - 1
               PROVE  s[j].id # s[i].id
    OBVIOUS
  <2>1. j \in 1 .. k - 1
    BY <1>1
  <2>2. CASE i = k
    BY <1>6, <1>9, <2>1, <2>2
  <2>3. CASE i \in 1 .. k - 1
    BY <1>6, <2>1, <2>3 DEF Adopted
  <2> QED  BY <1>7, <2>2, <2>3
<1>13. Adopted(s, new, k, old)
  BY <1>6, <1>10, <1>11, <1>12 DEF Adopted
<1> QED  BY <1>2, <1>3, <1>4, <1>13

\* After the ids are adopted.
LEMMA AdoptIdsIs ==
  ASSUME NEW new \in Seq(Rows), NEW old \in Seq(Rows), NEW n \in Nat, \A i \in DOMAIN new : new[i].id = <<n, i>>,
         \A o \in ToSet(old) : o.id[1] # n
  PROVE  AdoptIds(new, old) \in Seq(Rows) /\ Adopted(AdoptIds(new, old), new, Len(new), old)
<1> DEFINE m == Len(new)
           Good == [k \in 0 .. m |-> {a \in Seq(Rows) : Adopted(a, new, k, old)}]
<1>1. m \in Nat
  OBVIOUS
<1>2. PICK f \in [0 .. m -> Seq(Rows)] :
        /\ f[0] = <<>>
        /\ \A k \in 1 .. m : f[k] = PutAdopted(f[k - 1], new[k], old)
        /\ AdoptIds(new, old) = f[m]
  BY AdoptLoop
<1>3. f[0] \in Good[0]
  <2>1. Adopted(<<>>, new, 0, old)
    BY DEF Adopted
  <2>2. <<>> \in Seq(Rows) /\ 0 \in 0 .. m
    BY <1>1, EmptyIs, IndexBefore
  <2> QED  BY <1>2, <2>1, <2>2
<1>4. ASSUME NEW k \in 1 .. m, f[k - 1] \in Good[k - 1]
      PROVE  f[k] \in Good[k]
  <2>1. k - 1 \in 0 .. m /\ k \in 0 .. m
    BY <1>1, IndexBefore
  <2>2. PICK a \in Seq(Rows) : a = f[k - 1] /\ Adopted(a, new, k - 1, old)
    BY <1>4, <2>1
  <2>3. Adopted(PutAdopted(a, new[k], old), new, k, old)
    BY <2>2, AdoptedGrows
  <2>4. f[k] \in Seq(Rows) /\ f[k] = PutAdopted(a, new[k], old)
    BY <1>2, <2>1, <2>2
  <2> QED  BY <2>1, <2>3, <2>4
<1> HIDE DEF Good, m
<1>5. \A k \in 0 .. m : f[k] \in Good[k]
  BY <1>1, <1>3, <1>4, LoopKeeps
<1>6. f[m] \in Good[m] /\ m \in 0 .. m
  BY <1>1, <1>5, IndexBefore
<1>7. f[m] \in Seq(Rows) /\ Adopted(f[m], new, m, old)
  BY <1>6 DEF Good
<1> QED  BY <1>2, <1>7 DEF m

-----------------------------------------------------------------------------
(* The research card                                                        *)

Picking(cs) == [taken : Seq(DOMAIN cs), full : BOOLEAN]

\* A chunk is taken or passed over.
LEMMA TakeChunkIs ==
  ASSUME NEW cs, NEW stop \in BOOLEAN, NEW acc \in Picking(cs), NEW i \in DOMAIN cs
  PROVE  TakeChunk(cs, stop, acc, i) \in Picking(cs)
<1> DEFINE used == Total([k \in DOMAIN acc.taken |-> ContentLen(cs[acc.taken[k]])])
           a == [acc EXCEPT !.full = stop]
           b == [acc EXCEPT !.taken = Append(@, i)]
<1>1. acc.taken \in Seq(DOMAIN cs) /\ acc.full \in BOOLEAN
  BY DEF Picking
<1>2. Append(acc.taken, i) \in Seq(DOMAIN cs)
  BY <1>1
<1>3. a \in Picking(cs)
  BY DEF Picking
<1>4. b \in Picking(cs)
  BY <1>2 DEF Picking
<1>5. TakeChunk(cs, stop, acc, i) = IF acc.full \/ i \in ToSet(acc.taken) THEN acc
                                    ELSE IF used + ContentLen(cs[i]) > PROFILE_CONTEXT_CHARS THEN a ELSE b
  BY DEF TakeChunk
<1> HIDE DEF a, b, used
<1> QED  BY <1>3, <1>4, <1>5

\* What is taken are positions of the chunks.
LEMMA WithinBudgetIs ==
  ASSUME NEW cs, NEW stop \in BOOLEAN, NEW taken \in Seq(DOMAIN cs), NEW wanted \in Seq(DOMAIN cs)
  PROVE  WithinBudget(cs, wanted, taken, stop) \in Seq(DOMAIN cs)
<1>0. PICK start \in Picking(cs) : start = [taken |-> taken, full |-> FALSE]
  <2>1. [taken |-> taken, full |-> FALSE] \in Picking(cs)
    BY DEF Picking
  <2> QED  BY <2>1
<1> DEFINE n == Len(wanted)
           D == Picking(cs)
           Def(f) == f = [k \in 0 .. n |-> IF k = 0 THEN start ELSE TakeChunk(cs, stop, f[k - 1], wanted[k])]
           upto == CHOOSE f : Def(f)
           step == [k \in 1 .. n |-> [a \in D |-> TakeChunk(cs, stop, a, wanted[k])]]
<1>1. n \in Nat /\ start \in D /\ \A k \in 1 .. n : wanted[k] \in DOMAIN cs
  BY MemberIs
<1>2. \A k \in 1 .. n : \A a \in D : TakeChunk(cs, stop, a, wanted[k]) \in D
  BY <1>1, TakeChunkIs
<1>3. /\ step \in [1 .. n -> [D -> D]]
      /\ \A k \in 1 .. n : \A a \in D : step[k][a] = TakeChunk(cs, stop, a, wanted[k])
  <2> HIDE DEF D
  <2> QED  BY <1>2
<1> HIDE DEF step, n, D
<1>4. PICK g : Loop(g, D, n, start, step)
  BY <1>1, <1>3, LoopExists
<1>5. \A k \in 0 .. n : g[k] = IF k = 0 THEN start ELSE TakeChunk(cs, stop, g[k - 1], wanted[k])
  BY <1>3, <1>4 DEF Loop
<1>6. Def(g)
  <2>1. g = [k \in 0 .. n |-> g[k]]
    BY <1>4 DEF Loop
  <2> QED  BY <1>5, <2>1
<1>7. Def(upto)
  BY ONLY <1>6
<1>8. WithinBudget(cs, wanted, taken, stop) = upto[n].taken
  BY <1>0 DEF WithinBudget, Folded, n
<1> HIDE DEF upto
<1>9. upto[0] = start /\ \A k \in 1 .. n : upto[k] = TakeChunk(cs, stop, upto[k - 1], wanted[k])
  <2>1. \A k \in 0 .. n : upto[k] = IF k = 0 THEN start ELSE TakeChunk(cs, stop, upto[k - 1], wanted[k])
    BY ONLY <1>7
  <2>2. 0 \in 0 .. n /\ \A k \in 1 .. n : k \in 0 .. n /\ k # 0
    BY ONLY <1>1
  <2> QED  BY ONLY <2>1, <2>2
<1>10. upto \in [0 .. n -> D]
  <2>1. upto = [k \in 0 .. n |-> upto[k]]
    BY <1>7
  <2>2. \A k \in 1 .. n : upto[k - 1] \in D => upto[k] \in D
    BY <1>2, <1>9
  <2> HIDE DEF Def
  <2> QED  BY <1>1, <1>9, <2>1, <2>2, LoopStays
<1>11. upto[n] \in D
  BY <1>1, <1>10, IndexBefore
<1> QED  BY <1>8, <1>11 DEF D, Picking

\* Every section of the evidence has a number of chunks it may fill.
LEMMA BudgetsAre == \A k \in DOMAIN SectionBudget : SectionBudget[k][2] \in Nat
  BY DEF SectionBudget

\* The evidence is some of the chunks.
LEMMA SelectProfileEvidenceIs ==
  ASSUME NEW cs \in Seq(Rows)
  PROVE  SelectProfileEvidence(cs) \in Seq(Rows) /\ ToSet(SelectProfileEvidence(cs)) \subseteq ToSet(cs)
<1> DEFINE all == [i \in DOMAIN cs |-> i]
           typed(t) == {i \in DOMAIN all : /\ EvidenceType(cs[all[i]]) = t
                                           /\ cs[all[i]].contentType \notin {"reference", "paper_profile", "front_matter"}}
           each == [k \in DOMAIN SectionBudget |-> Top(Kept(all, typed(SectionBudget[k][1])), SectionBudget[k][2])]
           wanted == FlattenSeq(each)
           picked == WithinBudget(cs, wanted, <<>>, FALSE)
           legible == {i \in DOMAIN all : cs[all[i]].contentType # "reference"}
           rest == Kept(all, legible)
           chosen == IF Len(picked) >= 4 THEN picked ELSE WithinBudget(cs, rest, picked, TRUE)
<1>1. SelectProfileEvidence(cs) = Kept(cs, ToSet(chosen))
  BY DEF SelectProfileEvidence, Select
<1>2. all \in Seq(DOMAIN cs)
  <2>1. all \in [DOMAIN cs -> DOMAIN cs]
    OBVIOUS
  <2> HIDE DEF all
  <2> QED  BY <2>1, EachIs
<1>3. (\A t : typed(t) \in SUBSET DOMAIN all) /\ legible \in SUBSET DOMAIN all
  OBVIOUS
<1> HIDE DEF all, typed, legible
<1>4. rest \in Seq(DOMAIN cs)
  BY <1>2, <1>3, KeptIs
<1>5. wanted \in Seq(DOMAIN cs)
  <2>1. ASSUME NEW k \in DOMAIN SectionBudget
        PROVE  Top(Kept(all, typed(SectionBudget[k][1])), SectionBudget[k][2]) \in Seq(DOMAIN cs)
    <3>1. PICK I \in SUBSET DOMAIN all : I = typed(SectionBudget[k][1])
      BY <1>3
    <3>2. PICK s \in Seq(DOMAIN cs) : s = Kept(all, I)
      BY <1>2, KeptIs
    <3>3. PICK n \in Nat : n = SectionBudget[k][2]
      BY BudgetsAre
    <3>4. Top(s, n) \in Seq(DOMAIN cs)
      BY TopIs
    <3> QED  BY <3>1, <3>2, <3>3, <3>4
  <2>2. each \in [DOMAIN SectionBudget -> Seq(DOMAIN cs)]
    BY <2>1
  <2> HIDE DEF each
  <2>3. SectionBudget \in Seq({SectionBudget[k] : k \in DOMAIN SectionBudget})
    BY DEF SectionBudget
  <2> QED  BY <2>2, <2>3, FlattenEach
<1> HIDE DEF wanted, rest
<1>6. picked \in Seq(DOMAIN cs)
  BY <1>5, EmptyIs, WithinBudgetIs
<1> HIDE DEF picked
<1>7. chosen \in Seq(DOMAIN cs)
  <2>1. WithinBudget(cs, rest, picked, TRUE) \in Seq(DOMAIN cs)
    BY <1>4, <1>6, WithinBudgetIs
  <2> QED  BY <1>6, <2>1
<1> HIDE DEF chosen
<1>8. ToSet(chosen) \in SUBSET DOMAIN cs
  BY <1>7 DEF ToSet
<1> QED  BY <1>1, <1>8, KeptHas

\* A point of the card, and that it opens one of the chunks.
Points == [field : ToSet(Fields), says : Labels, quote : Labels, chunk : Ids \cup {NoChunk}, grounded : BOOLEAN]
Opens(p, cs) ==
  p.chunk # NoChunk =>
    \E c \in ToSet(cs) : /\ c.id = p.chunk
                         /\ p.grounded => (IF p.quote # NoLine THEN p.quote ELSE p.says) \in Lines(c.text)
GoodPoints(cs) == {p \in Points : Opens(p, cs)}

\* A point the model makes of some evidence opens it.
LEMMA GroundIs ==
  ASSUME NEW cs \in Seq(Rows), NEW pack \in Seq(Rows), ToSet(pack) \subseteq ToSet(cs), NEW point,
         point.field \in ToSet(Fields), point.says \in Labels, point.quote \in Labels
  PROVE  Ground(point, pack) \in GoodPoints(cs)
<1> DEFINE block == pack[point.number]
           holds(l) == l \in Lines(block.text)
           told == IF point.quote # NoLine THEN point.quote ELSE point.says
           tied(q, x, ends) == [field |-> point.field, says |-> point.says, quote |-> q, chunk |-> x, grounded |-> ends]
<1>1. Ground(point, pack) =
        IF point.number \notin DOMAIN pack THEN tied(point.quote, NoChunk, FALSE)
        ELSE IF point.quote # NoLine /\ ~holds(point.quote) /\ holds(point.says)
        THEN tied(NoLine, block.id, TRUE)
        ELSE tied(point.quote, block.id, holds(told))
  BY DEF Ground
<1>2. NoLine \in Labels
  BY DEF Labels
<1>3. CASE point.number \notin DOMAIN pack
  <2> DEFINE p == tied(point.quote, NoChunk, FALSE)
  <2>1. Ground(point, pack) = p
    BY <1>1, <1>3
  <2>2. p \in Points /\ p.chunk = NoChunk
    BY DEF Points
  <2> HIDE DEF p
  <2>3. Opens(p, cs)
    BY <2>2 DEF Opens
  <2> QED  BY <2>1, <2>2, <2>3 DEF GoodPoints
<1>4. CASE point.number \in DOMAIN pack
  <2>1. block \in Rows /\ block \in ToSet(cs)
    <3>1. block \in Rows /\ block \in ToSet(pack)
      BY <1>4, MemberIs DEF ToSet
    <3> QED  BY <3>1
  <2>2. block.id \in Ids
    BY <2>1 DEF Rows
  <2> HIDE DEF block
  <2>3. CASE point.quote # NoLine /\ ~holds(point.quote) /\ holds(point.says)
    <3> DEFINE p == tied(NoLine, block.id, TRUE)
    <3>1. Ground(point, pack) = p
      BY <1>1, <1>4, <2>3
    <3>2. p \in Points
      BY <1>2, <2>2 DEF Points
    <3>3. p.chunk = block.id /\ p.quote = NoLine /\ p.says = point.says
      OBVIOUS
    <3> HIDE DEF p
    <3>4. Opens(p, cs)
      BY <2>1, <2>3, <3>3 DEF Opens
    <3> QED  BY <3>1, <3>2, <3>4 DEF GoodPoints
  <2>4. CASE ~(point.quote # NoLine /\ ~holds(point.quote) /\ holds(point.says))
    <3>1. holds(told) \in BOOLEAN
      OBVIOUS
    <3>2. PICK ends \in BOOLEAN : ends = holds(told)
      BY <3>1
    <3> DEFINE p == tied(point.quote, block.id, ends)
    <3>3. Ground(point, pack) = p
      BY <1>1, <1>4, <2>4, <3>2
    <3>4. p \in Points
      BY <2>2 DEF Points
    <3>5. p.chunk = block.id /\ p.quote = point.quote /\ p.says = point.says /\ p.grounded = ends
      OBVIOUS
    <3> HIDE DEF p
    <3>6. p.grounded => told \in Lines(block.text)
      BY <3>2, <3>5
    <3>7. told = IF p.quote # NoLine THEN p.quote ELSE p.says
      BY <3>5
    <3> HIDE DEF told
    <3>8. Opens(p, cs)
      BY <2>1, <3>5, <3>6, <3>7 DEF Opens
    <3> QED  BY <3>3, <3>4, <3>8 DEF GoodPoints
  <2> QED  BY <2>3, <2>4
<1> QED  BY <1>3, <1>4

\* A sentence of a chunk is of lines of the chunk.
LEMMA SentenceOf ==
  ASSUME NEW c \in Rows, NEW s \in ToSet(SplitSentences(c.text))
  PROVE  s[1].of \in Lines(c.text) /\ s[1].of \in Labels
<1>1. PICK t \in Seq(Passages(Labels)) : t = c.text
  BY DEF Rows, Texts
<1>2. t \in Seq(ToSet(t))
  <2>1. \A i \in DOMAIN t : t[i] \in ToSet(t)
    BY DEF ToSet
  <2>2. t \in [DOMAIN t -> ToSet(t)] /\ DOMAIN t = 1 .. Len(t) /\ Len(t) \in Nat
    BY <2>1
  <2> QED  BY <2>2
<1>3. SplitSentences(t) \in Seq(Seq(ToSet(t)) \ {<<>>})
  BY <1>2, SentencesAre
<1>4. s \in Seq(ToSet(t)) /\ s # <<>>
  <2>1. PICK i \in DOMAIN SplitSentences(t) : s = SplitSentences(t)[i]
    BY <1>1 DEF ToSet
  <2>2. SplitSentences(t)[i] \in Seq(ToSet(t)) \ {<<>>}
    BY <1>3, MemberIs
  <2> QED  BY <2>1, <2>2
<1>5. s[1] \in ToSet(t)
  BY <1>4, FirstIs
<1>6. PICK i \in DOMAIN t : s[1] = t[i]
  BY <1>5 DEF ToSet
<1>7. t[i] \in Passages(Labels)
  BY MemberIs
<1>8. t[i].of \in Labels
  BY <1>7 DEF Passages
<1> QED  BY <1>1, <1>6, <1>8 DEF Lines

\* The cue sentences of a chunk make points that open it.
LEMMA PutCuesIs ==
  ASSUME NEW cs \in Seq(Rows), NEW items \in Seq(GoodPoints(cs)), NEW c \in ToSet(cs), NEW f \in ToSet(Fields)
  PROVE  PutCues(items, c, f) \in Seq(GoodPoints(cs))
<1> DEFINE ss == SplitSentences(c.text)
           I == {i \in DOMAIN ss : TextLen(ss[i]) \in POINT_MIN .. POINT_MAX /\ \E l \in Lines(ss[i]) : f \in Look[l].cues}
           cut == Kept(ss, I)
           n == IF c.type = HomeSection[f] THEN 3 ELSE 1
           cues == Top(cut, n)
           point(s) == [field |-> f, says |-> s[1].of, quote |-> s[1].of, chunk |-> c.id, grounded |-> TRUE]
           made == [i \in DOMAIN cues |-> point(cues[i])]
<1>1. PutCues(items, c, f) = items \/ PutCues(items, c, f) = items \o made
  BY DEF PutCues, CueLines, Each, Select
<1>2. c \in Rows
  BY MemberIs DEF ToSet
<1>3. c.text \in Seq(Passages(Labels)) /\ c.id \in Ids
  BY <1>2 DEF Rows, Texts
<1>4. ss \in Seq(ToSet(ss))
  <2>1. ss \in Seq(Seq(Passages(Labels)) \ {<<>>})
    BY <1>3, SentencesAre
  <2> HIDE DEF ss
  <2>2. \A i \in DOMAIN ss : ss[i] \in ToSet(ss)
    BY DEF ToSet
  <2>3. ss \in [DOMAIN ss -> ToSet(ss)] /\ DOMAIN ss = 1 .. Len(ss) /\ Len(ss) \in Nat
    BY <2>1, <2>2
  <2> QED  BY <2>3
<1>5. \A s \in ToSet(ss) : s[1].of \in Lines(c.text) /\ s[1].of \in Labels
  BY <1>2, SentenceOf
<1>6. I \in SUBSET DOMAIN ss
  OBVIOUS
<1> HIDE DEF ss, I
<1>7. cut \in Seq(ToSet(ss))
  BY <1>4, <1>6, KeptIs
<1> HIDE DEF cut
<1>8. n \in Nat
  OBVIOUS
<1> HIDE DEF n
<1>9. cues \in Seq(ToSet(ss))
  BY <1>7, <1>8, TopIs
<1> HIDE DEF cues
<1>10. ASSUME NEW i \in DOMAIN cues
       PROVE  point(cues[i]) \in GoodPoints(cs)
  <2>1. PICK s \in ToSet(ss) : s = cues[i]
    BY <1>9, MemberIs
  <2>2. PICK l \in Labels : l = s[1].of /\ l \in Lines(c.text)
    BY <1>5
  <2> DEFINE p == [field |-> f, says |-> l, quote |-> l, chunk |-> c.id, grounded |-> TRUE]
  <2>3. point(cues[i]) = p
    BY <2>1, <2>2
  <2>4. p \in Points
    BY <1>3 DEF Points
  <2>5. p.chunk = c.id /\ p.quote = l /\ p.says = l
    OBVIOUS
  <2> HIDE DEF p
  <2>6. Opens(p, cs)
    BY <2>2, <2>5 DEF Opens
  <2> QED  BY <2>3, <2>4, <2>6 DEF GoodPoints
<1> HIDE DEF point
<1>11. made \in [DOMAIN cues -> GoodPoints(cs)]
  BY <1>10
<1> HIDE DEF made
<1>12. made \in Seq(GoodPoints(cs))
  BY <1>9, <1>11, EachIs
<1>13. items \o made \in Seq(GoodPoints(cs))
  BY <1>12
<1> QED  BY <1>1, <1>13

\* A field is filled chunk by chunk.
LEMMA CuesLoop ==
  ASSUME NEW cs \in Seq(Rows), NEW of \in ToSet(Fields)
  PROVE  \E f \in [0 .. Len(cs) -> Seq(GoodPoints(cs))] :
           /\ f[0] = <<>>
           /\ \A k \in 1 .. Len(cs) : f[k] = PutCues(f[k - 1], cs[k], of)
           /\ Folded(LAMBDA items, c : PutCues(items, c, of), <<>>, cs) = f[Len(cs)]
<1> DEFINE n == Len(cs)
           D == Seq(GoodPoints(cs))
           Def(f) == f = [k \in 0 .. n |-> IF k = 0 THEN <<>> ELSE PutCues(f[k - 1], cs[k], of)]
           upto == CHOOSE f : Def(f)
           step == [k \in 1 .. n |-> [a \in D |-> PutCues(a, cs[k], of)]]
<1>1. n \in Nat /\ <<>> \in D /\ \A k \in 1 .. n : cs[k] \in ToSet(cs)
  BY EmptyIs DEF ToSet
<1>2. \A k \in 1 .. n : \A a \in D : PutCues(a, cs[k], of) \in D
  BY <1>1, PutCuesIs
<1>3. /\ step \in [1 .. n -> [D -> D]]
      /\ \A k \in 1 .. n : \A a \in D : step[k][a] = PutCues(a, cs[k], of)
  <2> HIDE DEF D
  <2> QED  BY <1>2
<1> HIDE DEF step, n, D
<1>4. PICK g : Loop(g, D, n, <<>>, step)
  BY <1>1, <1>3, LoopExists
<1>5. \A k \in 0 .. n : g[k] = IF k = 0 THEN <<>> ELSE PutCues(g[k - 1], cs[k], of)
  BY <1>3, <1>4 DEF Loop
<1>6. Def(g)
  BY <1>4, <1>5 DEF Loop
<1>7. Def(upto)
  BY <1>6
<1>8. Folded(LAMBDA items, c : PutCues(items, c, of), <<>>, cs) = upto[n]
  BY DEF Folded, n
<1> HIDE DEF upto
<1>9. upto[0] = <<>> /\ \A k \in 1 .. n : upto[k] = PutCues(upto[k - 1], cs[k], of)
  BY <1>1, <1>7
<1>10. upto \in [0 .. n -> D]
  <2>1. upto = [k \in 0 .. n |-> upto[k]]
    BY <1>7
  <2>2. \A k \in 1 .. n : upto[k - 1] \in D => upto[k] \in D
    BY <1>2, <1>9
  <2> HIDE DEF Def
  <2> QED  BY <1>1, <1>9, <2>1, <2>2, LoopStays
<1> QED  BY <1>8, <1>9, <1>10 DEF n, D

\* The extractive card opens the chunks it is made from.
LEMMA ExtractiveProfileIs ==
  ASSUME NEW cs \in Seq(Rows)
  PROVE  ExtractiveProfile(cs) \in Seq(GoodPoints(cs))
<1> DEFINE one(of) == Folded(LAMBDA items, c : PutCues(items, c, of), <<>>, cs)
           each == [k \in DOMAIN Fields |-> one(Fields[k])]
<1>1. ExtractiveProfile(cs) = FlattenSeq(each)
  BY DEF ExtractiveProfile
<1>2. ASSUME NEW k \in DOMAIN Fields
      PROVE  one(Fields[k]) \in Seq(GoodPoints(cs))
  <2>1. PICK of \in ToSet(Fields) : of = Fields[k]
    BY DEF ToSet
  <2>2. PICK f \in [0 .. Len(cs) -> Seq(GoodPoints(cs))] : one(of) = f[Len(cs)]
    BY CuesLoop
  <2>3. Len(cs) \in 0 .. Len(cs)
    <3>1. Len(cs) \in Nat
      OBVIOUS
    <3> QED  BY <3>1, IndexBefore
  <2> HIDE DEF one
  <2> QED  BY <2>1, <2>2, <2>3
<1> HIDE DEF one
<1>3. each \in [DOMAIN Fields -> Seq(GoodPoints(cs))]
  BY <1>2
<1> HIDE DEF each
<1>4. Fields \in Seq(ToSet(Fields))
  BY DEF Fields, ToSet
<1> QED  BY <1>1, <1>3, <1>4, FlattenEach

\* The card is a chunk of its own, of no page.
LEMMA CardIs ==
  ASSUME NEW x \in Ids, NEW points \in Seq(Points), NEW problem
  PROVE  Card(x, points, problem) = <<>> \/ \E c \in Rows : Card(x, points, problem) = <<c>> /\ c.id = x
<1> DEFINE t == [i \in DOMAIN points |-> Passage(points[i].says, 1, TRUE)]
           k == Chunk(t, NoPage, "paper_profile", "Paper profile", <<"Paper profile">>, "profile")
<1>1. Card(x, points, problem) = <<>> \/ Card(x, points, problem) = <<WithId(x, k)>>
  BY DEF Card
<1>2. ASSUME NEW i \in DOMAIN points
      PROVE  Passage(points[i].says, 1, TRUE) \in Passages(Labels)
  <2>1. points[i] \in Points
    BY MemberIs
  <2>2. points[i].says \in Labels /\ 1 \in Nat \ {0} /\ TRUE \in BOOLEAN
    BY <2>1 DEF Points
  <2> QED  BY <2>2, PassageIs
<1>3. t \in [DOMAIN points -> Passages(Labels)]
  BY <1>2
<1> HIDE DEF t
<1>4. t \in Texts(Labels)
  BY <1>3, EachIs DEF Texts
<1>5. k \in Chunks(Labels)
  <2>1. PICK path \in Seq(Headings) : path = <<"Paper profile">>
    BY KindsAre, SingleIs
  <2>2. PICK h \in Headings, kind \in ContentTypes, type \in Types : h = "Paper profile" /\ kind = "paper_profile" /\ type = "profile"
    BY KindsAre
  <2>3. Chunk(t, 0, kind, h, path, type) \in Chunks(Labels)
    BY <1>4 DEF Chunk, Chunks
  <2> QED  BY <2>1, <2>2, <2>3 DEF NoPage
<1> HIDE DEF k
<1>6. WithId(x, k) \in Rows /\ WithId(x, k).id = x
  BY <1>5, WithIdIs
<1> QED  BY <1>1, <1>6

-----------------------------------------------------------------------------
(* Batches                                                                  *)

Batching(I) == [batches : Seq(Seq(I)), current : Seq(I)]
InBatches(bs)   == UNION {ToSet(bs[j]) : j \in DOMAIN bs}
Placed(acc) == InBatches(acc.batches) \cup ToSet(acc.current)

\* A list with one more member.
LEMMA OneMore ==
  ASSUME NEW S, NEW s \in Seq(S), NEW x \in S
  PROVE  /\ Append(s, x) \in Seq(S) /\ DOMAIN Append(s, x) = 1 .. Len(s) + 1
         /\ Append(s, x)[Len(s) + 1] = x /\ \A j \in 1 .. Len(s) : Append(s, x)[j] = s[j]
  OBVIOUS

\* One more batch.
LEMMA OneMoreBatch ==
  ASSUME NEW I, NEW bs \in Seq(Seq(I)), NEW b \in Seq(I)
  PROVE  Append(bs, b) \in Seq(Seq(I)) /\ InBatches(Append(bs, b)) = InBatches(bs) \cup ToSet(b)
<1>1. PICK cs \in Seq(Seq(I)) :
         /\ cs = Append(bs, b) /\ DOMAIN cs = 1 .. Len(bs) + 1
         /\ cs[Len(bs) + 1] = b /\ \A j \in 1 .. Len(bs) : cs[j] = bs[j]
  <2>1. PICK S : S = Seq(I)
    OBVIOUS
  <2>2. bs \in Seq(S) /\ b \in S
    BY <2>1
  <2>3. /\ Append(bs, b) \in Seq(S) /\ DOMAIN Append(bs, b) = 1 .. Len(bs) + 1
        /\ Append(bs, b)[Len(bs) + 1] = b /\ \A j \in 1 .. Len(bs) : Append(bs, b)[j] = bs[j]
    BY ONLY <2>2, OneMore
  <2> QED  BY <2>1, <2>3
<1>2. /\ DOMAIN cs = 1 .. Len(bs) + 1 /\ Len(bs) \in Nat /\ DOMAIN bs = 1 .. Len(bs)
      /\ cs[Len(bs) + 1] = b /\ \A j \in 1 .. Len(bs) : cs[j] = bs[j]
  BY <1>1
<1>3. \A j \in DOMAIN cs : j = Len(bs) + 1 \/ j \in DOMAIN bs
  BY <1>2
<1>4. Len(bs) + 1 \in DOMAIN cs /\ \A j \in DOMAIN bs : j \in DOMAIN cs
  BY <1>2
<1>5. InBatches(cs) = InBatches(bs) \cup ToSet(b)
  <2>1. ASSUME NEW x \in InBatches(cs)
        PROVE  x \in InBatches(bs) \cup ToSet(b)
    <3>1. PICK j \in DOMAIN cs : x \in ToSet(cs[j])
      BY DEF InBatches
    <3>2. CASE j = Len(bs) + 1
      BY <1>2, <3>1, <3>2
    <3>3. CASE j \in DOMAIN bs
      BY <1>2, <3>1, <3>3 DEF InBatches
    <3> QED  BY <1>3, <3>2, <3>3
  <2>2. ASSUME NEW x \in InBatches(bs) \cup ToSet(b)
        PROVE  x \in InBatches(cs)
    <3>1. CASE x \in ToSet(b)
      BY <1>2, <1>4, <3>1 DEF InBatches
    <3>2. CASE x \in InBatches(bs)
      <4>1. PICK j \in DOMAIN bs : x \in ToSet(bs[j])
        BY <3>2 DEF InBatches
      <4>2. j \in DOMAIN cs /\ cs[j] = bs[j]
        BY <1>2, <1>4
      <4> QED  BY <4>1, <4>2 DEF InBatches
    <3> QED  BY <3>1, <3>2
  <2> QED  BY <2>1, <2>2
<1> QED  BY <1>1, <1>5

\* One more text is placed.
LEMMA PutTextIs ==
  ASSUME NEW I, NEW acc \in Batching(I), NEW i \in I, NEW lengths
  PROVE  PutText(acc, i, lengths) \in Batching(I) /\ Placed(PutText(acc, i, lengths)) = Placed(acc) \cup {i}
<1>1. PICK bs \in Seq(Seq(I)), b \in Seq(I) : bs = acc.batches /\ b = acc.current
  BY DEF Batching
<1>2. DOMAIN acc = {"batches", "current"}
  BY DEF Batching
<1>3. <<i>> \in Seq(I) /\ ToSet(<<i>>) = {i}
  <2>1. <<i>> \in Seq(I) /\ DOMAIN <<i>> = {1} /\ <<i>>[1] = i
    BY SingleIs
  <2> QED  BY <2>1 DEF ToSet
<1>4. Append(b, i) \in Seq(I) /\ ToSet(Append(b, i)) = ToSet(b) \cup {i}
  <2>1. /\ Append(b, i) \in Seq(I) /\ DOMAIN Append(b, i) = DOMAIN b \cup {Len(b) + 1}
        /\ Append(b, i)[Len(b) + 1] = i /\ \A j \in DOMAIN b : Append(b, i)[j] = b[j]
    OBVIOUS
  <2> QED  BY <2>1 DEF ToSet
<1>5. PICK c \in Seq(I) : c = Append(b, i) /\ ToSet(c) = ToSet(b) \cup {i}
  BY <1>4
<1>6. PICK d \in Seq(I) : d = <<i>> /\ ToSet(d) = {i}
  BY <1>3
<1>7. PICK bt \in Seq(Seq(I)) : bt = Append(bs, b) /\ InBatches(bt) = InBatches(bs) \cup ToSet(b)
  BY OneMoreBatch
<1> DEFINE x == [batches |-> bt, current |-> d]
           y == [acc EXCEPT !.current = c]
<1>8. PutText(acc, i, lengths) = x \/ PutText(acc, i, lengths) = y
  BY <1>1, <1>5, <1>6, <1>7 DEF PutText
<1>9. x \in Batching(I) /\ y \in Batching(I)
  BY DEF Batching
<1>10. x.batches = bt /\ x.current = d /\ y.batches = bs /\ y.current = c
  BY <1>1, <1>2
<1> HIDE DEF x, y
<1>11. Placed(x) = Placed(acc) \cup {i}
  BY <1>1, <1>6, <1>7, <1>10 DEF Placed
<1>12. Placed(y) = Placed(acc) \cup {i}
  BY <1>1, <1>5, <1>10 DEF Placed
<1> QED  BY <1>8, <1>9, <1>11, <1>12

\* The batch begun last is one of them.
LEMMA CloseBatchIs ==
  ASSUME NEW I, NEW acc \in Batching(I)
  PROVE  CloseBatch(acc) \in Seq(Seq(I)) /\ InBatches(CloseBatch(acc)) = Placed(acc)
<1>1. PICK bs \in Seq(Seq(I)), b \in Seq(I) : bs = acc.batches /\ b = acc.current
  BY DEF Batching
<1>2. Append(bs, b) \in Seq(Seq(I)) /\ InBatches(Append(bs, b)) = InBatches(bs) \cup ToSet(b)
  BY OneMoreBatch
<1>3. CASE b = <<>>
  <2>1. ToSet(b) = {}
    BY <1>3 DEF ToSet
  <2> QED  BY <1>1, <1>3, <2>1 DEF CloseBatch, Placed
<1>4. CASE b # <<>>
  BY <1>1, <1>2, <1>4 DEF CloseBatch, Placed
<1> QED  BY <1>3, <1>4

\* Every position is in a batch.
LEMMA BatchesAre ==
  ASSUME NEW lengths \in Seq(Nat)
  PROVE  LET batches == LengthBoundedBatches(lengths)
         IN  FlattenSeq(batches) \in Seq(DOMAIN lengths) /\ ToSet(FlattenSeq(batches)) = DOMAIN lengths
<1> DEFINE I == DOMAIN lengths
           all == [i \in I |-> i]
           s == Ordered(all, lengths)
<1>1. s \in Seq(I) /\ ToSet(s) = I
  <2>1. all \in [I -> I] /\ \A i \in I : all[i] = i
    OBVIOUS
  <2>2. lengths \in [I -> Int]
    OBVIOUS
  <2> HIDE DEF all
  <2>3. all \in Seq(I) /\ DOMAIN all = I
    BY <2>1, EachIs
  <2>4. lengths \in [DOMAIN all -> Int]
    BY <2>2, <2>3
  <2>5. Ordered(all, lengths) \in Seq(I) /\ ToSet(Ordered(all, lengths)) = ToSet(all)
    BY <2>3, <2>4, OrderedIs, OrderedHas
  <2>6. ToSet(all) = I
    BY <2>1, <2>3 DEF ToSet
  <2> QED  BY <2>5, <2>6
<1>2. PICK start \in Batching(I) : start = [batches |-> <<>>, current |-> <<>>] /\ Placed(start) = {}
  <2>1. <<>> \in Seq(Seq(I)) /\ <<>> \in Seq(I) /\ DOMAIN <<>> = {}
    BY EmptyIs
  <2>2. [batches |-> <<>>, current |-> <<>>] \in Batching(I)
    BY <2>1 DEF Batching
  <2>3. InBatches(<<>>) = {} /\ ToSet(<<>>) = {}
    BY <2>1 DEF InBatches, ToSet
  <2>4. Placed([batches |-> <<>>, current |-> <<>>]) = {}
    BY <2>3 DEF Placed
  <2> QED  BY <2>2, <2>4
<1> DEFINE n == Len(s)
           D == Batching(I)
           Def(f) == f = [k \in 0 .. n |-> IF k = 0 THEN start ELSE PutText(f[k - 1], s[k], lengths)]
           upto == CHOOSE f : Def(f)
           step == [k \in 1 .. n |-> [a \in D |-> PutText(a, s[k], lengths)]]
<1>3. LengthBoundedBatches(lengths) = CloseBatch(upto[n])
  BY <1>2 DEF LengthBoundedBatches, Folded
<1> HIDE DEF s
<1>4. n \in Nat /\ start \in D /\ \A k \in 1 .. n : s[k] \in I
  BY <1>1, MemberIs
<1>5. \A k \in 1 .. n : \A a \in D : PutText(a, s[k], lengths) \in D /\ Placed(PutText(a, s[k], lengths)) = Placed(a) \cup {s[k]}
  BY <1>4, PutTextIs
<1>6. /\ step \in [1 .. n -> [D -> D]]
      /\ \A k \in 1 .. n : \A a \in D : step[k][a] = PutText(a, s[k], lengths)
  <2> HIDE DEF D
  <2> QED  BY <1>5
<1> HIDE DEF step, n, D
<1>7. PICK g : Loop(g, D, n, start, step)
  BY <1>4, <1>6, LoopExists
<1>8. \A k \in 0 .. n : g[k] = IF k = 0 THEN start ELSE PutText(g[k - 1], s[k], lengths)
  BY <1>6, <1>7 DEF Loop
<1>9. Def(g)
  BY <1>7, <1>8 DEF Loop
<1>10. Def(upto)
  BY <1>9
<1> HIDE DEF upto
<1>11. upto[0] = start /\ \A k \in 1 .. n : upto[k] = PutText(upto[k - 1], s[k], lengths)
  BY <1>4, <1>10
<1> DEFINE Good == [k \in 0 .. n |-> {a \in D : Placed(a) = {s[j] : j \in 1 .. k}}]
<1>12. \A k \in 0 .. n : upto[k] \in Good[k]
  <2>1. upto[0] \in Good[0]
    <3>1. {s[j] : j \in 1 .. 0} = {} /\ 0 \in 0 .. n
      BY <1>4, IndexBefore
    <3> QED  BY <1>2, <1>4, <1>11, <3>1
  <2>2. ASSUME NEW k \in 1 .. n, upto[k - 1] \in Good[k - 1]
        PROVE  upto[k] \in Good[k]
    <3>1. k - 1 \in 0 .. n /\ k \in 0 .. n
      BY <1>4, IndexBefore
    <3>2. PICK a \in D : a = upto[k - 1] /\ Placed(a) = {s[j] : j \in 1 .. k - 1}
      BY <2>2, <3>1
    <3>3. PutText(a, s[k], lengths) \in D /\ Placed(PutText(a, s[k], lengths)) = Placed(a) \cup {s[k]}
      BY <1>5
    <3>4. {s[j] : j \in 1 .. k} = {s[j] : j \in 1 .. k - 1} \cup {s[k]}
      <4>1. \A j \in 1 .. k : j = k \/ j \in 1 .. k - 1
        BY <1>4
      <4>2. k \in 1 .. k /\ \A j \in 1 .. k - 1 : j \in 1 .. k
        BY <1>4
      <4> QED  BY <4>1, <4>2
    <3>5. upto[k] = PutText(a, s[k], lengths)
      BY <1>11, <3>2
    <3>6. Placed(upto[k]) = {s[j] : j \in 1 .. k}
      BY <3>2, <3>3, <3>4, <3>5
    <3> QED  BY <3>1, <3>3, <3>5, <3>6
  <2> HIDE DEF Good
  <2> QED  BY <1>4, <2>1, <2>2, LoopKeeps
<1>13. upto[n] \in D /\ Placed(upto[n]) = {s[j] : j \in 1 .. n}
  <2>1. n \in 0 .. n
    BY <1>4, IndexBefore
  <2> QED  BY <1>12, <2>1
<1>14. {s[j] : j \in 1 .. n} = I
  <2>1. DOMAIN s = 1 .. n
    BY <1>1 DEF n
  <2> QED  BY <1>1, <2>1 DEF ToSet
<1>15. CloseBatch(upto[n]) \in Seq(Seq(I)) /\ InBatches(CloseBatch(upto[n])) = I
  BY <1>13, <1>14, CloseBatchIs DEF D
<1>16. PICK bs \in Seq(Seq(I)) : bs = LengthBoundedBatches(lengths) /\ InBatches(bs) = I
  BY <1>3, <1>15
<1>17. FlattenSeq(bs) \in Seq(I) /\ ToSet(FlattenSeq(bs)) = I
  <2>1. PICK S : S = I
    OBVIOUS
  <2>2. bs \in Seq(Seq(S))
    BY <2>1
  <2>3. FlattenSeq(bs) \in Seq(S) /\ ToSet(FlattenSeq(bs)) = UNION {ToSet(bs[j]) : j \in DOMAIN bs}
    BY ONLY <2>2, FlattenIs
  <2> QED  BY <1>16, <2>1, <2>3 DEF InBatches
<1> QED  BY <1>16, <1>17

-----------------------------------------------------------------------------
(* Vectors                                                                  *)

IdsOf(rows)    == {c.id : c \in ToSet(rows)}
Fresh(rows, has) == {c \in ToSet(rows) : c.id \notin has}
Distinct(rows) == \A i, k \in DOMAIN rows : rows[i].id = rows[k].id => i = k

\* The characters a chunk is embedded with are a number.
LEMMA ContentLenIs ==
  ASSUME NEW c \in Rows
  PROVE  ContentLen(c) \in Nat
<1>1. c.text \in Texts(Labels)
  BY DEF Rows
<1>2. TextLen(c.text) \in Nat
  BY <1>1, TextLenIs
<1> QED  BY <1>2, ChunkSizes DEF ContentLen

\* The chunks that get a vector are those that have none.
LEMMA EncodedAre ==
  ASSUME NEW rows \in Seq(Rows), NEW has
  PROVE  LET open    == Select(rows, LAMBDA c : c.id \notin has)
             batches == LengthBoundedBatches([i \in DOMAIN open |-> ContentLen(open[i])])
         IN  {open[i] : i \in ToSet(FlattenSeq(batches))} = Fresh(rows, has)
<1> DEFINE I == {i \in DOMAIN rows : rows[i].id \notin has}
           open == Kept(rows, I)
           lengths == [i \in DOMAIN open |-> ContentLen(open[i])]
<1>1. Select(rows, LAMBDA c : c.id \notin has) = open
  BY DEF Select
<1>2. I \in SUBSET DOMAIN rows
  OBVIOUS
<1>3. \A i \in I : i \in DOMAIN rows /\ rows[i].id \notin has
  OBVIOUS
<1>4. \A i \in DOMAIN rows : rows[i].id \notin has => i \in I
  OBVIOUS
<1> HIDE DEF I
<1>5. /\ open \in Seq(Rows)
      /\ \A p \in DOMAIN open : Nth(I, p) \in I /\ open[p] = rows[Nth(I, p)]
      /\ \A i \in I : Rank(I, i) \in DOMAIN open /\ Nth(I, Rank(I, i)) = i
  BY <1>2, KeptIs
<1> HIDE DEF open
<1>6. lengths \in Seq(Nat) /\ DOMAIN lengths = DOMAIN open
  <2>1. \A i \in DOMAIN open : ContentLen(open[i]) \in Nat
    BY <1>5, MemberIs, ContentLenIs
  <2>2. lengths \in [DOMAIN open -> Nat]
    BY <2>1
  <2> HIDE DEF lengths
  <2> QED  BY <1>5, <2>2, EachIs
<1> HIDE DEF lengths
<1>7. ToSet(FlattenSeq(LengthBoundedBatches(lengths))) = DOMAIN open
  BY <1>6, BatchesAre
<1>8. {open[i] : i \in DOMAIN open} = {c \in ToSet(rows) : c.id \notin has}
  <2>1. ASSUME NEW p \in DOMAIN open
        PROVE  open[p] \in {c \in ToSet(rows) : c.id \notin has}
    BY <1>3, <1>5 DEF ToSet
  <2>2. ASSUME NEW c \in ToSet(rows), c.id \notin has
        PROVE  c \in {open[i] : i \in DOMAIN open}
    <3>1. PICK i \in DOMAIN rows : rows[i] = c
      BY DEF ToSet
    <3>2. i \in I
      BY <1>4, <2>2, <3>1
    <3>3. Rank(I, i) \in DOMAIN open /\ open[Rank(I, i)] = c
      BY <1>5, <3>1, <3>2
    <3> QED  BY <3>3
  <2> QED  BY <2>1, <2>2
<1> QED  BY <1>1, <1>7, <1>8 DEF lengths, Fresh

\* With the vectors there are, every chunk has one of its own content.
LEMMA EmbedIs ==
  ASSUME NEW rows \in Seq(Rows), Distinct(rows), NEW had, DOMAIN had \subseteq IdsOf(rows),
         \A c \in ToSet(rows) : c.id \in DOMAIN had => had[c.id] = Content(c),
         NEW has, DOMAIN has = DOMAIN had \cup {c.id : c \in Fresh(rows, DOMAIN had)}, \A x \in DOMAIN had : has[x] = had[x],
         \A d \in Fresh(rows, DOMAIN had) : d.id \notin DOMAIN had => \E c \in Fresh(rows, DOMAIN had) : c.id = d.id /\ has[d.id] = Content(c)
  PROVE  DOMAIN has = IdsOf(rows) /\ \A c \in ToSet(rows) : has[c.id] = Content(c)
<1>1. DOMAIN has = IdsOf(rows)
  <2>1. DOMAIN had \cup {c.id : c \in Fresh(rows, DOMAIN had)} = IdsOf(rows)
    BY DEF IdsOf, Fresh
  <2> QED  BY <2>1
<1>2. ASSUME NEW c \in ToSet(rows)
      PROVE  has[c.id] = Content(c)
  <2>1. CASE c.id \in DOMAIN had
    BY <2>1
  <2>2. CASE c.id \notin DOMAIN had
    <3>1. c \in Fresh(rows, DOMAIN had)
      BY <2>2 DEF Fresh
    <3>2. \A d \in Fresh(rows, DOMAIN had) : d.id = c.id => d = c
      <4> SUFFICES ASSUME NEW d \in ToSet(rows), d.id = c.id
                   PROVE  d = c
        BY DEF Fresh
      <4>1. PICK i \in DOMAIN rows, k \in DOMAIN rows : rows[i] = c /\ rows[k] = d
        BY DEF ToSet
      <4> QED  BY <4>1 DEF Distinct
    <3> QED  BY <2>2, <3>1, <3>2
  <2> QED  BY <2>1, <2>2
<1> QED  BY <1>1, <1>2

-----------------------------------------------------------------------------
(* What holds all along                                                     *)

Pages == 1 .. paper.pages

\* No paragraph of the sections, no line of the list, is on a later page than n.
SaidBy(ss, n)  == \A i \in DOMAIN ss : \A a \in DOMAIN ss[i].paragraphs : ss[i].paragraphs[a].page <= n
LinedBy(ls, n) == \A k \in DOMAIN ls : ls[k].page <= n

\* Sections are read in the order of the pages.
InSections(ss, P) == ss \in Seq(Sections) /\ ss # <<>> /\ Orderly(ss) /\ On(ss, P)
InPending(ls, P)  == ls \in Seq(Collecteds) /\ Rising(ls) /\ Within(ls, P)

\* The parser's loop reads on: what is collected is on no later page than what
\* is left to read, what is flushed on no later page than what is to flush.
ReadInv ==
  /\ paper \in Papers /\ failed \subseteq Pages
  /\ body \in Nat /\ inline \in BOOLEAN /\ title \subseteq Names
  /\ lines \in Seq(PaperLines) /\ Rising(lines) /\ Within(lines, Pages)
  /\ at \in 1 .. Len(lines) + 1
  /\ InSections(sections, Pages) /\ InPending(pending, Pages)
  /\ \A k \in DOMAIN pending : SaidBy(sections, pending[k].page)
  /\ \A k \in DOMAIN lines : at <= k => SaidBy(sections, lines[k].page) /\ LinedBy(pending, lines[k].page)

\* What was parsed is of the paper's pages.
ParsedInv == parsed # NotParsed => GoodParse(parsed, Pages)

\* A row of this ingest, or what a stored row is by its id.
OfThisRun(c) ==
  \/ c.id[1] = run /\ c.id[2] # 0
  \/ \E o \in ToSet(stored) : o.id = c.id /\ Content(o) = Content(c)

\* The rows made are numbered, then named apart, an old name for old content only.
ChunkInv ==
  /\ run \in 0 .. MaxRuns
  /\ stage \in {"idle", "lines", "parsed", "chunked", "reconciled", "profiled", "stored", "carded", "failed"}
  /\ chunks \in Seq(Rows) /\ \A i \in DOMAIN chunks : Spans(chunks[i], 0 .. paper.pages)
  /\ stage = "chunked" => \A i \in DOMAIN chunks : chunks[i].id = <<run, i>>
  /\ stage \in {"reconciled", "profiled"} => Distinct(chunks) /\ \A c \in ToSet(chunks) : OfThisRun(c)

\* An ingest whose chunks are not committed.
Making == {"lines", "parsed", "chunked", "reconciled", "profiled"}

\* Stored rows have names apart, none of a run to come; a vector is of the
\* content stored under its name.
StoredInv ==
  /\ stored \in Seq(Rows) /\ Distinct(stored)
  /\ \A o \in ToSet(stored) : o.id[1] <= run /\ (stage \in Making => o.id[1] < run)
  /\ DOMAIN vectors \subseteq IdsOf(stored)
  /\ \A c \in ToSet(stored) : c.id \in DOMAIN vectors => vectors[c.id] = Content(c)
  /\ stage = "idle" => DOMAIN vectors = IdsOf(stored)

\* The points open what the card is about.
ProfileInv ==
  /\ profile \in Seq(Points)
  /\ stage = "profiled" => \A p \in ToSet(profile) : Opens(p, chunks)
  /\ stage = "stored" => \A p \in ToSet(profile) : Opens(p, stored)

\* The words a point is grounded in are in the chunk of its name, if there is one.
Words(p)       == IF p.quote # NoLine THEN p.quote ELSE p.says
Says(p, rows)  == p.chunk # NoChunk /\ p.grounded => \A c \in ToSet(rows) : c.id = p.chunk => Words(p) \in Lines(c.text)
OfARun(p)      == p.chunk # NoChunk => p.chunk[1] <= run /\ (stage \in Making => p.chunk[1] < run)

\* The stored card names chunks of runs begun, none of the run whose chunks are
\* still being made: so a chunk that has a name of it is an old one, or has
\* taken its name for its content.
CardInv ==
  /\ card \in Seq(Points) /\ torn \in BOOLEAN
  /\ \A p \in ToSet(card) : OfARun(p) /\ Says(p, stored) /\ (~torn => Opens(p, stored))

PaperInv == ReadInv /\ ParsedInv /\ ChunkInv /\ StoredInv /\ ProfileInv /\ CardInv

-----------------------------------------------------------------------------
(* The loop over the lines                                                  *)

\* The sections with the lines at hand flushed to the last one.
Flush(ss, ls) == [ss EXCEPT ![Len(ss)].paragraphs = @ \o GroupParagraphs(ls)]

\* A section with more paragraphs is a section.
LEMMA ContinuedIs ==
  ASSUME NEW s \in Sections, NEW ps \in Seq(Paragraphs)
  PROVE  /\ s.paragraphs \in Seq(Paragraphs) /\ s.paragraphs \o ps \in Seq(Paragraphs)
         /\ [s EXCEPT !.paragraphs = @ \o ps] \in Sections
         /\ [s EXCEPT !.paragraphs = @ \o ps].paragraphs = s.paragraphs \o ps
<1>1. s.paragraphs \in Seq(Paragraphs) /\ s.paragraphs \o ps \in Seq(Paragraphs)
  BY DEF Sections
<1>2. PICK qs \in Seq(Paragraphs) : qs = s.paragraphs \o ps
  BY <1>1
<1>3. [s EXCEPT !.paragraphs = qs] \in Sections /\ [s EXCEPT !.paragraphs = qs].paragraphs = qs
  BY DEF Sections
<1> QED  BY <1>1, <1>2, <1>3

\* What a list joined to another has at its places.
LEMMA JoinedAt ==
  ASSUME NEW S, NEW a \in Seq(S), NEW b \in Seq(S), NEW i \in DOMAIN (a \o b)
  PROVE  \/ i \in DOMAIN a /\ (a \o b)[i] = a[i]
         \/ i - Len(a) \in DOMAIN b /\ (a \o b)[i] = b[i - Len(a)]
  OBVIOUS

\* Flushing keeps the order of the pages.
LEMMA FlushIs ==
  ASSUME NEW P, NEW ss, InSections(ss, P), NEW ls, InPending(ls, P), \A k \in DOMAIN ls : SaidBy(ss, ls[k].page)
  PROVE  /\ InSections(Flush(ss, ls), P)
         /\ \A n : SaidBy(ss, n) /\ LinedBy(ls, n) => SaidBy(Flush(ss, ls), n)
<1>1. ss \in Seq(Sections) /\ ss # <<>> /\ Orderly(ss) /\ On(ss, P)
  BY DEF InSections
<1>2. ls \in Seq(Collecteds) /\ Rising(ls) /\ Within(ls, P)
  BY DEF InPending
<1>3. PICK ps \in Seq(Paragraphs) :
        /\ ps = GroupParagraphs(ls) /\ Rising(ps)
        /\ \A i \in DOMAIN ps : \E k \in DOMAIN ls : ps[i].page = ls[k].page
  BY <1>2, GroupParagraphsIs
<1>4. PICK m \in Nat : m = Len(ss) /\ m \in DOMAIN ss /\ DOMAIN ss = 1 .. m
  BY <1>1
<1>5. PICK s \in Sections : s = ss[m]
  BY <1>1, <1>4
<1>6. PICK qs \in Seq(Paragraphs), t \in Sections :
        /\ qs = s.paragraphs \o ps /\ t = [s EXCEPT !.paragraphs = @ \o ps] /\ t.paragraphs = qs
        /\ s.paragraphs \in Seq(Paragraphs)
  BY ContinuedIs
<1>7. PICK f \in Seq(Sections) : f = Flush(ss, ls) /\ f = [ss EXCEPT ![m] = t]
  <2>1. Flush(ss, ls) = [ss EXCEPT ![m] = t]
    BY <1>3, <1>4, <1>5, <1>6 DEF Flush
  <2>2. [ss EXCEPT ![m] = t] \in Seq(Sections)
    BY <1>1, <1>4
  <2> QED  BY <2>1, <2>2
<1>8. DOMAIN f = 1 .. m /\ f[m] = t /\ \A i \in 1 .. m : i # m => f[i] = ss[i]
  BY <1>1, <1>4, <1>7
<1>9. f # <<>>
  BY <1>4, <1>8
<1>10. \A i \in DOMAIN qs : \/ i \in DOMAIN s.paragraphs /\ qs[i] = s.paragraphs[i]
                            \/ i - Len(s.paragraphs) \in DOMAIN ps /\ qs[i] = ps[i - Len(s.paragraphs)]
  BY ONLY <1>3, <1>6, JoinedAt
<1>11. \A b \in DOMAIN ps : ps[b].page \in P /\ SaidBy(ss, ps[b].page)
  BY <1>2, <1>3 DEF Within
<1>12. Rising(qs)
  <2>1. \A a \in DOMAIN s.paragraphs, b \in DOMAIN ps : s.paragraphs[a].page <= ps[b].page
    BY <1>4, <1>5, <1>11 DEF SaidBy
  <2>2. Rising(s.paragraphs)
    BY <1>1, <1>4, <1>5 DEF Orderly
  <2>3. PICK bs \in Seq(Paragraphs) : bs = s.paragraphs
    BY <1>6
  <2>4. Rising(bs \o ps)
    <3>1. Rising(bs) /\ Rising(ps) /\ \A a \in DOMAIN bs, b \in DOMAIN ps : bs[a].page <= ps[b].page
      BY <1>3, <2>1, <2>2, <2>3
    <3> QED  BY ONLY <3>1, ConcatRises
  <2> QED  BY <1>6, <2>3, <2>4
<1>13. Within(qs, P)
  <2>1. Within(s.paragraphs, P)
    BY <1>1, <1>4, <1>5 DEF On
  <2> QED  BY <1>10, <1>11, <2>1 DEF Within
<1>14. ASSUME NEW i \in DOMAIN f, NEW k \in 1 .. i - 1
       PROVE  Follows(f[k], f[i])
  <2>1. k \in 1 .. m /\ k # m /\ i \in 1 .. m /\ f[k] = ss[k]
    BY <1>4, <1>8
  <2>2. Follows(ss[k], ss[i])
    BY <1>1, <1>4, <2>1 DEF Orderly
  <2>3. CASE i # m
    BY <1>8, <2>1, <2>2, <2>3
  <2>4. CASE i = m
    <3> SUFFICES ASSUME NEW a \in DOMAIN ss[k].paragraphs, NEW b \in DOMAIN qs
                 PROVE  ss[k].paragraphs[a].page <= qs[b].page
      BY <1>6, <1>8, <2>1, <2>4 DEF Follows
    <3>1. CASE b \in DOMAIN s.paragraphs /\ qs[b] = s.paragraphs[b]
      BY <1>5, <2>2, <2>4, <3>1 DEF Follows
    <3>2. CASE b - Len(s.paragraphs) \in DOMAIN ps /\ qs[b] = ps[b - Len(s.paragraphs)]
      <4>1. PICK c \in DOMAIN ps : qs[b] = ps[c]
        BY <3>2
      <4>2. SaidBy(ss, ps[c].page) /\ k \in DOMAIN ss
        BY <1>4, <1>11, <2>1
      <4> QED  BY <4>1, <4>2 DEF SaidBy
    <3> QED  BY <1>10, <3>1, <3>2
  <2> QED  BY <2>3, <2>4
<1>15. \A i \in DOMAIN f : Rising(f[i].paragraphs)
  BY <1>1, <1>4, <1>6, <1>8, <1>12 DEF Orderly
<1>16. On(f, P)
  BY <1>1, <1>4, <1>6, <1>8, <1>13 DEF On
<1>17. InSections(f, P)
  BY <1>7, <1>9, <1>14, <1>15, <1>16 DEF InSections, Orderly
<1>18. ASSUME NEW n, SaidBy(ss, n), LinedBy(ls, n)
       PROVE  SaidBy(f, n)
  <2>1. \A b \in DOMAIN ps : ps[b].page <= n
    BY <1>3, <1>18 DEF LinedBy
  <2>2. \A a \in DOMAIN s.paragraphs : s.paragraphs[a].page <= n
    BY <1>4, <1>5, <1>18 DEF SaidBy
  <2>3. \A i \in DOMAIN qs : qs[i].page <= n
    BY <1>10, <2>1, <2>2
  <2> QED  BY <1>4, <1>6, <1>8, <1>18, <2>3 DEF SaidBy
<1> QED  BY <1>7, <1>17, <1>18

\* A section begun has no paragraphs yet.
LEMMA BegunIs ==
  ASSUME NEW P, NEW ss, InSections(ss, P), NEW s \in Sections, s.paragraphs = <<>>
  PROVE  InSections(Append(ss, s), P) /\ \A n : SaidBy(ss, n) => SaidBy(Append(ss, s), n)
<1>1. ss \in Seq(Sections) /\ ss # <<>> /\ Orderly(ss) /\ On(ss, P)
  BY DEF InSections
<1>2. PICK f \in Seq(Sections) :
        /\ f = Append(ss, s) /\ DOMAIN f = 1 .. Len(ss) + 1 /\ f[Len(ss) + 1] = s /\ \A j \in 1 .. Len(ss) : f[j] = ss[j]
  <2>1. /\ Append(ss, s) \in Seq(Sections) /\ DOMAIN Append(ss, s) = 1 .. Len(ss) + 1
        /\ Append(ss, s)[Len(ss) + 1] = s /\ \A j \in 1 .. Len(ss) : Append(ss, s)[j] = ss[j]
    BY <1>1, OneMore
  <2> QED  BY <2>1
<1>3. PICK m \in Nat : m = Len(ss) /\ DOMAIN ss = 1 .. m
  BY <1>1
<1>4. \A i \in DOMAIN f : (i = m + 1 /\ f[i].paragraphs = <<>>) \/ (i \in DOMAIN ss /\ f[i] = ss[i])
  BY <1>2, <1>3
<1>5. DOMAIN <<>> = {}
  BY EmptyIs
<1>6. \A i \in DOMAIN f : Rising(f[i].paragraphs)
  BY <1>1, <1>4, <1>5 DEF Orderly, Rising
<1>7. On(f, P)
  BY <1>1, <1>4, <1>5 DEF On, Within
<1>8. ASSUME NEW i \in DOMAIN f, NEW k \in 1 .. i - 1
      PROVE  Follows(f[k], f[i])
  <2>1. CASE i = m + 1 /\ f[i].paragraphs = <<>>
    BY <1>5, <2>1 DEF Follows
  <2>2. CASE i \in DOMAIN ss /\ f[i] = ss[i]
    <3>1. k \in DOMAIN ss /\ f[k] = ss[k]
      BY <1>2, <1>3, <2>2
    <3> QED  BY <1>1, <2>2, <3>1 DEF Orderly
  <2> QED  BY <1>4, <2>1, <2>2
<1>9. f # <<>>
  BY <1>2, <1>3, <1>5
<1>10. \A n : SaidBy(ss, n) => SaidBy(f, n)
  BY <1>4, <1>5 DEF SaidBy
<1> QED  BY <1>2, <1>6, <1>7, <1>8, <1>9, <1>10 DEF InSections, Orderly

\* A line is collected after those at hand.
LEMMA CollectIs ==
  ASSUME NEW P, NEW ls, InPending(ls, P), NEW c \in Collecteds, c.page \in P, LinedBy(ls, c.page)
  PROVE  InPending(Append(ls, c), P) /\ \A n : LinedBy(ls, n) /\ c.page <= n => LinedBy(Append(ls, c), n)
<1>1. ls \in Seq(Collecteds) /\ Rising(ls) /\ Within(ls, P)
  BY DEF InPending
<1>2. PICK f \in Seq(Collecteds) :
        /\ f = Append(ls, c) /\ DOMAIN f = 1 .. Len(ls) + 1 /\ f[Len(ls) + 1] = c /\ \A j \in 1 .. Len(ls) : f[j] = ls[j]
  <2>1. /\ Append(ls, c) \in Seq(Collecteds) /\ DOMAIN Append(ls, c) = 1 .. Len(ls) + 1
        /\ Append(ls, c)[Len(ls) + 1] = c /\ \A j \in 1 .. Len(ls) : Append(ls, c)[j] = ls[j]
    BY <1>1, OneMore
  <2> QED  BY <2>1
<1>3. PICK m \in Nat : m = Len(ls) /\ DOMAIN ls = 1 .. m
  BY <1>1
<1>4. \A i \in DOMAIN f : (i = m + 1 /\ f[i] = c) \/ (i \in DOMAIN ls /\ f[i] = ls[i])
  BY <1>2, <1>3
<1>5. Within(f, P)
  BY <1>1, <1>4 DEF Within
<1>6. ASSUME NEW i \in DOMAIN f, NEW k \in 1 .. i
      PROVE  f[k].page <= f[i].page
  <2>1. k \in DOMAIN f /\ (k # i => k \in DOMAIN ls /\ f[k] = ls[k])
    BY <1>2, <1>3, <1>4
  <2>2. c.page <= c.page
    BY DEF Collecteds
  <2>3. CASE i = m + 1 /\ f[i] = c
    BY <2>1, <2>2, <2>3 DEF LinedBy
  <2>4. CASE i \in DOMAIN ls /\ f[i] = ls[i]
    <3>1. k \in DOMAIN ls /\ f[k] = ls[k]
      BY <2>1, <2>4
    <3> QED  BY <1>1, <2>4, <3>1 DEF Rising
  <2> QED  BY <1>4, <2>3, <2>4
<1>7. \A n : LinedBy(ls, n) /\ c.page <= n => LinedBy(f, n)
  BY <1>4 DEF LinedBy
<1> QED  BY <1>2, <1>5, <1>6, <1>7 DEF InPending, Rising

\* The line to read is a line of the paper, on no earlier page than what was
\* collected.
LEMMA LineIs ==
  ASSUME ReadInv, at <= Len(lines)
  PROVE  /\ line \in PaperLines /\ line.of \in Names /\ line.page \in Nat /\ line.block \in Nat
         /\ line.page \in Pages /\ at \in DOMAIN lines
         /\ SaidBy(sections, line.page) /\ LinedBy(pending, line.page)
<1>1. lines \in Seq(PaperLines) /\ Within(lines, Pages) /\ at \in 1 .. Len(lines) + 1
  BY DEF ReadInv
<1>2. at \in DOMAIN lines /\ at <= at
  BY <1>1
<1>3. PICK l \in PaperLines : l = line
  BY <1>1, <1>2, MemberIs DEF line
<1>4. l.of \in Names /\ l.page \in Nat /\ l.block \in Nat
  BY DEF PaperLines
<1>5. line.page \in Pages
  BY <1>1, <1>2 DEF Within, line
<1>6. SaidBy(sections, line.page) /\ LinedBy(pending, line.page)
  BY <1>2 DEF ReadInv, line
<1> QED  BY <1>2, <1>3, <1>4, <1>5, <1>6

\* The whole line, and what follows the word "Abstract" in it, are passages.
LEMMA LinePassages ==
  ASSUME NEW l \in Names
  PROVE  /\ Passage(l, Look[l].len, Look[l].stop) \in Passages(Names)
         /\ Look[l].inline > 0 =>
              Cut(Passage(l, Look[l].len, Look[l].stop), Look[l].len - Look[l].inline, Look[l].len) \in Passages(Names)
<1>1. PICK n \in Nat \ {0}, m \in Nat, ends \in BOOLEAN :
        n = Look[l].len /\ m = Look[l].inline /\ m <= n /\ ends = Look[l].stop
  <2>1. Look[l].len \in Nat \ {0} /\ Look[l].inline \in 0 .. Look[l].len /\ Look[l].stop \in BOOLEAN
    BY LookIs
  <2>2. Look[l].inline \in Nat /\ Look[l].inline <= Look[l].len
    BY <2>1
  <2> QED  BY <2>1, <2>2
<1>2. Passage(l, n, ends) \in Passages(Names)
  BY PassageIs
<1>3. m > 0 => Cut(Passage(l, n, ends), n - m, n) \in Passages(Names)
  <2> SUFFICES ASSUME m > 0
               PROVE  Cut(Passage(l, n, ends), n - m, n) \in Passages(Names)
    OBVIOUS
  <2>1. PICK p \in Passages(Names) : p = Passage(l, n, ends) /\ p.from = 0
    BY <1>2 DEF Passage
  <2>2. PICK a \in Nat, k \in Nat \ {0} : a = p.from + (n - m) /\ k = n - (n - m)
    BY <1>1, <2>1
  <2>3. PICK e \in BOOLEAN : e = (p.stop /\ n = p.len)
    BY DEF Passages
  <2>4. [p EXCEPT !.from = a, !.len = k, !.stop = e] \in Passages(Names)
    BY DEF Passages
  <2>5. Cut(p, n - m, n) = [p EXCEPT !.from = a, !.len = k, !.stop = e]
    BY <2>2, <2>3 DEF Cut
  <2> QED  BY <2>1, <2>4, <2>5
<1> QED  BY <1>1, <1>2, <1>3

\* A line read keeps the order of the pages if its step collects on from it.
LEMMA ReadOn ==
  ASSUME ReadInv, NextLine, inline' \in BOOLEAN,
         InSections(sections', Pages), InPending(pending', Pages),
         \A k \in DOMAIN pending' : SaidBy(sections', pending'[k].page),
         \A n : SaidBy(sections, n) /\ LinedBy(pending, n) /\ line.page <= n => SaidBy(sections', n) /\ LinedBy(pending', n)
  PROVE  ReadInv'
<1>1. /\ at <= Len(lines) /\ at' = at + 1 /\ lines' = lines /\ paper' = paper /\ failed' = failed
      /\ body' = body /\ title' = title
  BY DEF NextLine
<1>2. Pages' = Pages
  BY <1>1 DEF Pages
<1>3. at \in DOMAIN lines /\ DOMAIN lines = 1 .. Len(lines) /\ Len(lines) \in Nat /\ at \in Nat
  BY <1>1, LineIs DEF ReadInv
<1>4. at' \in 1 .. Len(lines') + 1
  BY <1>1, <1>3
<1>5. ASSUME NEW k \in DOMAIN lines, at + 1 <= k
      PROVE  SaidBy(sections', lines[k].page) /\ LinedBy(pending', lines[k].page)
  <2>1. at <= k /\ at \in 1 .. k
    BY <1>3, <1>5
  <2>2. SaidBy(sections, lines[k].page) /\ LinedBy(pending, lines[k].page)
    BY <2>1 DEF ReadInv
  <2>3. line.page <= lines[k].page
    BY <2>1 DEF ReadInv, Rising, line
  <2> QED  BY <2>2, <2>3
<1>6. \A k \in DOMAIN lines' : at' <= k => SaidBy(sections', lines'[k].page) /\ LinedBy(pending', lines'[k].page)
  BY <1>1, <1>5
<1>7. /\ paper' \in Papers /\ failed' \subseteq Pages' /\ body' \in Nat /\ title' \subseteq Names
      /\ lines' \in Seq(PaperLines) /\ Rising(lines') /\ Within(lines', Pages')
  BY <1>1, <1>2 DEF ReadInv
<1>8. InSections(sections', Pages') /\ InPending(pending', Pages')
  BY <1>2
<1> QED  BY <1>4, <1>6, <1>7, <1>8 DEF ReadInv

\* What the sections are after the lines at hand are flushed.
LEMMA FlushedIs ==
  ASSUME ReadInv
  PROVE  /\ InSections(Flushed, Pages)
         /\ \A n : SaidBy(sections, n) /\ LinedBy(pending, n) => SaidBy(Flushed, n)
<1>1. /\ InSections(sections, Pages) /\ InPending(pending, Pages)
      /\ \A k \in DOMAIN pending : SaidBy(sections, pending[k].page)
  BY DEF ReadInv
<1>2. Flushed = Flush(sections, pending)
  BY DEF Flushed, Flush
<1>3. PICK ss : ss = sections
  OBVIOUS
<1>4. PICK ls : ls = pending
  OBVIOUS
<1>5. PICK P : P = Pages
  OBVIOUS
<1>6. InSections(ss, P) /\ InPending(ls, P) /\ \A k \in DOMAIN ls : SaidBy(ss, ls[k].page)
  BY <1>1, <1>3, <1>4, <1>5
<1>7. /\ InSections(Flush(ss, ls), P)
      /\ \A n : SaidBy(ss, n) /\ LinedBy(ls, n) => SaidBy(Flush(ss, ls), n)
  BY ONLY <1>6, FlushIs
<1> QED  BY <1>2, <1>3, <1>4, <1>5, <1>7

\* Without lines at hand there is no order to keep.
LEMMA NothingPending == \A P : InPending(<<>>, P) /\ \A n : LinedBy(<<>>, n)
<1>1. <<>> \in Seq(Collecteds) /\ DOMAIN <<>> = {}
  BY EmptyIs
<1> QED  BY <1>1 DEF InPending, Rising, Within, LinedBy

\* Each way to read a line keeps the order of the pages.
LEMMA LineStep ==
  ASSUME ReadInv, SkipTitleLine \/ InlineAbstract \/ Heading \/ TextLine
  PROVE  ReadInv'
<1>1. NextLine
  BY DEF SkipTitleLine, InlineAbstract, Heading, TextLine
<1>2. at <= Len(lines)
  BY <1>1 DEF NextLine
<1>3. /\ line \in PaperLines /\ line.of \in Names /\ line.page \in Nat /\ line.block \in Nat /\ line.page \in Pages
      /\ SaidBy(sections, line.page) /\ LinedBy(pending, line.page)
  BY <1>2, LineIs
<1>4. /\ inline \in BOOLEAN /\ InSections(sections, Pages) /\ InPending(pending, Pages)
      /\ \A k \in DOMAIN pending : SaidBy(sections, pending[k].page)
  BY DEF ReadInv
<1>5. /\ InSections(Flushed, Pages)
      /\ \A n : SaidBy(sections, n) /\ LinedBy(pending, n) => SaidBy(Flushed, n)
  BY FlushedIs
<1>6. CASE SkipTitleLine
  <2>1. sections' = sections /\ pending' = pending /\ inline' = inline
    BY <1>6 DEF SkipTitleLine
  <2> QED  BY <1>1, <1>4, <2>1, ReadOn
<1>7. CASE TextLine
  <2>1. PICK c \in Collecteds : c = Collected(Passage(line.of, reading.len, reading.stop)) /\ c.page = line.page
    <3>1. PICK p \in Passages(Names) : p = Passage(line.of, reading.len, reading.stop)
      <4>1. PICK l \in Names : l = line.of
        BY <1>3
      <4>2. Passage(l, Look[l].len, Look[l].stop) \in Passages(Names)
        BY LinePassages
      <4> QED  BY <4>1, <4>2 DEF reading
    <3>2. Collected(p) \in Collecteds /\ Collected(p).page = line.page
      BY <1>3 DEF Collected, Collecteds
    <3> QED  BY <3>1, <3>2
  <2>2. sections' = sections /\ inline' = inline /\ pending' = Append(pending, c)
    BY <1>7, <2>1 DEF TextLine
  <2>3. /\ InPending(Append(pending, c), Pages)
        /\ \A n : LinedBy(pending, n) /\ c.page <= n => LinedBy(Append(pending, c), n)
    BY <1>3, <1>4, <2>1, CollectIs
  <2>4. \A k \in DOMAIN pending' : SaidBy(sections', pending'[k].page)
    <3>1. pending \in Seq(Collecteds)
      BY <1>4 DEF InPending
    <3>2. \A k \in DOMAIN Append(pending, c) : Append(pending, c)[k] = c \/ (k \in DOMAIN pending /\ Append(pending, c)[k] = pending[k])
      BY <3>1
    <3> QED  BY <1>3, <1>4, <2>1, <2>2, <3>2
  <2>5. \A n : SaidBy(sections, n) /\ LinedBy(pending, n) /\ line.page <= n => SaidBy(sections', n) /\ LinedBy(pending', n)
    BY <2>1, <2>2, <2>3
  <2>6. inline' \in BOOLEAN /\ InSections(sections', Pages) /\ InPending(pending', Pages)
    BY <1>4, <2>2, <2>3
  <2> QED  BY <1>1, <2>4, <2>5, <2>6, ReadOn
<1>8. CASE Heading
  <2>1. PICK s \in Sections : sections' = Append(Flushed, s) /\ s.paragraphs = <<>>
    <3> DEFINE own == ClassifySection(line.of)
               type == IF own = "other" THEN InheritType(Flushed) ELSE own
    <3>1. sections' = Append(Flushed, Section(line.of, type, HeadingLevel(line.of), <<>>))
      BY <1>8 DEF Heading
    <3>2. type \in SectionTypes
      <4>1. own \in SectionTypes
        BY ClassifySectionIs
      <4>2. Flushed \in Seq(Sections)
        BY <1>5 DEF InSections
      <4>3. InheritType(Flushed) \in SectionTypes
        BY <4>2, InheritTypeIs
      <4> QED  BY <4>1, <4>3
    <3> HIDE DEF type
    <3>3. HeadingLevel(line.of) \in 1 .. 4
      BY <1>3, HeadingLevelIs
    <3>4. <<>> \in Seq(Paragraphs)
      BY EmptyIs
    <3>5. Section(line.of, type, HeadingLevel(line.of), <<>>) \in Sections
      BY <1>3, <3>2, <3>3, <3>4 DEF Section, Sections
    <3>6. Section(line.of, type, HeadingLevel(line.of), <<>>).paragraphs = <<>>
      BY DEF Section
    <3> QED  BY <3>1, <3>5, <3>6
  <2>2. pending' = <<>> /\ inline' = inline
    BY <1>8 DEF Heading
  <2>3. InSections(Append(Flushed, s), Pages) /\ \A n : SaidBy(Flushed, n) => SaidBy(Append(Flushed, s), n)
    BY <1>5, <2>1, BegunIs
  <2>4. /\ inline' \in BOOLEAN /\ InSections(sections', Pages) /\ InPending(pending', Pages)
        /\ \A n : LinedBy(pending', n)
    BY <1>4, <2>1, <2>2, <2>3, NothingPending
  <2>5. \A k \in DOMAIN pending' : SaidBy(sections', pending'[k].page)
    BY <2>2, EmptyIs
  <2>6. \A n : SaidBy(sections, n) /\ LinedBy(pending, n) /\ line.page <= n => SaidBy(sections', n) /\ LinedBy(pending', n)
    BY <1>5, <2>1, <2>3, <2>4
  <2> QED  BY <1>1, <2>4, <2>5, <2>6, ReadOn
<1>9. CASE InlineAbstract
  <2> DEFINE s == Section("Abstract", "abstract", 1, <<>>)
  <2>1. s \in Sections /\ s.paragraphs = <<>>
    <3>1. "Abstract" \in Names /\ "abstract" \in SectionTypes
      <4>1. SectionPatterns[1] = "abstract" /\ 1 \in DOMAIN SectionPatterns
        BY DEF SectionPatterns
      <4> HIDE DEF SectionPatterns
      <4>2. "abstract" \in SectionTypes
        BY <4>1 DEF SectionTypes, ToSet
      <4> QED  BY <4>2, LookAssumption DEF Names
    <3>2. <<>> \in Seq(Paragraphs)
      BY EmptyIs
    <3> QED  BY <3>1, <3>2 DEF Section, Sections
  <2> HIDE DEF s
  <2>2. PICK c \in Collecteds : pending' = <<c>> /\ c.page = line.page
    <3>1. reading.inline > 0
      <4>1. PICK m \in Nat : m = INLINE_MIN
        BY ParsingAssumption
      <4>2. PICK k \in Nat : k = reading.inline
        <5>1. PICK l \in Names : l = line.of
          BY <1>3
        <5>2. Look[l].len \in Nat /\ Look[l].inline \in 0 .. Look[l].len
          BY LookIs
        <5>3. Look[l].inline \in Nat
          BY <5>2
        <5> QED  BY <5>1, <5>3 DEF reading
      <4>3. k > m
        BY <1>9, <4>1, <4>2 DEF InlineAbstract, OpensAbstract
      <4> QED  BY <4>2, <4>3
    <3>2. PICK p \in Passages(Names) : p = Cut(Passage(line.of, reading.len, reading.stop), reading.len - reading.inline, reading.len)
      <4>1. PICK l \in Names : l = line.of
        BY <1>3
      <4>2. Look[l].inline > 0
        BY <3>1, <4>1 DEF reading
      <4>3. Cut(Passage(l, Look[l].len, Look[l].stop), Look[l].len - Look[l].inline, Look[l].len) \in Passages(Names)
        BY <4>2, LinePassages
      <4> QED  BY <4>1, <4>3 DEF reading
    <3>3. Collected(p) \in Collecteds /\ Collected(p).page = line.page
      BY <1>3 DEF Collected, Collecteds
    <3>4. pending' = <<Collected(p)>>
      BY <1>9, <3>2 DEF InlineAbstract
    <3> QED  BY <3>3, <3>4
  <2>3. sections' = Append(Flushed, s) /\ inline' = TRUE
    BY <1>9 DEF InlineAbstract, s
  <2>4. InSections(Append(Flushed, s), Pages) /\ \A n : SaidBy(Flushed, n) => SaidBy(Append(Flushed, s), n)
    BY <1>5, <2>1, BegunIs
  <2>5. <<c>> \in Seq(Collecteds) /\ DOMAIN <<c>> = {1} /\ <<c>>[1] = c
    BY SingleIs
  <2>6. InPending(<<c>>, Pages)
    <3>1. c.page <= c.page
      BY DEF Collecteds
    <3> QED  BY <1>3, <2>2, <2>5, <3>1 DEF InPending, Rising, Within
  <2>7. SaidBy(sections', line.page)
    BY <1>3, <1>5, <2>3, <2>4
  <2>8. \A k \in DOMAIN pending' : SaidBy(sections', pending'[k].page)
    BY <2>2, <2>5, <2>7
  <2>9. \A n : SaidBy(sections, n) /\ LinedBy(pending, n) /\ line.page <= n => SaidBy(sections', n) /\ LinedBy(pending', n)
    BY <1>5, <2>2, <2>3, <2>4, <2>5 DEF LinedBy
  <2>10. inline' \in BOOLEAN /\ InSections(sections', Pages) /\ InPending(pending', Pages)
    BY <2>2, <2>3, <2>4, <2>6
  <2> QED  BY <1>1, <2>8, <2>9, <2>10, ReadOn
<1> QED  BY <1>6, <1>7, <1>8, <1>9

\* Before the first heading the text is front matter.
LEMMA FrontMatterIs == \A P : InSections(FrontMatter, P) /\ \A n : SaidBy(FrontMatter, n)
<1> DEFINE s == Section("Front matter", "front_matter", 1, <<>>)
<1>1. s \in Sections /\ s.paragraphs = <<>>
  <2>1. "Front matter" \in Names
    BY LookAssumption DEF Names
  <2>2. "front_matter" \in SectionTypes
    BY DEF SectionTypes
  <2>3. <<>> \in Seq(Paragraphs)
    BY EmptyIs
  <2>4. PICK h \in Names : h = "Front matter"
    BY <2>1
  <2>5. PICK t \in SectionTypes : t = "front_matter"
    BY <2>2
  <2>6. PICK ps \in Seq(Paragraphs) : ps = <<>>
    BY <2>3
  <2>7. Section(h, t, 1, ps) \in Sections /\ Section(h, t, 1, ps).paragraphs = ps
    BY DEF Section, Sections
  <2> QED  BY <2>4, <2>5, <2>6, <2>7
<1> HIDE DEF s
<1>2. <<s>> \in Seq(Sections) /\ DOMAIN <<s>> = {1} /\ <<s>>[1] = s /\ <<s>> # <<>>
  BY <1>1, SingleIs
<1>3. FrontMatter = <<s>>
  BY DEF FrontMatter, s
<1>4. PICK f \in Seq(Sections) : f = <<s>> /\ DOMAIN f = {1} /\ f[1] = s /\ f # <<>>
  BY <1>2
<1>5. DOMAIN <<>> = {}
  BY EmptyIs
<1>6. Orderly(f)
  <2>1. \A i \in DOMAIN f : Rising(f[i].paragraphs)
    BY <1>1, <1>4, <1>5 DEF Rising
  <2>2. \A i \in DOMAIN f : \A k \in 1 .. i - 1 : Follows(f[k], f[i])
    BY <1>4
  <2> QED  BY <2>1, <2>2 DEF Orderly
<1>7. \A P : On(f, P)
  BY <1>1, <1>4, <1>5 DEF On, Within
<1>8. \A n : SaidBy(f, n)
  BY <1>1, <1>4, <1>5 DEF SaidBy
<1> QED  BY <1>3, <1>4, <1>6, <1>7, <1>8 DEF InSections

\* The loop begins with the lines that are no running headers.
LEMMA OpenStep ==
  ASSUME ReadInv, OpenPdf
  PROVE  ReadInv'
<1>1. /\ paper' = paper /\ lines' = RemoveRunningHeaders(paper.lines, paper.pages) /\ body' = BodyFontSize(lines')
      /\ title' = DetectTitle(lines', paper.meta) /\ at' = 1 /\ sections' = FrontMatter /\ pending' = <<>> /\ inline' = FALSE
      /\ failed' \in {{}, {t.page : t \in ToSet(paper.tables)}}
  BY DEF OpenPdf
<1>2. PICK pp \in Papers : pp = paper /\ GoodPaper(pp)
  <2>1. paper \in Papers
    BY DEF ReadInv
  <2> QED  BY <2>1, PapersAreGood
<1>3. /\ pp.lines \in Seq(PaperLines) /\ Rising(pp.lines) /\ Within(pp.lines, 1 .. pp.pages)
      /\ pp.meta.lines \subseteq Names
      /\ pp.tables \in Seq(PaperTables) /\ Within(pp.tables, 1 .. pp.pages)
  BY <1>2 DEF GoodPaper
<1>4. Pages' = 1 .. pp.pages
  BY <1>1, <1>2 DEF Pages
<1>5. PICK ls \in Seq(PaperLines) : ls = lines' /\ Rising(ls) /\ Within(ls, 1 .. pp.pages)
  <2>1. /\ RemoveRunningHeaders(pp.lines, pp.pages) \in Seq(PaperLines)
        /\ Rising(RemoveRunningHeaders(pp.lines, pp.pages)) /\ Within(RemoveRunningHeaders(pp.lines, pp.pages), 1 .. pp.pages)
    BY <1>3, HeadersGo
  <2> QED  BY <1>1, <1>2, <2>1
<1>6. body' \in Nat
  BY <1>1, <1>5, BodyFontSizeIs
<1>7. title' \subseteq Names
  <2>1. DetectTitle(ls, pp.meta) \subseteq Names
    BY <1>3, DetectTitleIs
  <2> QED  BY <1>1, <1>2, <1>5, <2>1
<1>8. failed' \subseteq Pages'
  <2>1. {t.page : t \in ToSet(pp.tables)} \subseteq 1 .. pp.pages
    BY <1>3 DEF Within, ToSet
  <2> QED  BY <1>1, <1>2, <1>4, <2>1
<1>9. at' \in 1 .. Len(lines') + 1
  <2>1. Len(ls) \in Nat
    OBVIOUS
  <2> QED  BY <1>1, <1>5, <2>1
<1>10. InSections(sections', Pages') /\ InPending(pending', Pages') /\ inline' \in BOOLEAN
  BY <1>1, FrontMatterIs, NothingPending
<1>11. \A k \in DOMAIN pending' : SaidBy(sections', pending'[k].page)
  BY <1>1, EmptyIs
<1>12. \A k \in DOMAIN lines' : SaidBy(sections', lines'[k].page) /\ LinedBy(pending', lines'[k].page)
  BY <1>1, FrontMatterIs, NothingPending
<1>13. /\ paper' \in Papers
       /\ lines' \in Seq(PaperLines) /\ Rising(lines') /\ Within(lines', Pages')
  BY <1>1, <1>2, <1>4, <1>5
<1> QED  BY <1>6, <1>7, <1>8, <1>9, <1>10, <1>11, <1>12, <1>13 DEF ReadInv

\* At the end what is at hand is flushed, and the sections are put together.
LEMMA EndStep ==
  ASSUME ReadInv, EndOfLines
  PROVE  ReadInv' /\ ParsedInv'
<1>1. /\ paper' = paper /\ lines' = lines /\ body' = body /\ title' = title /\ at' = at /\ inline' = inline /\ failed' = failed
      /\ parsed' = Parsed(paper, title, Flushed, failed) /\ sections' = Flushed /\ pending' = <<>> /\ at > Len(lines)
  BY DEF EndOfLines
<1>2. Pages' = Pages
  BY <1>1 DEF Pages
<1>3. InSections(Flushed, Pages)
  BY FlushedIs
<1>4. ReadInv'
  <2>1. InSections(sections', Pages') /\ InPending(pending', Pages')
    BY <1>1, <1>2, <1>3, NothingPending
  <2>2. \A k \in DOMAIN pending' : SaidBy(sections', pending'[k].page)
    BY <1>1, EmptyIs
  <2>3. \A k \in DOMAIN lines' : ~ at' <= k
    <3>1. lines \in Seq(PaperLines) /\ at \in 1 .. Len(lines) + 1
      BY DEF ReadInv
    <3>2. Len(lines) \in Nat /\ DOMAIN lines = 1 .. Len(lines)
      BY <3>1
    <3> QED  BY <1>1, <3>1, <3>2
  <2>4. /\ paper' \in Papers /\ failed' \subseteq Pages' /\ body' \in Nat /\ inline' \in BOOLEAN /\ title' \subseteq Names
        /\ lines' \in Seq(PaperLines) /\ Rising(lines') /\ Within(lines', Pages') /\ at' \in 1 .. Len(lines') + 1
    BY <1>1, <1>2 DEF ReadInv
  <2> QED  BY <2>1, <2>2, <2>3, <2>4 DEF ReadInv
<1>5. ParsedInv'
  <2>1. PICK pp \in Papers : pp = paper /\ GoodPaper(pp)
    <3>1. paper \in Papers
      BY DEF ReadInv
    <3> QED  BY <3>1, PapersAreGood
  <2>2. pp.tables \in Seq(PaperTables) /\ Within(pp.tables, 1 .. pp.pages)
    BY <2>1 DEF GoodPaper
  <2>3. PICK ss \in Seq(Sections) : ss = Flushed /\ Orderly(ss) /\ On(ss, 1 .. pp.pages)
    BY <1>3, <2>1 DEF InSections, Pages
  <2>4. \A h, b : GoodParse(Parsed(pp, h, ss, b), 1 .. pp.pages)
    BY <2>2, <2>3, ParsedIs
  <2>5. GoodParse(parsed', 1 .. pp.pages)
    BY <1>1, <2>1, <2>3, <2>4
  <2> QED  BY <1>2, <2>1, <2>5 DEF ParsedInv, Pages
<1> QED  BY <1>4, <1>5

\* An ingest that fails leaves nothing read.
LEMMA FailStep ==
  ASSUME ReadInv, IngestFails
  PROVE  ReadInv'
<1>1. /\ paper' = paper /\ lines' = <<>> /\ title' = {} /\ body' = 0 /\ at' = 1 /\ sections' = FrontMatter
      /\ pending' = <<>> /\ inline' = FALSE /\ failed' = {}
  BY DEF IngestFails
<1>2. DOMAIN <<>> = {} /\ Len(<<>>) = 0 /\ <<>> \in Seq(PaperLines)
  BY EmptyIs
<1>3. lines' \in Seq(PaperLines) /\ Rising(lines') /\ Within(lines', Pages')
  BY <1>1, <1>2 DEF Rising, Within
<1>4. InSections(sections', Pages') /\ InPending(pending', Pages')
  BY <1>1, FrontMatterIs, NothingPending
<1>5. at' \in 1 .. Len(lines') + 1
  BY <1>1, <1>2
<1>6. /\ \A k \in DOMAIN pending' : SaidBy(sections', pending'[k].page)
      /\ \A k \in DOMAIN lines' : SaidBy(sections', lines'[k].page) /\ LinedBy(pending', lines'[k].page)
  BY <1>1, <1>2
<1>7. paper' \in Papers /\ failed' \subseteq Pages' /\ body' \in Nat /\ inline' \in BOOLEAN /\ title' \subseteq Names
  BY <1>1 DEF ReadInv
<1> QED  BY <1>3, <1>4, <1>5, <1>6, <1>7 DEF ReadInv

\* Every other step leaves the parser alone.
LEMMA ReadStep ==
  ASSUME ReadInv, [Next]_vars
  PROVE  ReadInv'
<1>1. CASE UNCHANGED <<paper, parsing, failed>>
  BY <1>1 DEF ReadInv, parsing, Pages
<1>2. \/ OpenPdf \/ SkipTitleLine \/ InlineAbstract \/ Heading \/ TextLine \/ EndOfLines \/ IngestFails
      \/ UNCHANGED <<paper, parsing, failed>>
  BY DEF Next, Ingest, Over, ParseFails, ChunkPaper, Reconcile, ProfileByModel, ProfileExtracted, Persist, SaveCard,
         Embed, vars, parsing
<1> QED  BY <1>1, <1>2, OpenStep, LineStep, EndStep, FailStep

\* A paper is parsed at the end of its lines, and forgotten when the next ingest begins.
LEMMA ParsedStep ==
  ASSUME ReadInv, ParsedInv, [Next]_vars
  PROVE  ParsedInv'
<1>1. CASE OpenPdf \/ IngestFails
  BY <1>1 DEF OpenPdf, IngestFails, ParsedInv
<1>2. CASE EndOfLines
  BY <1>2, EndStep
<1>3. CASE UNCHANGED <<paper, parsed>>
  BY <1>3 DEF ParsedInv, Pages
<1>4. OpenPdf \/ IngestFails \/ EndOfLines \/ UNCHANGED <<paper, parsed>>
  BY DEF Next, Ingest, Over, SkipTitleLine, InlineAbstract, Heading, TextLine, NextLine, ParseFails, ChunkPaper,
         Reconcile, ProfileByModel, ProfileExtracted, Persist, SaveCard, Embed, vars
<1> QED  BY <1>1, <1>2, <1>3, <1>4

-----------------------------------------------------------------------------
(* The steps of an ingest                                                   *)

\* Ingests are counted.
LEMMA RunIs ==
  ASSUME ChunkInv
  PROVE  run \in Nat /\ run <= MaxRuns /\ run \in 0 .. MaxRuns
  BY RunsAssumption DEF ChunkInv

\* The chunks made are numbered, on pages of the paper.
LEMMA ChunkPaperStep ==
  ASSUME ReadInv, ParsedInv, ChunkInv, ChunkPaper
  PROVE  /\ chunks' \in Seq(Rows) /\ \A i \in DOMAIN chunks' : Spans(chunks'[i], 0 .. paper.pages) /\ chunks'[i].id = <<run, i>>
<1>1. PICK pp \in Papers : pp = paper /\ GoodPaper(pp)
  <2>1. paper \in Papers
    BY DEF ReadInv
  <2> QED  BY <2>1, PapersAreGood
<1>2. pp.pages \in Nat
  BY <1>1 DEF GoodPaper
<1>3. PICK Q : Q = 0 .. pp.pages
  OBVIOUS
<1>4. PICK built : /\ built = IF parsed = NotParsed THEN <<>> ELSE BuildChunks(parsed)
                   /\ chunks' = [i \in DOMAIN DocumentChunks(paper, built, failed) |->
                                   WithId(<<run, i>>, DocumentChunks(paper, built, failed)[i])]
  BY DEF ChunkPaper
<1>5. built \in Seq(Made(Q))
  <2>1. CASE parsed = NotParsed
    BY <1>4, <2>1, EmptyIs
  <2>2. CASE parsed # NotParsed
    <3>1. GoodParse(parsed, 1 .. pp.pages)
      BY <1>1, <2>2 DEF ParsedInv, Pages
    <3>2. BuildChunks(parsed) \in Seq(Made(0 .. pp.pages))
      BY <1>2, <3>1, BuildChunksIs
    <3> QED  BY <1>3, <1>4, <2>2, <3>2
  <2> QED  BY <2>1, <2>2
<1>6. PICK new \in Seq(Made(Q)) : new = DocumentChunks(pp, built, failed)
  BY <1>1, <1>3, <1>5, DocumentChunksIs
<1>7. run \in Nat
  BY RunIs
<1> DEFINE rows == [i \in DOMAIN new |-> WithId(<<run, i>>, new[i])]
<1>8. rows \in Seq(Rows) /\ \A i \in DOMAIN rows : rows[i].id = <<run, i>> /\ Spans(rows[i], Q)
  BY <1>7, NumberedIs
<1>9. chunks' = rows
  BY <1>1, <1>4, <1>6
<1> HIDE DEF rows
<1> QED  BY <1>1, <1>3, <1>8, <1>9

\* The ids adopted are those of old rows of the content, each for one chunk.
LEMMA ReconcileStep ==
  ASSUME ChunkInv, StoredInv, Reconcile
  PROVE  /\ chunks' \in Seq(Rows) /\ \A i \in DOMAIN chunks' : Spans(chunks'[i], 0 .. paper.pages)
         /\ Distinct(chunks') /\ \A c \in ToSet(chunks') : OfThisRun(c)
<1>1. /\ stage = "chunked" /\ chunks' = AdoptIds(chunks, stored)
  BY DEF Reconcile
<1>2. PICK new \in Seq(Rows) : new = chunks /\ \A i \in DOMAIN new : new[i].id = <<run, i>> /\ Spans(new[i], 0 .. paper.pages)
  BY <1>1 DEF ChunkInv
<1>3. PICK n \in Nat : n = run
  BY RunIs
<1>4. PICK old \in Seq(Rows) : old = stored
  BY DEF StoredInv
<1>5. \A o \in ToSet(old) : o.id[1] # n
  <2> SUFFICES ASSUME NEW o \in ToSet(old)
               PROVE  o.id[1] # n
    OBVIOUS
  <2>1. o.id[1] < run
    BY <1>1, <1>4 DEF StoredInv, Making
  <2>2. o \in Rows
    BY DEF ToSet
  <2>3. o.id[1] \in Nat
    BY <2>2 DEF Rows, Ids
  <2> QED  BY <1>3, <2>1, <2>3
<1>6. PICK rows \in Seq(Rows) : rows = AdoptIds(new, old) /\ Adopted(rows, new, Len(new), old)
  <2>1. \A i \in DOMAIN new : new[i].id = <<n, i>>
    BY <1>2, <1>3
  <2>2. AdoptIds(new, old) \in Seq(Rows) /\ Adopted(AdoptIds(new, old), new, Len(new), old)
    BY ONLY <1>5, <2>1, AdoptIdsIs
  <2> QED  BY <2>2
<1>7. PICK m \in Nat : m = Len(new) /\ DOMAIN new = 1 .. m /\ DOMAIN rows = 1 .. m
  <2>1. Len(rows) = Len(new)
    BY <1>6 DEF Adopted
  <2> QED  BY <2>1
<1>8. /\ \A i \in 1 .. m : Same(rows[i], new[i])
      /\ \A i \in 1 .. m : rows[i].id = new[i].id \/ \E o \in ToSet(old) : rows[i].id = o.id /\ Content(rows[i]) = Content(o)
      /\ \A i \in 1 .. m : \A j \in 1 .. i - 1 : rows[j].id # rows[i].id
  BY <1>6, <1>7 DEF Adopted
<1>9. \A i \in DOMAIN rows : Spans(rows[i], 0 .. paper.pages)
  BY <1>2, <1>7, <1>8 DEF Same, Spans
<1>10. ASSUME NEW i \in DOMAIN rows, NEW k \in DOMAIN rows, rows[i].id = rows[k].id
       PROVE  i = k
  <2>1. i \in 1 .. m /\ k \in 1 .. m
    BY <1>7
  <2>2. i = k \/ k \in 1 .. i - 1 \/ i \in 1 .. k - 1
    BY <2>1
  <2> QED  BY <1>8, <1>10, <2>1, <2>2
<1>11. ASSUME NEW c \in ToSet(rows)
       PROVE  OfThisRun(c)
  <2>1. PICK i \in 1 .. m : rows[i] = c
    BY <1>7 DEF ToSet
  <2>2. CASE c.id = new[i].id
    <3>1. c.id = <<run, i>> /\ i # 0
      BY <1>2, <1>7, <2>1, <2>2
    <3> QED  BY <3>1 DEF OfThisRun
  <2>3. CASE \E o \in ToSet(old) : c.id = o.id /\ Content(c) = Content(o)
    BY <1>4, <2>3 DEF OfThisRun
  <2> QED  BY <1>8, <2>1, <2>2, <2>3
<1> QED  BY <1>1, <1>2, <1>4, <1>6, <1>9, <1>10, <1>11 DEF Distinct

\* The rows of an ingest are made once and only renamed.
LEMMA ChunkStep ==
  ASSUME ReadInv, ParsedInv, ChunkInv, StoredInv, [Next]_vars
  PROVE  ChunkInv'
<1>1. run \in Nat /\ run <= MaxRuns /\ run \in 0 .. MaxRuns
  BY RunIs
<1>2. paper' = paper
  BY DEF Next, Ingest, Over, OpenPdf, SkipTitleLine, InlineAbstract, Heading, TextLine, NextLine, EndOfLines, ParseFails,
         ChunkPaper, Reconcile, ProfileByModel, ProfileExtracted, Persist, SaveCard, Embed, IngestFails, vars
<1>3. CASE OpenPdf
  <2>1. run' = run + 1 /\ run < MaxRuns /\ chunks' = <<>> /\ stage' = "lines"
    BY <1>3 DEF OpenPdf
  <2>2. run' \in 0 .. MaxRuns
    BY <1>1, <2>1, RunsAssumption
  <2> QED  BY <2>1, <2>2, EmptyIs DEF ChunkInv
<1>4. CASE ChunkPaper
  <2>1. run' = run /\ stage' \in {"failed", "chunked"}
    BY <1>4 DEF ChunkPaper
  <2>2. /\ chunks' \in Seq(Rows) /\ \A i \in DOMAIN chunks' : Spans(chunks'[i], 0 .. paper.pages) /\ chunks'[i].id = <<run, i>>
    BY <1>4, ChunkPaperStep
  <2> QED  BY <1>1, <1>2, <2>1, <2>2 DEF ChunkInv
<1>5. CASE Reconcile
  <2>1. run' = run /\ stage' = "reconciled" /\ stored' = stored
    BY <1>5 DEF Reconcile
  <2>2. /\ chunks' \in Seq(Rows) /\ \A i \in DOMAIN chunks' : Spans(chunks'[i], 0 .. paper.pages)
        /\ Distinct(chunks') /\ \A c \in ToSet(chunks') : OfThisRun(c)
    BY <1>5, ReconcileStep
  <2>3. \A c \in ToSet(chunks') : OfThisRun(c)'
    BY <2>1, <2>2 DEF OfThisRun
  <2> QED  BY <1>1, <1>2, <2>1, <2>2, <2>3 DEF ChunkInv
<1>6. CASE ProfileByModel \/ ProfileExtracted
  <2>1. run' = run /\ stage = "reconciled" /\ stage' = "profiled" /\ stored' = stored /\ chunks' = chunks
    BY <1>6 DEF ProfileByModel, ProfileExtracted
  <2>2. \A c \in ToSet(chunks') : OfThisRun(c)'
    BY <2>1 DEF OfThisRun, ChunkInv
  <2> QED  BY <1>1, <1>2, <2>1, <2>2 DEF ChunkInv
<1>7. CASE /\ run' = run /\ chunks' = chunks
           /\ stage' \in {"idle", "lines", "parsed", "stored", "carded"}
  BY <1>1, <1>2, <1>7 DEF ChunkInv
<1>7a. CASE IngestFails
  <2>1. run' = run /\ chunks' = <<>> /\ stage' = "failed"
    BY <1>7a DEF IngestFails
  <2> QED  BY <1>1, <2>1, EmptyIs DEF ChunkInv
<1>8. CASE UNCHANGED vars
  <2>1. run' = run /\ stage' = stage /\ stored' = stored /\ chunks' = chunks
    BY <1>8 DEF vars
  <2>2. stage \in {"reconciled", "profiled"} => \A c \in ToSet(chunks') : OfThisRun(c)'
    BY <2>1 DEF OfThisRun, ChunkInv
  <2> QED  BY <1>1, <1>2, <2>1, <2>2 DEF ChunkInv
<1>9. \/ OpenPdf \/ ChunkPaper \/ Reconcile \/ ProfileByModel \/ ProfileExtracted \/ IngestFails \/ UNCHANGED vars
      \/ run' = run /\ chunks' = chunks /\ stage' \in {"idle", "lines", "parsed", "stored", "carded"}
  BY DEF Next, Ingest, Over, SkipTitleLine, InlineAbstract, Heading, TextLine, NextLine, EndOfLines, ParseFails,
         Persist, SaveCard, Embed
<1> QED  BY <1>3, <1>4, <1>5, <1>6, <1>7, <1>7a, <1>8, <1>9

\* The write stores the chunks and the card of this run, and keeps the vectors
\* of those that kept their content.
LEMMA PersistStep ==
  ASSUME ChunkInv, StoredInv, ProfileInv, Persist
  PROVE  /\ StoredInv' /\ ToSet(chunks) \subseteq ToSet(stored')
         /\ \A c \in ToSet(stored') : c.id[1] = run \/ \E o \in ToSet(stored) : o.id = c.id /\ Content(o) = Content(c)
<1>1. /\ stage = "profiled" /\ stage' = "stored" /\ run' = run /\ run \in Nat
      /\ vectors' = Restrict(vectors, {c.id : c \in ToSet(stored')} \cap DOMAIN vectors)
  BY RunIs DEF Persist
<1>2. PICK a \in Seq(Rows) : a = chunks /\ Distinct(a) /\ \A c \in ToSet(a) : OfThisRun(c)
  BY <1>1 DEF ChunkInv
<1>3. PICK added \in Seq(Rows) : stored' = a \o added /\ \A i, k \in DOMAIN added : i = k /\ added[i].id = <<run, 0>>
  <2>1. PICK problem : stored' = chunks \o Card(<<run, 0>>, profile, problem)
    BY DEF Persist
  <2>2. <<run, 0>> \in Ids /\ profile \in Seq(Points)
    BY <1>1 DEF Ids, ProfileInv
  <2>3. Card(<<run, 0>>, profile, problem) = <<>> \/ \E c \in Rows : Card(<<run, 0>>, profile, problem) = <<c>> /\ c.id = <<run, 0>>
    BY <2>2, CardIs
  <2>4. CASE Card(<<run, 0>>, profile, problem) = <<>>
    BY <1>2, <2>1, <2>4, EmptyIs
  <2>5. CASE \E c \in Rows : Card(<<run, 0>>, profile, problem) = <<c>> /\ c.id = <<run, 0>>
    <3>1. PICK c \in Rows : Card(<<run, 0>>, profile, problem) = <<c>> /\ c.id = <<run, 0>>
      BY <2>5
    <3>2. <<c>> \in Seq(Rows) /\ DOMAIN <<c>> = {1} /\ <<c>>[1] = c
      BY SingleIs
    <3> QED  BY <1>2, <2>1, <3>1, <3>2
  <2> QED  BY <2>3, <2>4, <2>5
<1>4. PICK rows \in Seq(Rows) : rows = stored' /\ rows = a \o added
  <2>1. a \o added \in Seq(Rows)
    OBVIOUS
  <2> QED  BY <1>3, <2>1
<1>5. \A i \in DOMAIN rows : \/ i \in DOMAIN a /\ rows[i] = a[i]
                             \/ i - Len(a) \in DOMAIN added /\ rows[i] = added[i - Len(a)]
  BY <1>4, JoinedAt
<1>6. \A i \in DOMAIN a : i \in DOMAIN rows /\ rows[i] = a[i]
  BY <1>4
<1>7. ToSet(a) \subseteq ToSet(rows) /\ \A c \in ToSet(rows) : c \in ToSet(a) \/ c.id = <<run, 0>>
  <2>1. ToSet(a) \subseteq ToSet(rows)
    <3>1. ASSUME NEW i \in DOMAIN a
          PROVE  a[i] \in ToSet(rows)
      BY <1>6 DEF ToSet
    <3> QED  BY <3>1 DEF ToSet
  <2>2. ASSUME NEW i \in DOMAIN rows
        PROVE  rows[i] \in ToSet(a) \/ rows[i].id = <<run, 0>>
    <3>1. CASE i \in DOMAIN a /\ rows[i] = a[i]
      BY <3>1 DEF ToSet
    <3>2. CASE i - Len(a) \in DOMAIN added /\ rows[i] = added[i - Len(a)]
      BY <1>3, <3>2
    <3> QED  BY <1>5, <3>1, <3>2
  <2>3. \A c \in ToSet(rows) : \E i \in DOMAIN rows : rows[i] = c
    BY DEF ToSet
  <2> QED  BY <2>1, <2>2, <2>3
<1>8. ASSUME NEW o \in ToSet(stored)
      PROVE  o.id[1] < run
  BY <1>1 DEF StoredInv, Making
<1>9. ASSUME NEW c \in ToSet(a)
      PROVE  c.id # <<run, 0>> /\ c.id[1] <= run
  <2>1. CASE c.id[1] = run /\ c.id[2] # 0
    BY <1>1, <2>1
  <2>2. CASE \E o \in ToSet(stored) : o.id = c.id /\ Content(o) = Content(c)
    <3>1. PICK o \in ToSet(stored) : o.id = c.id
      BY <2>2
    <3>2. c.id[1] < run
      BY <1>8, <3>1
    <3>3. c \in Rows
      BY DEF ToSet
    <3>4. c.id[1] \in Nat
      BY <3>3 DEF Rows, Ids
    <3> QED  BY <1>1, <3>2, <3>4
  <2> QED  BY <1>2, <2>1, <2>2 DEF OfThisRun
<1>10. Distinct(rows)
  <2> SUFFICES ASSUME NEW i \in DOMAIN rows, NEW k \in DOMAIN rows, rows[i].id = rows[k].id
               PROVE  i = k
    BY DEF Distinct
  <2>1. \A j \in DOMAIN a : a[j].id # <<run, 0>>
    BY <1>9 DEF ToSet
  <2>2. CASE i \in DOMAIN a /\ rows[i] = a[i]
    <3>1. k \in DOMAIN a /\ rows[k] = a[k]
      BY <1>3, <1>5, <2>1, <2>2
    <3> QED  BY <1>2, <2>2, <3>1 DEF Distinct
  <2>3. CASE i - Len(a) \in DOMAIN added /\ rows[i] = added[i - Len(a)]
    <3>1. k - Len(a) \in DOMAIN added
      BY <1>3, <1>5, <2>1, <2>3
    <3>2. i - Len(a) = k - Len(a)
      BY <1>3, <2>3, <3>1
    <3>3. i \in Int /\ k \in Int /\ Len(a) \in Int
      OBVIOUS
    <3> QED  BY <3>2, <3>3
  <2> QED  BY <1>5, <2>2, <2>3
<1>11. ASSUME NEW o \in ToSet(rows)
       PROVE  o.id[1] <= run
  <2>1. o.id = <<run, 0>> => o.id[1] <= run
    BY <1>1
  <2> QED  BY <1>7, <1>9, <2>1
<1>12. /\ DOMAIN vectors' = IdsOf(rows) \cap DOMAIN vectors
       /\ \A x \in DOMAIN vectors' : vectors'[x] = vectors[x]
  BY <1>1, <1>4 DEF Restrict, IdsOf
<1>13. ASSUME NEW c \in ToSet(rows), c.id \in DOMAIN vectors'
       PROVE  vectors'[c.id] = Content(c)
  <2>1. PICK o \in ToSet(stored) : o.id = c.id
    BY <1>1, <1>12, <1>13 DEF StoredInv, IdsOf
  <2>2. c.id[1] < run
    BY <1>8, <2>1
  <2>3. c \in Rows
    BY DEF ToSet
  <2>4. c.id[1] \in Nat
    BY <2>3 DEF Rows, Ids
  <2>5. c.id[1] # run
    BY <1>1, <2>2, <2>4
  <2>6. c \in ToSet(a)
    BY <1>7, <2>5
  <2>7. PICK p \in ToSet(stored) : p.id = c.id /\ Content(p) = Content(c)
    BY <1>2, <2>5, <2>6 DEF OfThisRun
  <2>8. vectors[p.id] = Content(p)
    BY <1>12, <1>13, <2>7 DEF StoredInv
  <2> QED  BY <1>12, <1>13, <2>7, <2>8
<1>14. StoredInv'
  BY <1>1, <1>4, <1>10, <1>11, <1>12, <1>13 DEF StoredInv, Making
<1>15. ASSUME NEW c \in ToSet(rows)
       PROVE  c.id[1] = run \/ \E o \in ToSet(stored) : o.id = c.id /\ Content(o) = Content(c)
  <2>1. CASE c \in ToSet(a)
    BY <1>2, <2>1 DEF OfThisRun
  <2>2. CASE c.id = <<run, 0>>
    BY <2>2
  <2> QED  BY <1>7, <2>1, <2>2
<1> QED  BY <1>2, <1>4, <1>7, <1>14, <1>15

\* Embedding gives a vector to every stored row.
LEMMA EmbedStep ==
  ASSUME StoredInv, Embed
  PROVE  StoredInv'
<1>1. /\ stage = "carded" /\ stage' = "idle" /\ stored' = stored /\ run' = run
  BY DEF Embed
<1>2. PICK rows \in Seq(Rows) : rows = stored /\ Distinct(rows)
  BY DEF StoredInv
<1>3. PICK had : had = vectors
  OBVIOUS
<1> DEFINE open == Select(stored, LAMBDA c : c.id \notin DOMAIN vectors)
           batches == LengthBoundedBatches([i \in DOMAIN open |-> ContentLen(open[i])])
<1>4. PICK encoded \in {{open[i] : i \in ToSet(FlattenSeq(batches))}} :
        vectors' = [id \in DOMAIN vectors \cup {c.id : c \in encoded} |->
                      IF id \in DOMAIN vectors THEN vectors[id] ELSE Content(CHOOSE c \in encoded : c.id = id)]
  BY ZenonT(60) DEF Embed
<1>5. {open[i] : i \in ToSet(FlattenSeq(batches))} = Fresh(stored, DOMAIN vectors)
  <2>1. stored \in Seq(Rows)
    BY <1>2
  <2> QED  BY <2>1, EncodedAre
<1> HIDE DEF open, batches
<1>6. encoded = Fresh(rows, DOMAIN had)
  BY <1>2, <1>3, <1>4, <1>5
<1>7. PICK has : has = vectors'
  OBVIOUS
<1>8. /\ DOMAIN has = DOMAIN had \cup {c.id : c \in encoded}
      /\ \A x \in DOMAIN had : has[x] = had[x]
      /\ \A d \in encoded : d.id \notin DOMAIN had => \E c \in encoded : c.id = d.id /\ has[d.id] = Content(c)
  <2>1. DOMAIN has = DOMAIN had \cup {c.id : c \in encoded}
    BY <1>3, <1>4, <1>7
  <2>2. ASSUME NEW x \in DOMAIN had
        PROVE  has[x] = had[x]
    BY <1>3, <1>4, <1>7
  <2>3. ASSUME NEW d \in encoded, d.id \notin DOMAIN had
        PROVE  \E c \in encoded : c.id = d.id /\ has[d.id] = Content(c)
    <3> DEFINE e == CHOOSE c \in encoded : c.id = d.id
    <3>1. d.id \in DOMAIN vectors \cup {c.id : c \in encoded} /\ d.id \notin DOMAIN vectors
      BY <1>3, <2>3
    <3>2. has[d.id] = Content(e)
      BY <1>4, <1>7, <3>1
    <3>3. e \in encoded /\ e.id = d.id
      OBVIOUS
    <3> QED  BY <3>2, <3>3
  <2> QED  BY <2>1, <2>2, <2>3
<1>9. DOMAIN has = IdsOf(rows) /\ \A c \in ToSet(rows) : has[c.id] = Content(c)
  <2>1. DOMAIN had \subseteq IdsOf(rows) /\ \A c \in ToSet(rows) : c.id \in DOMAIN had => had[c.id] = Content(c)
    BY <1>2, <1>3 DEF StoredInv
  <2> QED  BY <1>2, <1>6, <1>8, <2>1, EmbedIs
<1>10. \A o \in ToSet(stored) : o.id[1] <= run
  BY DEF StoredInv
<1> QED  BY <1>1, <1>2, <1>7, <1>9, <1>10 DEF StoredInv, Making

\* Rows are written, and rows embedded, as they are.
LEMMA StoredStep ==
  ASSUME ReadInv, ParsedInv, ChunkInv, StoredInv, ProfileInv, [Next]_vars
  PROVE  StoredInv'
<1>1. run \in Nat
  BY RunIs
<1>2. CASE Persist
  BY <1>2, PersistStep
<1>3. CASE Embed
  BY <1>3, EmbedStep
<1>4. CASE OpenPdf
  <2>1. run' = run + 1 /\ stage' = "lines" /\ stored' = stored /\ vectors' = vectors
    BY <1>4 DEF OpenPdf
  <2>2. ASSUME NEW o \in ToSet(stored)
        PROVE  o.id[1] < run + 1 /\ o.id[1] <= run + 1
    <3>1. o.id[1] <= run
      BY DEF StoredInv
    <3>2. o \in Rows
      BY DEF StoredInv, ToSet
    <3>3. o.id[1] \in Nat
      BY <3>2 DEF Rows, Ids
    <3> QED  BY <1>1, <3>1, <3>3
  <2> QED  BY <2>1, <2>2 DEF StoredInv, Making
<1>5. CASE /\ run' = run /\ stored' = stored /\ vectors' = vectors
           /\ stage' = stage \/ (stage' # "idle" /\ (stage' \in Making => stage \in Making))
  BY <1>5 DEF StoredInv
<1>6. \/ Persist \/ Embed \/ OpenPdf
      \/ /\ run' = run /\ stored' = stored /\ vectors' = vectors
         /\ stage' = stage \/ (stage' # "idle" /\ (stage' \in Making => stage \in Making))
  <2>1. CASE SkipTitleLine \/ InlineAbstract \/ Heading \/ TextLine \/ EndOfLines \/ ParseFails
    BY <2>1 DEF SkipTitleLine, InlineAbstract, Heading, TextLine, NextLine, EndOfLines, ParseFails, Making
  <2>2. CASE ChunkPaper \/ Reconcile \/ ProfileByModel \/ ProfileExtracted \/ SaveCard \/ IngestFails
    BY <2>2 DEF ChunkPaper, Reconcile, ProfileByModel, ProfileExtracted, SaveCard, IngestFails, Making
  <2>3. CASE UNCHANGED vars
    BY <2>3 DEF vars
  <2> QED  BY <2>1, <2>2, <2>3 DEF Next, Ingest, Over
<1> QED  BY <1>2, <1>3, <1>4, <1>5, <1>6

\* What a model says of the evidence opens it.
LEMMA ModelStep ==
  ASSUME ChunkInv, ProfileByModel
  PROVE  profile' \in Seq(GoodPoints(chunks))
<1>1. PICK cs \in Seq(Rows) : cs = chunks
  BY DEF ChunkInv
<1>2. PICK pack \in Seq(Rows) : pack = SelectProfileEvidence(cs) /\ ToSet(pack) \subseteq ToSet(cs)
  BY SelectProfileEvidenceIs
<1>9. PICK pk \in {SelectProfileEvidence(chunks)} :
        \E n \in {0, 1, Len(pk), Len(pk) + 1}, says, quote \in Sayings \cup {NoLine} :
          profile' = GroundAll(<<[field |-> "limitations", number |-> n, says |-> says, quote |-> quote]>>, pk)
  BY DEF ProfileByModel
<1>10. pk = pack
  BY <1>1, <1>2
<1>3. PICK n \in {0, 1, Len(pk), Len(pk) + 1}, says \in Sayings \cup {NoLine}, quote \in Sayings \cup {NoLine} :
        profile' = GroundAll(<<[field |-> "limitations", number |-> n, says |-> says, quote |-> quote]>>, pk)
  BY <1>9
<1>4. PICK point : point = [field |-> "limitations", number |-> n, says |-> says, quote |-> quote]
  OBVIOUS
<1>5. point.field \in ToSet(Fields) /\ point.says \in Labels /\ point.quote \in Labels
  <2>1. "limitations" \in ToSet(Fields)
    BY DEF Fields, ToSet
  <2> QED  BY <1>4, <2>1 DEF Labels
<1>6. Ground(point, pack) \in GoodPoints(cs)
  BY <1>2, <1>5, GroundIs
<1>7. DOMAIN <<point>> = {1} /\ <<point>>[1] = point
  BY SingleIs
<1>8. profile' = <<Ground(point, pack)>>
  <2>1. GroundAll(<<point>>, pack) = [i \in {1} |-> Ground(point, pack)]
    BY <1>7 DEF GroundAll
  <2>2. [i \in {1} |-> Ground(point, pack)] = <<Ground(point, pack)>>
    OBVIOUS
  <2>3. profile' = GroundAll(<<point>>, pack)
    BY <1>3, <1>4, <1>10
  <2> QED  BY <2>1, <2>2, <2>3
<1> QED  BY <1>1, <1>6, <1>8, SingleIs

\* Points open chunks when they are made, and the stored rows with the chunks.
LEMMA ProfileStep ==
  ASSUME ChunkInv, StoredInv, ProfileInv, [Next]_vars
  PROVE  ProfileInv'
<1>1. CASE OpenPdf \/ IngestFails
  <2>1. profile' = <<>> /\ stage' \in {"lines", "failed"}
    BY <1>1 DEF OpenPdf, IngestFails
  <2> QED  BY <2>1, EmptyIs DEF ProfileInv
<1>2. CASE ProfileByModel \/ ProfileExtracted
  <2>1. chunks' = chunks /\ stage' = "profiled"
    BY <1>2 DEF ProfileByModel, ProfileExtracted
  <2>2. chunks \in Seq(Rows)
    BY DEF ChunkInv
  <2>3. profile' \in Seq(GoodPoints(chunks))
    <3>1. CASE ProfileByModel
      BY <3>1, ModelStep
    <3>2. CASE ProfileExtracted
      <4>1. profile' = ExtractiveProfile(chunks)
        BY <3>2 DEF ProfileExtracted
      <4> QED  BY <2>2, <4>1, ExtractiveProfileIs
    <3> QED  BY <1>2, <3>1, <3>2
  <2>4. PICK G : G = GoodPoints(chunks)
    OBVIOUS
  <2>5. profile' \in Seq(G) /\ \A p \in G : p \in Points /\ Opens(p, chunks)
    BY <2>3, <2>4 DEF GoodPoints
  <2>6. profile' \in Seq(Points) /\ \A p \in ToSet(profile') : Opens(p, chunks)
    <3>1. PICK ps \in Seq(G) : ps = profile'
      BY <2>5
    <3>2. \A i \in DOMAIN ps : ps[i] \in Points /\ Opens(ps[i], chunks)
      BY <2>5, MemberIs
    <3>3. ps \in Seq(Points)
      BY <3>2
    <3> QED  BY <3>1, <3>2, <3>3 DEF ToSet
  <2> QED  BY <2>1, <2>6 DEF ProfileInv
<1>3. CASE Persist
  <2>1. /\ ToSet(chunks) \subseteq ToSet(stored') /\ stage = "profiled" /\ stage' = "stored" /\ profile' = profile
    BY <1>3, PersistStep DEF Persist
  <2>2. \A p \in ToSet(profile) : Opens(p, chunks)
    BY <2>1 DEF ProfileInv
  <2>3. \A p \in ToSet(profile) : Opens(p, stored')
    BY <2>1, <2>2 DEF Opens
  <2> QED  BY <2>1, <2>3 DEF ProfileInv
<1>4. CASE SaveCard \/ Embed
  <2>1. stage' \in {"carded", "idle"} /\ profile' = profile
    BY <1>4 DEF SaveCard, Embed
  <2> QED  BY <2>1 DEF ProfileInv
<1>5. CASE /\ profile' = profile /\ stored' = stored /\ chunks' = chunks
           /\ stage' = stage \/ stage' \notin {"profiled", "stored"}
  BY <1>5 DEF ProfileInv
<1>6. CASE /\ profile' = profile /\ stage' \in {"failed", "chunked", "reconciled"}
  BY <1>6 DEF ProfileInv
<1>7. \/ OpenPdf \/ ProfileByModel \/ ProfileExtracted \/ Persist \/ SaveCard \/ Embed \/ IngestFails
      \/ /\ profile' = profile /\ stored' = stored /\ chunks' = chunks
         /\ stage' = stage \/ stage' \notin {"profiled", "stored"}
      \/ profile' = profile /\ stage' \in {"failed", "chunked", "reconciled"}
  <2>1. CASE SkipTitleLine \/ InlineAbstract \/ Heading \/ TextLine \/ EndOfLines \/ ParseFails
    BY <2>1 DEF SkipTitleLine, InlineAbstract, Heading, TextLine, NextLine, EndOfLines, ParseFails
  <2>2. CASE ChunkPaper \/ Reconcile
    BY <2>2 DEF ChunkPaper, Reconcile
  <2>3. CASE UNCHANGED vars
    BY <2>3 DEF vars
  <2> QED  BY <2>1, <2>2, <2>3 DEF Next, Ingest, Over
<1> QED  BY <1>1, <1>2, <1>3, <1>4, <1>5, <1>6, <1>7

\* A row of the name a point has told the words of the point before the write.
LEMMA WordsKept ==
  ASSUME CardInv, NEW p \in ToSet(card), p.chunk # NoChunk, p.grounded, NEW c, c.id = p.chunk,
         NEW o \in ToSet(stored), o.id = c.id, Content(o) = Content(c)
  PROVE  Words(p) \in Lines(c.text)
<1>1. Says(p, stored)
  BY DEF CardInv
<1>2. Words(p) \in Lines(o.text)
  BY <1>1 DEF Says
<1>3. o.text = c.text
  BY DEF Content
<1> QED  BY <1>2, <1>3

\* A point of the card names a chunk by its id.
LEMMA CardIds ==
  ASSUME CardInv, NEW p \in ToSet(card), p.chunk # NoChunk
  PROVE  p.chunk \in Ids /\ p.chunk[1] \in Nat
<1>1. card \in Seq(Points)
  BY DEF CardInv
<1>2. p \in Points
  BY <1>1 DEF ToSet
<1> QED  BY <1>2 DEF Points, Ids

\* The chunks are written: what the old card names is gone or as it was.
LEMMA CardAtPersist ==
  ASSUME ChunkInv, StoredInv, ProfileInv, CardInv, Persist
  PROVE  CardInv'
<1>1. stage = "profiled" /\ stage' = "stored" /\ run' = run /\ card' = card /\ torn' = TRUE
  BY DEF Persist
<1>2. \A c \in ToSet(stored') : c.id[1] = run \/ \E o \in ToSet(stored) : o.id = c.id /\ Content(o) = Content(c)
  BY PersistStep
<1>3. ASSUME NEW p \in ToSet(card)
      PROVE  OfARun(p)' /\ Says(p, stored')
  <2>1. OfARun(p)
    BY DEF CardInv
  <2>2. OfARun(p)'
    BY <1>1, <2>1 DEF OfARun, Making
  <2>3. ASSUME p.chunk # NoChunk, p.grounded, NEW c \in ToSet(stored'), c.id = p.chunk
        PROVE  Words(p) \in Lines(c.text)
    <3>1. p.chunk[1] < run /\ p.chunk[1] \in Nat
      BY <1>1, <2>1, <2>3, CardIds DEF OfARun, Making
    <3>2. run \in Nat
      BY RunIs
    <3>3. c.id[1] # run
      BY <2>3, <3>1, <3>2
    <3>4. PICK o \in ToSet(stored) : o.id = c.id /\ Content(o) = Content(c)
      BY <1>2, <3>3
    <3> QED  BY <2>3, <3>4, WordsKept
  <2> QED  BY <2>2, <2>3 DEF Says
<1>4. card \in Seq(Points)
  BY DEF CardInv
<1> QED  BY <1>1, <1>3, <1>4 DEF CardInv

\* The card is written: each point opens a row, the only one of its name.
LEMMA CardAtSave ==
  ASSUME ChunkInv, StoredInv, ProfileInv, SaveCard
  PROVE  CardInv'
<1>1. stage = "stored" /\ stage' = "carded" /\ run' = run /\ card' = profile /\ torn' = FALSE /\ stored' = stored
  BY DEF SaveCard
<1>2. profile \in Seq(Points) /\ \A p \in ToSet(profile) : Opens(p, stored)
  BY <1>1 DEF ProfileInv
<1>3. \A c, d \in ToSet(stored) : c.id = d.id => c = d
  BY DEF StoredInv, Distinct, ToSet
<1>4. ASSUME NEW p \in ToSet(profile)
      PROVE  OfARun(p)' /\ Says(p, stored)
  <2>1. CASE p.chunk = NoChunk
    BY <2>1 DEF OfARun, Says
  <2>2. CASE p.chunk # NoChunk
    <3>1. PICK c \in ToSet(stored) : c.id = p.chunk /\ (p.grounded => Words(p) \in Lines(c.text))
      BY <1>2, <2>2 DEF Opens, Words
    <3>2. c.id[1] <= run
      BY DEF StoredInv
    <3>3. OfARun(p)'
      BY <1>1, <3>1, <3>2 DEF OfARun, Making
    <3>4. Says(p, stored)
      BY <1>3, <3>1 DEF Says
    <3> QED  BY <3>3, <3>4
  <2> QED  BY <2>1, <2>2
<1> QED  BY <1>1, <1>2, <1>4 DEF CardInv

\* The stored card is left alone by every other step.
LEMMA CardStep ==
  ASSUME ChunkInv, StoredInv, ProfileInv, CardInv, [Next]_vars
  PROVE  CardInv'
<1>1. CASE OpenPdf
  <2>1. run' = run + 1 /\ stage' = "lines" /\ card' = card /\ torn' = torn /\ stored' = stored
    BY <1>1 DEF OpenPdf
  <2>2. ASSUME NEW p \in ToSet(card)
        PROVE  OfARun(p)'
    <3>1. CASE p.chunk = NoChunk
      BY <3>1 DEF OfARun
    <3>2. CASE p.chunk # NoChunk
      <4>1. p.chunk[1] <= run /\ p.chunk[1] \in Nat /\ run \in Nat
        BY <3>2, CardIds, RunIs DEF CardInv, OfARun
      <4>2. p.chunk[1] <= run + 1 /\ p.chunk[1] < run + 1
        BY <4>1
      <4> QED  BY <2>1, <4>2 DEF OfARun
    <3> QED  BY <3>1, <3>2
  <2> QED  BY <2>1, <2>2 DEF CardInv
<1>2. CASE Persist
  BY <1>2, CardAtPersist
<1>3. CASE SaveCard
  BY <1>3, CardAtSave
<1>4. CASE /\ run' = run /\ stored' = stored /\ card' = card /\ torn' = torn
           /\ stage' \in Making => stage \in Making
  <2>1. \A p \in ToSet(card) : OfARun(p)'
    BY <1>4 DEF CardInv, OfARun
  <2> QED  BY <1>4, <2>1 DEF CardInv
<1>5. \/ OpenPdf \/ Persist \/ SaveCard
      \/ /\ run' = run /\ stored' = stored /\ card' = card /\ torn' = torn
         /\ stage' \in Making => stage \in Making
  <2>1. CASE SkipTitleLine \/ InlineAbstract \/ Heading \/ TextLine \/ EndOfLines \/ ParseFails
    BY <2>1 DEF SkipTitleLine, InlineAbstract, Heading, TextLine, NextLine, EndOfLines, ParseFails, Making
  <2>2. CASE ChunkPaper \/ Reconcile \/ ProfileByModel \/ ProfileExtracted \/ Embed \/ IngestFails
    BY <2>2 DEF ChunkPaper, Reconcile, ProfileByModel, ProfileExtracted, Embed, IngestFails, Making
  <2>3. CASE UNCHANGED vars
    BY <2>3 DEF vars
  <2> QED  BY <2>1, <2>2, <2>3 DEF Next, Ingest, Over
<1> QED  BY <1>1, <1>2, <1>3, <1>4, <1>5

-----------------------------------------------------------------------------
(* Theorems                                                                 *)

\* Before the first ingest nothing is read, made or stored.
LEMMA PaperInit == Init => PaperInv
<1> SUFFICES ASSUME Init
             PROVE  PaperInv
  OBVIOUS
<1>1. /\ paper \in Papers /\ stage = "idle" /\ run = 0 /\ lines = <<>> /\ title = {} /\ body = 0
      /\ at = 1 /\ sections = FrontMatter /\ pending = <<>> /\ inline = FALSE
      /\ failed = {} /\ parsed = NotParsed /\ chunks = <<>> /\ profile = <<>> /\ stored = <<>> /\ vectors = <<>>
      /\ card = <<>> /\ torn = FALSE
  BY DEF Init
<1>2. DOMAIN <<>> = {} /\ Len(<<>>) = 0 /\ ToSet(<<>>) = {}
  BY EmptyIs DEF ToSet
<1>3. ReadInv
  <2>1. <<>> \in Seq(PaperLines) /\ Rising(<<>>) /\ Within(<<>>, Pages)
    BY <1>2, EmptyIs DEF Rising, Within
  <2>2. InSections(sections, Pages) /\ InPending(pending, Pages)
    BY <1>1, FrontMatterIs, NothingPending
  <2>3. at \in 1 .. Len(lines) + 1
    BY <1>1, <1>2
  <2>4. body \in Nat /\ inline \in BOOLEAN /\ title \subseteq Names /\ failed \subseteq Pages
    BY <1>1
  <2> QED  BY <1>1, <1>2, <2>1, <2>2, <2>3, <2>4 DEF ReadInv
<1>4. ParsedInv
  BY <1>1 DEF ParsedInv
<1>5. run \in 0 .. MaxRuns
  BY <1>1, RunsAssumption
<1>6. <<>> \in Seq(Rows) /\ <<>> \in Seq(Points)
  BY EmptyIs
<1>7. ChunkInv
  BY <1>1, <1>2, <1>5, <1>6 DEF ChunkInv
<1>8. StoredInv
  <2>1. IdsOf(stored) = {}
    BY <1>1, <1>2 DEF IdsOf
  <2> QED  BY <1>1, <1>2, <1>6, <2>1 DEF StoredInv, Distinct, Making
<1>9. ProfileInv
  BY <1>1, <1>2, <1>6 DEF ProfileInv
<1>10. CardInv
  BY <1>1, <1>2, <1>6 DEF CardInv
<1> QED  BY <1>3, <1>4, <1>7, <1>8, <1>9, <1>10 DEF PaperInv

\* What the proofs below rest on holds in every state of every paper: the
\* parser reads page by page, the rows made are named apart, the rows stored
\* are of runs before, and vectors and points are of what is stored.
THEOREM PaperInvHolds == Spec => []PaperInv
<1>1. Init => PaperInv
  BY PaperInit
<1>2. PaperInv /\ [Next]_vars => PaperInv'
  BY ReadStep, ParsedStep, ChunkStep, StoredStep, ProfileStep, CardStep DEF PaperInv
<1> QED  BY <1>1, <1>2, PTL DEF Spec

\* Every variable of the ingest of a paper has its type: sections and chunks are
\* of the types the pipeline knows, positions and pages are in range.
THEOREM PaperTypes == Spec => []TypeOK
<1>1. PaperInv => TypeOK
  <2> SUFFICES ASSUME PaperInv
               PROVE  TypeOK
    OBVIOUS
  <2>1. /\ run \in 0 .. MaxRuns
        /\ stage \in {"idle", "lines", "parsed", "chunked", "reconciled", "profiled", "stored", "carded", "failed"}
    BY DEF PaperInv, ChunkInv
  <2>2. /\ at \in 1 .. Len(lines) + 1 /\ inline \in BOOLEAN /\ body \in Nat
        /\ failed \subseteq 1 .. paper.pages /\ title \subseteq DOMAIN Look
    BY DEF PaperInv, ReadInv, Pages, Names
  <2>3. \A s \in ToSet(sections) : s.type \in SectionTypes /\ s.level \in 1 .. 4
    <3>1. sections \in Seq(Sections)
      BY DEF PaperInv, ReadInv, InSections
    <3>2. \A s \in Sections : s.type \in SectionTypes /\ s.level \in 1 .. 4
      BY DEF Sections
    <3> QED  BY <3>1, <3>2 DEF ToSet
  <2>4. \A c \in ToSet(chunks) : c.first \in 0 .. paper.pages /\ c.last \in c.first .. paper.pages
    <3> SUFFICES ASSUME NEW c \in ToSet(chunks)
                 PROVE  c.first \in 0 .. paper.pages /\ c.last \in c.first .. paper.pages
      OBVIOUS
    <3>1. Spans(c, 0 .. paper.pages)
      BY DEF PaperInv, ChunkInv, ToSet
    <3> QED  BY <3>1 DEF Spans
  <2>5. /\ \A p \in ToSet(profile \o card) : p.field \in ToSet(Fields) /\ p.grounded \in BOOLEAN
        /\ torn \in BOOLEAN
    <3>1. profile \in Seq(Points) /\ card \in Seq(Points) /\ torn \in BOOLEAN
      BY DEF PaperInv, ProfileInv, CardInv
    <3>2. \A p \in Points : p.field \in ToSet(Fields) /\ p.grounded \in BOOLEAN
      BY DEF Points
    <3>3. ToSet(profile \o card) \subseteq Points
      BY <3>1, ConcatHas DEF ToSet
    <3> QED  BY <3>1, <3>2, <3>3
  <2>6. DOMAIN vectors \subseteq {c.id : c \in ToSet(stored)}
    BY DEF PaperInv, StoredInv, IdsOf
  <2> QED  BY <2>1, <2>2, <2>3, <2>4, <2>5, <2>6 DEF TypeOK
<1> QED  BY <1>1, PaperInvHolds, PTL

\* A point of the stored card opens a stored chunk, unless an ingest has
\* committed its chunks and not its card, and a chunk it opens has the words the
\* point is said to be grounded in: through the choice of evidence, the model's
\* numbering, the ids adopted, the two writes and a failure at any step, for
\* every paper, every size of a chunk and every number of ingests.
THEOREM StoredPointsOpen == Spec => []PointsOpenTheirChunk
<1>1. PaperInv => PointsOpenTheirChunk
  <2> SUFFICES ASSUME CardInv, NEW p \in ToSet(card), p.chunk # NoChunk
               PROVE  /\ torn \/ \E c \in ToSet(stored) : c.id = p.chunk
                      /\ p.grounded => \A c \in ToSet(stored) : c.id = p.chunk => Words(p) \in Lines(c.text)
    BY DEF PaperInv, PointsOpenTheirChunk, Words
  <2>1. Says(p, stored) /\ (~torn => Opens(p, stored))
    BY DEF CardInv
  <2> QED  BY <2>1 DEF Says, Opens
<1> QED  BY <1>1, PaperInvHolds, PTL

\* After every ingest each stored chunk has a vector of its own text, and no
\* vector is left of one that is gone: whichever chunks kept their ids and
\* however the batches fell.
THEOREM StoredAreEmbedded == Spec => []Embedded
<1>1. PaperInv => Embedded
  BY DEF PaperInv, StoredInv, Embedded, IdsOf
<1> QED  BY <1>1, PaperInvHolds, PTL
=============================================================================
