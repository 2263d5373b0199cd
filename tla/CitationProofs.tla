--------------------------- MODULE CitationProofs ---------------------------
(***************************************************************************)
(* Proofs about Citations, for lists of any length over any set: a marker  *)
(* that survives opens what it was made for, and nothing is ever put in    *)
(* the place of a citation that was dropped.                               *)
(*                                                                         *)
(* Two members of a list have different positions, because the one that is *)
(* seen first counts fewer members; so the CHOOSE of Listing finds the one *)
(* it is looking for, and the positions, being as many as the members, are *)
(* all taken.                                                              *)
(*                                                                         *)
(* Then the operators of Lists: what a list by positions holds, in which   *)
(* order, how long it is, and that sorting loses and repeats nothing.      *)
(***************************************************************************)
EXTENDS Citations, FiniteSetTheorems, SequenceTheorems, WellFoundedInduction, TLAPS

\* First(s, x) is a place of x in s.
LEMMA FirstIsThere ==
  ASSUME NEW S, NEW s \in Seq(S), NEW x \in ToSet(s)
  PROVE  First(s, x) \in DOMAIN s /\ s[First(s, x)] = x
<1> DEFINE P == {i \in DOMAIN s : s[i] = x}
<1>1. P # {} /\ P \subseteq Nat
  BY DEF ToSet
<1>2. PICK i \in P : \A j \in P : ~(<<j, i>> \in OpToRel(<, Nat))
  BY <1>1, NatLessThanWellFounded, WFMin, Zenon
<1>3. \A j \in P : i <= j
  <2> SUFFICES ASSUME NEW j \in P PROVE i <= j
    OBVIOUS
  <2>1. i \in Nat /\ j \in Nat /\ <<j, i>> \in Nat \X Nat
    BY <1>1
  <2>2. ~(j < i)
    BY <1>2, <2>1 DEF OpToRel
  <2> QED  BY <2>1, <2>2
<1>4. \E k \in DOMAIN s : s[k] = x /\ \A j \in DOMAIN s : s[j] = x => k <= j
  BY <1>3
<1> QED  BY <1>4 DEF First

\* A list has finitely many members.
LEMMA SeenIsFinite ==
  ASSUME NEW S, NEW s \in Seq(S), NEW ok
  PROVE  /\ IsFiniteSet(ToSet(s)) /\ IsFiniteSet(Seen(s, ok))
         /\ Cardinality(Seen(s, ok)) \in Nat
<1>1. s \in Surjection(1 .. Len(s), ToSet(s))
  BY DEF Surjection, ToSet
<1>2. IsFiniteSet(1 .. Len(s))
  BY FS_Interval
<1>3. IsFiniteSet(ToSet(s))
  BY <1>1, <1>2, FS_Surjection
<1>4. Seen(s, ok) \in SUBSET ToSet(s)
  BY DEF Seen
<1>5. IsFiniteSet(Seen(s, ok))
  BY <1>3, <1>4, FS_Subset
<1> QED  BY <1>3, <1>5, FS_CardinalityType

\* Positions number the list.
LEMMA PositionInRange ==
  ASSUME NEW S, NEW s \in Seq(S), NEW ok, NEW x \in Seen(s, ok)
  PROVE  Position(s, ok, x) \in 1 .. Cardinality(Seen(s, ok))
<1> DEFINE Before == {y \in Seen(s, ok) : First(s, y) <= First(s, x)}
<1>1. IsFiniteSet(Seen(s, ok)) /\ Cardinality(Seen(s, ok)) \in Nat
  BY SeenIsFinite
<1>2. Before \in SUBSET Seen(s, ok)
  OBVIOUS
<1>3. IsFiniteSet(Before) /\ Cardinality(Before) <= Cardinality(Seen(s, ok))
  BY <1>1, <1>2, FS_Subset
<1>4. First(s, x) \in Nat
  BY FirstIsThere DEF Seen
<1>5. x \in Before
  BY <1>4
<1>6. Cardinality(Before) \in Nat /\ Cardinality(Before) # 0
  BY <1>3, <1>5, FS_EmptySet, FS_CardinalityType
<1> QED  BY <1>1, <1>3, <1>6 DEF Position

\* What is seen earlier has the lower position.
LEMMA PositionIncreases ==
  ASSUME NEW S, NEW s \in Seq(S), NEW ok, NEW x \in Seen(s, ok), NEW y \in Seen(s, ok),
         First(s, x) < First(s, y)
  PROVE  Position(s, ok, x) < Position(s, ok, y)
<1> DEFINE Upto(z) == {v \in Seen(s, ok) : First(s, v) <= First(s, z)}
<1>1. \A v \in Seen(s, ok) : First(s, v) \in Nat
  BY FirstIsThere DEF Seen
<1>2. Upto(x) \in SUBSET Upto(y)
  BY <1>1
<1>3. y \in Upto(y) /\ y \notin Upto(x)
  BY <1>1
<1>4. IsFiniteSet(Upto(y))
  <2>1. Upto(y) \in SUBSET Seen(s, ok)  OBVIOUS
  <2> QED  BY <2>1, SeenIsFinite, FS_Subset
<1>5. /\ Cardinality(Upto(x)) <= Cardinality(Upto(y))
      /\ Cardinality(Upto(x)) # Cardinality(Upto(y))
  BY <1>2, <1>3, <1>4, FS_Subset
<1>6. Cardinality(Upto(x)) \in Nat /\ Cardinality(Upto(y)) \in Nat
  BY <1>2, <1>4, FS_Subset, FS_CardinalityType
<1>7. Cardinality(Upto(x)) < Cardinality(Upto(y))
  BY <1>5, <1>6
<1> QED  BY <1>7 DEF Position

\* No position is given twice.
LEMMA PositionInjective ==
  ASSUME NEW S, NEW s \in Seq(S), NEW ok, NEW x \in Seen(s, ok), NEW y \in Seen(s, ok),
         Position(s, ok, x) = Position(s, ok, y)
  PROVE  x = y
<1>1. /\ First(s, x) \in Nat /\ First(s, y) \in Nat
      /\ s[First(s, x)] = x /\ s[First(s, y)] = y
  BY FirstIsThere DEF Seen
<1>2. Position(s, ok, x) \in Nat
  BY PositionInRange, SeenIsFinite
<1>3. CASE First(s, x) < First(s, y)
  BY <1>2, <1>3, PositionIncreases
<1>4. CASE First(s, y) < First(s, x)
  BY <1>2, <1>4, PositionIncreases
<1> QED  BY <1>1, <1>3, <1>4

\* What resolves is in the list, at its position.
LEMMA ListingFinds ==
  ASSUME NEW S, NEW s \in Seq(S), NEW ok, NEW x \in Seen(s, ok)
  PROVE  /\ Position(s, ok, x) \in DOMAIN Listing(s, ok)
         /\ Listing(s, ok)[Position(s, ok, x)] = x
<1> DEFINE p == Position(s, ok, x)
<1>1. p \in 1 .. Cardinality(Seen(s, ok))
  BY PositionInRange
<1>2. (CHOOSE y \in Seen(s, ok) : Position(s, ok, y) = p) = x
  BY PositionInjective
<1> QED  BY <1>1, <1>2 DEF Listing

\* Every place of the list is taken by one that resolves, and no two by the same.
LEMMA ListingIsExact ==
  ASSUME NEW S, NEW s \in Seq(S), NEW ok, NEW p \in DOMAIN Listing(s, ok)
  PROVE  /\ Listing(s, ok)[p] \in Seen(s, ok)
         /\ Position(s, ok, Listing(s, ok)[p]) = p
<1> DEFINE N == Cardinality(Seen(s, ok))
           f == [x \in Seen(s, ok) |-> Position(s, ok, x)]
<1>1. N \in Nat /\ IsFiniteSet(1 .. N) /\ Cardinality(1 .. N) = N
  BY SeenIsFinite, FS_Interval
<1>2. p \in 1 .. N
  BY DEF Listing
<1>3. f \in Injection(Seen(s, ok), 1 .. N)
  <2>1. f \in [Seen(s, ok) -> 1 .. N]
    BY PositionInRange
  <2>2. \A x, y \in Seen(s, ok) : f[x] = f[y] => x = y
    BY PositionInjective
  <2> QED  BY <2>1, <2>2 DEF Injection, IsInjective
<1>4. f \in Surjection(Seen(s, ok), 1 .. N)
  BY <1>1, <1>3, FS_Injection
<1>5. \E x \in Seen(s, ok) : Position(s, ok, x) = p
  BY <1>2, <1>4 DEF Surjection
<1> QED  BY <1>2, <1>5 DEF Listing

-----------------------------------------------------------------------------

\* The backend: a marker whose citation survives opens the chunk it was sent for,
\* whichever other citations were dropped.
THEOREM AlignedMarkerOpensItsChunk ==
  ASSUME NEW S, NEW raw \in Seq(S), NEW present, NEW n \in Mapped(raw, present)
  PROVE  /\ Mapping(raw, present, n) \in DOMAIN AlignedCitations(raw, present)
         /\ AlignedCitations(raw, present)[Mapping(raw, present, n)] = raw[n]
<1>1. raw[n] \in Seen(raw, present)
  BY DEF Mapped, Seen, ToSet
<1> QED  BY <1>1, ListingFinds DEF Mapping, AlignedCitations

\* The backend never shows a chunk it was not sent, one that is gone or out of
\* scope, or one twice: other evidence is never substituted.
THEOREM AlignedCitationsAreSound ==
  ASSUME NEW S, NEW raw \in Seq(S), NEW present
  PROVE  LET shown == AlignedCitations(raw, present)
         IN /\ \A p \in DOMAIN shown : shown[p] \in ToSet(raw) /\ shown[p] \in present
            /\ \A p, q \in DOMAIN shown : shown[p] = shown[q] => p = q
<1> DEFINE shown == AlignedCitations(raw, present)
<1>1. ASSUME NEW p \in DOMAIN shown
      PROVE  shown[p] \in Seen(raw, present) /\ Position(raw, present, shown[p]) = p
  BY ListingIsExact DEF AlignedCitations
<1> QED  BY <1>1 DEF Seen

\* The AI service: an evidence number that was shown to the model gets the place
\* of its chunk in the list of citations.
THEOREM DraftMarkerOpensItsEvidence ==
  ASSUME NEW S, NEW pack \in Seq(S), NEW marks \in Seq(Nat), NEW claimed \in Seq(Nat),
         NEW n \in ToSet(marks \o claimed), n \in Numbers(pack)
  PROVE  LET m == Position(marks \o claimed, Numbers(pack), n)
         IN /\ m \in DOMAIN DraftCitations(pack, marks, claimed)
            /\ DraftCitations(pack, marks, claimed)[m] = pack[n]
<1>1. marks \o claimed \in Seq(Nat)
  OBVIOUS
<1>2. n \in Seen(marks \o claimed, Numbers(pack))
  BY DEF Seen
<1> QED  BY <1>1, <1>2, ListingFinds DEF DraftCitations, DraftOrder

\* From the draft to the answer that is stored: if the chunk behind [Evidence n]
\* is still there when the backend looks, the marker made of it opens that chunk.
THEOREM MarkerSurvivesBothRenumberings ==
  ASSUME NEW S, NEW pack \in Seq(S), NEW marks \in Seq(Nat), NEW claimed \in Seq(Nat),
         NEW present,
         NEW n \in ToSet(marks \o claimed), n \in Numbers(pack), pack[n] \in present
  PROVE  LET raw == DraftCitations(pack, marks, claimed)
             m   == Position(marks \o claimed, Numbers(pack), n)
         IN /\ m \in Mapped(raw, present)
            /\ AlignedCitations(raw, present)[Mapping(raw, present, m)] = pack[n]
<1> DEFINE all == marks \o claimed
           raw == DraftCitations(pack, marks, claimed)
           m   == Position(all, Numbers(pack), n)
<1>1. all \in Seq(Nat)
  OBVIOUS
<1>2. m \in DOMAIN raw /\ raw[m] = pack[n]
  BY DraftMarkerOpensItsEvidence
<1>3. raw \in Seq(S)
  <2>1. \A p \in DOMAIN Listing(all, Numbers(pack)) : Listing(all, Numbers(pack))[p] \in Numbers(pack)
    BY <1>1, ListingIsExact DEF Seen
  <2>2. \A p \in DOMAIN Listing(all, Numbers(pack)) : pack[Listing(all, Numbers(pack))[p]] \in S
    BY <2>1 DEF Numbers
  <2>3. Cardinality(Seen(all, Numbers(pack))) \in Nat
    BY <1>1, SeenIsFinite
  <2>4. DOMAIN Listing(all, Numbers(pack)) = 1 .. Cardinality(Seen(all, Numbers(pack)))
    BY DEF Listing
  <2> QED  BY <2>2, <2>3, <2>4, SMTT(30) DEF DraftCitations, DraftOrder
<1>4. m \in Mapped(raw, present)
  BY <1>2 DEF Mapped
<1> QED  BY <1>2, <1>3, <1>4, AlignedMarkerOpensItsChunk

-----------------------------------------------------------------------------
(* What is left of a list                                                   *)

\* How many members of I come no later than i.
Rank(I, i) == Cardinality({j \in I : j <= i})

\* Ranks of members of a finite set count from one, and grow.
LEMMA RankGrows ==
  ASSUME NEW I \in SUBSET Nat, IsFiniteSet(I)
  PROVE  /\ Cardinality(I) \in Nat
         /\ \A i \in I : Rank(I, i) \in 1 .. Cardinality(I)
         /\ \A i, k \in I : i < k => Rank(I, i) < Rank(I, k)
<1> DEFINE Upto(i) == {j \in I : j <= i}
<1>1. Cardinality(I) \in Nat
  BY FS_CardinalityType
<1>2. ASSUME NEW i \in I
      PROVE  /\ IsFiniteSet(Upto(i)) /\ Cardinality(Upto(i)) \in Nat
             /\ Cardinality(Upto(i)) \in 1 .. Cardinality(I)
  <2>1. Upto(i) \in SUBSET I
    OBVIOUS
  <2>2. IsFiniteSet(Upto(i)) /\ Cardinality(Upto(i)) <= Cardinality(I)
    BY <2>1, FS_Subset
  <2>3. i \in Upto(i)
    OBVIOUS
  <2>4. Cardinality(Upto(i)) \in Nat /\ Cardinality(Upto(i)) # 0
    BY <2>2, <2>3, FS_EmptySet, FS_CardinalityType
  <2> QED  BY <1>1, <2>2, <2>4
<1>3. ASSUME NEW i \in I, NEW k \in I, i < k
      PROVE  Cardinality(Upto(i)) < Cardinality(Upto(k))
  <2>1. Upto(i) \in SUBSET Upto(k) /\ k \in Upto(k) /\ k \notin Upto(i)
    <3>1. \A j \in I : j \in Nat
      OBVIOUS
    <3>2. i \in Nat /\ k \in Nat /\ i < k
      BY <1>3, <3>1
    <3>3. \A j \in I : j <= i => j <= k
      BY <3>1, <3>2
    <3>4. k <= k /\ ~(k <= i)
      BY <3>2
    <3> QED  BY <3>3, <3>4, Zenon
  <2>2. /\ Cardinality(Upto(i)) <= Cardinality(Upto(k))
        /\ Cardinality(Upto(i)) # Cardinality(Upto(k))
    BY <1>2, <2>1, FS_Subset
  <2> QED  BY <1>2, <2>2
<1> QED  BY <1>1, <1>2, <1>3 DEF Rank

\* Every rank up to the size of a set is that of one member.
LEMMA NthHasRank ==
  ASSUME NEW I \in SUBSET Nat, IsFiniteSet(I), NEW p \in 1 .. Cardinality(I)
  PROVE  Nth(I, p) \in I /\ Rank(I, Nth(I, p)) = p
<1> DEFINE N == Cardinality(I)
           f == [i \in I |-> Rank(I, i)]
<1>1. N \in Nat /\ IsFiniteSet(1 .. N) /\ Cardinality(1 .. N) = N
  BY RankGrows, FS_Interval
<1>2. f \in Injection(I, 1 .. N)
  <2>1. f \in [I -> 1 .. N]
    BY RankGrows
  <2>2. ASSUME NEW i \in I, NEW k \in I, f[i] = f[k] PROVE i = k
    <3>1. Rank(I, i) = Rank(I, k) /\ Rank(I, i) \in Nat
      BY <1>1, <2>2, RankGrows
    <3>2. ~(i < k) /\ ~(k < i)
      BY <3>1, RankGrows
    <3> QED  BY <3>2
  <2> QED  BY <2>1, <2>2 DEF Injection, IsInjective
<1>3. f \in Surjection(I, 1 .. N)
  BY <1>1, <1>2, FS_Injection
<1>4. \E i \in I : Rank(I, i) = p
  BY <1>3 DEF Surjection
<1> QED  BY <1>4 DEF Nth, Rank

\* A member is found at its rank.
LEMMA NthOfRank ==
  ASSUME NEW I \in SUBSET Nat, IsFiniteSet(I), NEW i \in I
  PROVE  Rank(I, i) \in 1 .. Cardinality(I) /\ Nth(I, Rank(I, i)) = i
<1>1. Rank(I, i) \in 1 .. Cardinality(I) /\ Cardinality(I) \in Nat
  BY RankGrows
<1>2. Nth(I, Rank(I, i)) \in I /\ Rank(I, Nth(I, Rank(I, i))) = Rank(I, i)
  BY <1>1, NthHasRank
<1>3. PICK k \in I : k = Nth(I, Rank(I, i)) /\ Rank(I, k) = Rank(I, i)
  BY <1>2
<1>4. /\ i < k => Rank(I, i) < Rank(I, k)
      /\ k < i => Rank(I, k) < Rank(I, i)
  BY RankGrows
<1>5. i \in Nat /\ k \in Nat /\ Rank(I, i) \in Nat
  BY <1>1
<1>6. i = k
  BY <1>3, <1>4, <1>5
<1> QED  BY <1>1, <1>3, <1>6

\* Of the members of I take those whose ranks are in J: the p-th of them is the
\* member with the p-th of these ranks.
LEMMA NthOfNth ==
  ASSUME NEW I \in SUBSET Nat, IsFiniteSet(I), NEW J \in SUBSET (1 .. Cardinality(I))
  PROVE  LET K == {i \in I : Rank(I, i) \in J}
         IN /\ IsFiniteSet(J) /\ IsFiniteSet(K) /\ Cardinality(K) = Cardinality(J)
            /\ \A p \in 1 .. Cardinality(J) : Nth(K, p) = Nth(I, Nth(J, p))
<1> DEFINE K == {i \in I : Rank(I, i) \in J}
<1>1. Cardinality(I) \in Nat /\ IsFiniteSet(1 .. Cardinality(I))
  BY RankGrows, FS_Interval
<1>2. IsFiniteSet(J) /\ IsFiniteSet(K)
  BY <1>1, FS_Subset
<1>3. \A j \in J : Nth(I, j) \in K /\ Rank(I, Nth(I, j)) = j
  BY NthHasRank
<1>4. \A i, k \in K : i <= k <=> Rank(I, i) <= Rank(I, k)
  <2> SUFFICES ASSUME NEW i \in K, NEW k \in K PROVE i <= k <=> Rank(I, i) <= Rank(I, k)
    OBVIOUS
  <2>1. Rank(I, i) \in Nat /\ Rank(I, k) \in Nat /\ i \in Nat /\ k \in Nat
    BY <1>1, RankGrows
  <2>2. (i < k => Rank(I, i) < Rank(I, k)) /\ (k < i => Rank(I, k) < Rank(I, i))
    BY RankGrows
  <2> QED  BY <2>1, <2>2
<1>5. ASSUME NEW S \in SUBSET J
      PROVE  Cardinality({Nth(I, j) : j \in S}) = Cardinality(S)
  <2> DEFINE g == [j \in S |-> Nth(I, j)]
             T == {Nth(I, j) : j \in S}
  <2>1. IsFiniteSet(S)
    BY <1>2, FS_Subset
  <2>2. g \in [S -> T] /\ (\A t \in T : \E j \in S : g[j] = t)
    OBVIOUS
  <2>3. \A j, k \in S : g[j] = g[k] => j = k
    BY <1>3
  <2>4. g \in Bijection(S, T)
    BY <2>2, <2>3 DEF Bijection, Injection, Surjection, IsInjective
  <2> QED  BY <2>1, <2>4, FS_Bijection DEF ExistsBijection
<1>6. K = {Nth(I, j) : j \in J}
  BY <1>3, NthOfRank
<1>7. Cardinality(K) = Cardinality(J)
  BY <1>5, <1>6
<1>8. ASSUME NEW p \in 1 .. Cardinality(J)
      PROVE  Nth(K, p) = Nth(I, Nth(J, p))
  <2> DEFINE j == Nth(J, p)
             i == Nth(I, j)
  <2>1. J \in SUBSET Nat /\ K \in SUBSET Nat
    <3>1. \A h \in 1 .. Cardinality(I) : h \in Nat
      BY <1>1
    <3> QED  BY <3>1
  <2>2. j \in J /\ Rank(J, j) = p
    BY <1>2, <2>1, NthHasRank
  <2>3. i \in K /\ Rank(I, i) = j
    BY <1>3, <2>2
  <2>4. {k \in K : k <= i} = {Nth(I, h) : h \in {h \in J : h <= j}}
    <3>1. ASSUME NEW k \in K, k <= i
          PROVE  k \in {Nth(I, h) : h \in {h \in J : h <= j}}
      <4>1. Rank(I, k) \in J /\ Nth(I, Rank(I, k)) = k
        BY NthOfRank
      <4>2. Rank(I, k) <= Rank(I, i)
        BY <1>4, <2>3, <3>1
      <4> QED  BY <2>3, <4>1, <4>2
    <3>2. ASSUME NEW h \in J, h <= j
          PROVE  Nth(I, h) \in K /\ Nth(I, h) <= i
      <4>1. Nth(I, h) \in K /\ Rank(I, Nth(I, h)) = h
        BY <1>3
      <4> QED  BY <1>4, <2>3, <3>2, <4>1
    <3> QED  BY <3>1, <3>2
  <2>5. Cardinality({k \in K : k <= i}) = Cardinality({h \in J : h <= j})
    BY <1>5, <2>4
  <2>6. Rank(K, i) = p
    BY <2>2, <2>5 DEF Rank
  <2>7. Nth(K, Rank(K, i)) = i
    BY <1>2, <2>1, <2>3, NthOfRank
  <2> QED  BY <2>6, <2>7
<1> QED  BY <1>2, <1>7, <1>8

\* The places of a list are finitely many numbers.
LEMMA PlacesAreFinite ==
  ASSUME NEW S, NEW s \in Seq(S), NEW ok
  PROVE  /\ Places(s, ok) \in SUBSET Nat /\ Places(s, ok) \in SUBSET DOMAIN s
         /\ IsFiniteSet(Places(s, ok)) /\ Cardinality(Places(s, ok)) \in Nat
<1>1. Len(s) \in Nat /\ DOMAIN s = 1 .. Len(s) /\ IsFiniteSet(1 .. Len(s))
  BY FS_Interval
<1>2. Places(s, ok) \in SUBSET DOMAIN s
  BY DEF Places
<1>3. IsFiniteSet(Places(s, ok))
  BY <1>1, <1>2, FS_Subset
<1>4. \A i \in 1 .. Len(s) : i \in Nat
  BY <1>1
<1>5. Cardinality(Places(s, ok)) \in Nat
  BY <1>3, FS_CardinalityType
<1>6. Places(s, ok) \in SUBSET Nat
  BY <1>1, <1>2, <1>4
<1> QED  BY <1>2, <1>3, <1>5, <1>6

\* A function on the numbers up to n is a sequence.
LEMMA FunctionIsSeq ==
  ASSUME NEW S, NEW n \in Nat, NEW f \in [1 .. n -> S]
  PROVE  f \in Seq(S) /\ Len(f) = n
<1>1. f = [i \in 1 .. n |-> f[i]] /\ \A i \in 1 .. n : f[i] \in S
  OBVIOUS
<1>2. [i \in 1 .. n |-> f[i]] \in Seq(S) /\ Len([i \in 1 .. n |-> f[i]]) = n
  BY <1>1
<1> QED  BY <1>1, <1>2

\* What is left of a list is a list of members of it that are in ok, and none of
\* these is missing.
LEMMA AmongIsLeft ==
  ASSUME NEW S, NEW s \in Seq(S), NEW ok
  PROVE  /\ Among(s, ok) \in Seq(S) /\ Len(Among(s, ok)) = Cardinality(Places(s, ok))
         /\ DOMAIN Among(s, ok) = 1 .. Cardinality(Places(s, ok))
         /\ \A p \in DOMAIN Among(s, ok) :
              /\ Nth(Places(s, ok), p) \in Places(s, ok)
              /\ Among(s, ok)[p] = s[Nth(Places(s, ok), p)]
              /\ Among(s, ok)[p] \in ok /\ Among(s, ok)[p] \in ToSet(s)
         /\ \A i \in Places(s, ok) :
              /\ Rank(Places(s, ok), i) \in DOMAIN Among(s, ok)
              /\ Among(s, ok)[Rank(Places(s, ok), i)] = s[i]
<1> DEFINE I == Places(s, ok)
<1>1. I \in SUBSET Nat /\ I \in SUBSET DOMAIN s /\ IsFiniteSet(I) /\ Cardinality(I) \in Nat
  BY PlacesAreFinite
<1>2. \A i \in I : s[i] \in ok /\ s[i] \in S /\ s[i] \in ToSet(s)
  <2>1. \A i \in I : i \in DOMAIN s
    BY <1>1
  <2>2. \A i \in DOMAIN s : s[i] \in S /\ s[i] \in ToSet(s)
    BY DEF ToSet
  <2>3. \A i \in I : s[i] \in ok
    BY DEF Places
  <2> QED  BY <2>1, <2>2, <2>3
<1>3. \A p \in 1 .. Cardinality(I) : Nth(I, p) \in I
  BY <1>1, NthHasRank
<1>4. \A i \in I : Rank(I, i) \in 1 .. Cardinality(I) /\ Nth(I, Rank(I, i)) = i
  BY <1>1, NthOfRank
<1>5. Among(s, ok) = [p \in 1 .. Cardinality(I) |-> s[Nth(I, p)]]
  BY DEF Among, Kept
<1> HIDE DEF I
<1>6. Among(s, ok) \in Seq(S) /\ Len(Among(s, ok)) = Cardinality(I)
      /\ DOMAIN Among(s, ok) = 1 .. Cardinality(I)
  <2>1. Among(s, ok) \in [1 .. Cardinality(I) -> S]
    BY <1>2, <1>3, <1>5
  <2>2. Among(s, ok) \in Seq(S)
    BY <1>1, <2>1, FunctionIsSeq
  <2>3. DOMAIN Among(s, ok) = 1 .. Cardinality(I)
    BY <2>1
  <2> QED  BY <1>1, <2>2, <2>3
<1>7. \A p \in 1 .. Cardinality(I) : Among(s, ok)[p] = s[Nth(I, p)]
  BY <1>5
<1> QED  BY <1>2, <1>3, <1>4, <1>6, <1>7 DEF I

\* t holds new names of what the cut to first leaves of s; second holds the names
\* of those that are in both.
Renamed(s, first, both, t, second) ==
  /\ both \subseteq first /\ Len(t) = Len(Among(s, first))
  /\ \A q \in DOMAIN t : t[q] \in second <=> Among(s, first)[q] \in both

\* The cut of t to second and the cut of s to both take the same places.
SameCut(s, first, both, t, second) ==
  /\ Len(Among(t, second)) = Len(Among(s, both))
  /\ \A p \in DOMAIN Among(t, second) :
       \E q \in DOMAIN t : /\ Among(t, second)[p] = t[q]
                          /\ Among(s, both)[p] = Among(s, first)[q]

\* Two cuts, with a change of names between them, leave what one cut leaves.
LEMMA CutTwice ==
  ASSUME NEW S, NEW s \in Seq(S), NEW first, NEW both, NEW T, NEW t \in Seq(T), NEW second,
         Renamed(s, first, both, t, second)
  PROVE  SameCut(s, first, both, t, second)
<1> DEFINE I == Places(s, first)
           J == Places(t, second)
           K == {i \in I : Rank(I, i) \in J}
<1> USE DEF Renamed
<1>1. I \in SUBSET Nat /\ IsFiniteSet(I) /\ I \in SUBSET DOMAIN s
  BY PlacesAreFinite
<1>2. DOMAIN t = 1 .. Cardinality(I) /\ DOMAIN Among(s, first) = 1 .. Cardinality(I)
  BY AmongIsLeft
<1>3. J \in SUBSET (1 .. Cardinality(I))
  BY <1>2, PlacesAreFinite
<1>4. /\ Cardinality(K) = Cardinality(J)
      /\ \A p \in 1 .. Cardinality(J) : Nth(K, p) = Nth(I, Nth(J, p))
  BY <1>1, <1>3, NthOfNth
<1>5. K = Places(s, both)
  <2>1. ASSUME NEW i \in I PROVE Rank(I, i) \in J <=> s[i] \in both
    <3>1. Rank(I, i) \in DOMAIN t /\ Among(s, first)[Rank(I, i)] = s[i]
      BY <1>2, AmongIsLeft
    <3> QED  BY <3>1 DEF Places
  <2>2. \A i \in DOMAIN s : s[i] \in both => i \in I
    BY DEF Places
  <2> QED  BY <1>1, <2>1, <2>2 DEF Places
<1>6. Len(Among(t, second)) = Cardinality(J) /\ Len(Among(s, both)) = Cardinality(K)
  <2>1. Len(Among(s, both)) = Cardinality(Places(s, both))
    BY AmongIsLeft
  <2>2. Len(Among(t, second)) = Cardinality(J)
    BY AmongIsLeft
  <2> QED  BY <1>5, <2>1, <2>2
<1>7. ASSUME NEW p \in DOMAIN Among(t, second)
      PROVE  /\ Nth(J, p) \in DOMAIN t
             /\ Among(t, second)[p] = t[Nth(J, p)]
             /\ Among(s, both)[p] = Among(s, first)[Nth(J, p)]
  <2>1. p \in 1 .. Cardinality(J) /\ Nth(J, p) \in J /\ Among(t, second)[p] = t[Nth(J, p)]
    BY AmongIsLeft
  <2>2. Nth(J, p) \in DOMAIN t
    BY <1>2, <1>3, <2>1
  <2>3. DOMAIN Among(s, both) = 1 .. Cardinality(Places(s, both))
        /\ \A o \in DOMAIN Among(s, both) : Among(s, both)[o] = s[Nth(Places(s, both), o)]
    BY AmongIsLeft
  <2>4. Among(s, both)[p] = s[Nth(K, p)]
    BY <1>4, <1>5, <2>1, <2>3, Zenon
  <2>5. Among(s, first)[Nth(J, p)] = s[Nth(I, Nth(J, p))]
    BY <1>2, <2>2, AmongIsLeft
  <2> QED  BY <1>4, <2>1, <2>2, <2>4, <2>5
<1> QED  BY <1>4, <1>6, <1>7 DEF SameCut

\* What is left after two cuts is what both allow.
LEMMA AmongAmong ==
  ASSUME NEW S, NEW s \in Seq(S), NEW A, NEW B
  PROVE  Among(Among(s, A), B) = Among(s, A \cap B)
<1> DEFINE t == Among(s, A)
<1>1. t \in Seq(S) /\ \A q \in DOMAIN t : t[q] \in A
  BY AmongIsLeft
<1>2. \A q \in DOMAIN t : t[q] \in B <=> t[q] \in A \cap B
  BY <1>1
<1>3. Renamed(s, A, A \cap B, t, B)
  BY <1>2 DEF Renamed
<1>4. /\ Len(Among(t, B)) = Len(Among(s, A \cap B))
      /\ \A p \in DOMAIN Among(t, B) :
           Among(t, B)[p] = Among(s, A \cap B)[p]
  <2>1. ASSUME NEW r \in Seq(S), Renamed(s, A, A \cap B, r, B)
        PROVE  SameCut(s, A, A \cap B, r, B)
    BY <2>1, CutTwice
  <2>2. SameCut(s, A, A \cap B, t, B)
    BY <1>1, <1>3, <2>1, Zenon
  <2> QED  BY <2>2 DEF SameCut
<1>5. Among(t, B) \in Seq(S) /\ Among(s, A \cap B) \in Seq(S)
  BY <1>1, AmongIsLeft
<1> HIDE DEF t
<1>6. \A p \in 1 .. Len(Among(t, B)) : Among(t, B)[p] = Among(s, A \cap B)[p]
  <2>1. DOMAIN Among(t, B) = 1 .. Len(Among(t, B))
    BY <1>5
  <2> QED  BY <1>4, <2>1
<1>7. Among(t, B) = Among(s, A \cap B)
  BY <1>4, <1>5, <1>6, SeqEqual
<1> QED  BY <1>7 DEF t

\* A cut that allows all members changes nothing.
LEMMA AmongAll ==
  ASSUME NEW S, NEW s \in Seq(S), NEW ok, \A i \in DOMAIN s : s[i] \in ok
  PROVE  Among(s, ok) = s
<1> DEFINE N == Len(s)
<1>1. N \in Nat /\ DOMAIN s = 1 .. N
  OBVIOUS
<1>2. Places(s, ok) = 1 .. N
  BY <1>1 DEF Places
<1>3. /\ 1 .. N \in SUBSET Nat /\ IsFiniteSet(1 .. N) /\ Cardinality(1 .. N) = N
      /\ \A i \in 1 .. N : Cardinality(1 .. i) = i
  <2>1. \A i \in 1 .. N : i \in Nat
    BY <1>1
  <2>2. \A i \in Nat : IsFiniteSet(1 .. i) /\ Cardinality(1 .. i) = i
    <3> SUFFICES ASSUME NEW i \in Nat PROVE IsFiniteSet(1 .. i) /\ Cardinality(1 .. i) = i
      OBVIOUS
    <3>1. IsFiniteSet(1 .. i) /\ Cardinality(1 .. i) = IF 1 > i THEN 0 ELSE i - 1 + 1
      BY FS_Interval
    <3> QED  BY <3>1
  <2> HIDE DEF N
  <2> QED  BY <1>1, <2>1, <2>2
<1>4. \A i \in 1 .. N : Rank(1 .. N, i) = i
  <2> SUFFICES ASSUME NEW i \in 1 .. N PROVE Rank(1 .. N, i) = i
    OBVIOUS
  <2>1. {j \in 1 .. N : j <= i} = 1 .. i
    BY <1>1
  <2> QED  BY <1>3, <2>1 DEF Rank
<1>5. \A i \in 1 .. N : Nth(1 .. N, i) = i
  BY <1>3, <1>4, NthOfRank
<1>6. Among(s, ok) \in Seq(S) /\ Len(Among(s, ok)) = N
      /\ \A p \in 1 .. N : Among(s, ok)[p] = s[p]
  BY <1>2, <1>3, <1>5, AmongIsLeft
<1> QED  BY <1>6

\* What is allowed and comes last stays last.
LEMMA AmongAppend ==
  ASSUME NEW S, NEW s \in Seq(S), NEW ok, NEW x \in S, x \in ok
  PROVE  Among(Append(s, x), ok) = Append(Among(s, ok), x)
<1> DEFINE N == Len(s)
           I == Places(s, ok)
           K == Places(Append(s, x), ok)
<1>1. /\ N \in Nat /\ DOMAIN s = 1 .. N /\ Append(s, x) \in Seq(S)
      /\ DOMAIN Append(s, x) = 1 .. N + 1 /\ Append(s, x)[N + 1] = x
      /\ \A i \in 1 .. N : Append(s, x)[i] = s[i]
  OBVIOUS
<1>2. K = I \cup {N + 1} /\ \A i \in I : i \in Nat /\ i <= N
  BY <1>1 DEF Places
<1>3. /\ I \in SUBSET Nat /\ IsFiniteSet(I) /\ Cardinality(I) \in Nat
      /\ K \in SUBSET Nat /\ IsFiniteSet(K) /\ Cardinality(K) \in Nat
  BY <1>1, PlacesAreFinite
<1>4. N + 1 \notin I
  BY <1>1, <1>2
<1>5. Cardinality(K) = Cardinality(I) + 1
  BY <1>2, <1>3, <1>4, FS_AddElement
<1>5a. /\ DOMAIN Among(Append(s, x), ok) = 1 .. Cardinality(K)
       /\ \A p \in 1 .. Cardinality(K) : Among(Append(s, x), ok)[p] = Append(s, x)[Nth(K, p)]
  <2>1. Append(s, x) \in Seq(S)
    BY <1>1
  <2>2. ASSUME NEW t \in Seq(S)
        PROVE  /\ DOMAIN Among(t, ok) = 1 .. Cardinality(Places(t, ok))
               /\ \A p \in 1 .. Cardinality(Places(t, ok)) :
                    Among(t, ok)[p] = t[Nth(Places(t, ok), p)]
    BY AmongIsLeft
  <2> QED  BY <2>1, <2>2, Zenon
<1>6. \A i \in I : Rank(K, i) = Rank(I, i)
  <2> SUFFICES ASSUME NEW i \in I PROVE Rank(K, i) = Rank(I, i)
    OBVIOUS
  <2>1. {j \in K : j <= i} = {j \in I : j <= i}
    BY <1>1, <1>2
  <2> QED  BY <2>1 DEF Rank
<1>7. Rank(K, N + 1) = Cardinality(I) + 1
  <2>1. {j \in K : j <= N + 1} = K
    BY <1>1, <1>2
  <2> QED  BY <1>5, <2>1 DEF Rank
<1>8. ASSUME NEW p \in 1 .. Cardinality(I)
      PROVE  Among(Append(s, x), ok)[p] = Among(s, ok)[p]
  <2>1. Nth(I, p) \in I /\ Rank(I, Nth(I, p)) = p
    BY <1>3, NthHasRank
  <2>2. Nth(K, p) = Nth(I, p)
    <3>1. Nth(I, p) \in K /\ Rank(K, Nth(I, p)) = p
      BY <1>2, <1>6, <2>1
    <3>2. Nth(K, Rank(K, Nth(I, p))) = Nth(I, p)
      BY <1>3, <3>1, NthOfRank
    <3> QED  BY <3>1, <3>2
  <2>3. Among(Append(s, x), ok)[p] = Append(s, x)[Nth(K, p)]
    <3>1. p \in 1 .. Cardinality(K)
      BY <1>3, <1>5
    <3> QED  BY <1>5a, <3>1
  <2>4. Among(s, ok)[p] = s[Nth(I, p)]
    BY AmongIsLeft
  <2>5. Nth(I, p) \in 1 .. N
    BY <1>1, <2>1 DEF Places
  <2> QED  BY <1>1, <2>2, <2>3, <2>4, <2>5
<1>9. Among(Append(s, x), ok)[Cardinality(I) + 1] = x
  <2>1. Nth(K, Cardinality(I) + 1) = N + 1
    BY <1>2, <1>3, <1>7, NthOfRank
  <2>2. Among(Append(s, x), ok)[Cardinality(I) + 1] = Append(s, x)[Nth(K, Cardinality(I) + 1)]
    <3>1. Cardinality(I) + 1 \in 1 .. Cardinality(K)
      BY <1>3, <1>5
    <3> QED  BY <1>5a, <3>1
  <2> QED  BY <1>1, <2>1, <2>2
<1>10. /\ Among(s, ok) \in Seq(S) /\ Len(Among(s, ok)) = Cardinality(I)
       /\ Among(Append(s, x), ok) \in Seq(S)
       /\ Len(Among(Append(s, x), ok)) = Cardinality(I) + 1
  BY <1>1, <1>5, AmongIsLeft
<1> HIDE DEF I, K, N
<1> QED  BY <1>3, <1>8, <1>9, <1>10

-----------------------------------------------------------------------------
(* Types                                                                    *)

\* A list of what resolves is a list of members of the set it was made from.
LEMMA ListingType ==
  ASSUME NEW S, NEW s \in Seq(S), NEW ok
  PROVE  /\ Listing(s, ok) \in Seq(S) /\ DOMAIN Listing(s, ok) = 1 .. Cardinality(Seen(s, ok))
         /\ \A p \in DOMAIN Listing(s, ok) : Listing(s, ok)[p] \in ok
<1>1. Cardinality(Seen(s, ok)) \in Nat
  BY SeenIsFinite
<1>2. DOMAIN Listing(s, ok) = 1 .. Cardinality(Seen(s, ok))
  BY DEF Listing
<1>3. \A p \in DOMAIN Listing(s, ok) : Listing(s, ok)[p] \in Seen(s, ok)
  BY ListingIsExact
<1>4. \A x \in Seen(s, ok) : x \in S /\ x \in ok
  BY DEF Seen, ToSet
<1>5. Listing(s, ok) \in [1 .. Cardinality(Seen(s, ok)) -> S]
  BY <1>2, <1>3, <1>4 DEF Listing
<1> QED  BY <1>1, <1>2, <1>3, <1>4, <1>5, FunctionIsSeq

\* The citations of a draft are members of the evidence that was shown.
LEMMA DraftCitationsType ==
  ASSUME NEW S, NEW pack \in Seq(S), NEW marks \in Seq(Nat), NEW claimed \in Seq(Nat)
  PROVE  DraftCitations(pack, marks, claimed) \in Seq(S)
<1> DEFINE order == DraftOrder(pack, marks, claimed)
<1>1. marks \o claimed \in Seq(Nat)
  OBVIOUS
<1>2. /\ order \in Seq(Nat) /\ \A p \in DOMAIN order : order[p] \in Numbers(pack)
      /\ DOMAIN order = 1 .. Len(order) /\ Len(order) \in Nat
  <2>1. ASSUME NEW s \in Seq(Nat)
        PROVE  /\ Listing(s, Numbers(pack)) \in Seq(Nat)
               /\ \A p \in DOMAIN Listing(s, Numbers(pack)) :
                    Listing(s, Numbers(pack))[p] \in Numbers(pack)
    BY ListingType
  <2>2. order \in Seq(Nat) /\ \A p \in DOMAIN order : order[p] \in Numbers(pack)
    BY <1>1, <2>1, Zenon DEF DraftOrder
  <2> HIDE DEF order
  <2> QED  BY <2>2
<1>3. \A p \in DOMAIN order : pack[order[p]] \in S
  BY <1>2 DEF Numbers
<1> HIDE DEF order
<1>4. [p \in DOMAIN order |-> pack[order[p]]] \in [1 .. Len(order) -> S]
  BY <1>2, <1>3
<1>5. DraftCitations(pack, marks, claimed) = [p \in DOMAIN order |-> pack[order[p]]]
  BY DEF DraftCitations, order
<1> QED  BY <1>2, <1>4, <1>5, FunctionIsSeq

-----------------------------------------------------------------------------
(* Lists                                                                    *)

\* Induction over the natural numbers, for a set in place of a predicate.
LEMMA SetInduction ==
  ASSUME NEW A, 0 \in A, \A n \in Nat : n \in A => n + 1 \in A
  PROVE  \A n \in Nat : n \in A
<1> DEFINE T == {n \in Nat : n \notin A}
<1> SUFFICES ASSUME T # {} PROVE FALSE
  OBVIOUS
<1>1. PICK i \in T : \A j \in T : ~(<<j, i>> \in OpToRel(<, Nat))
  BY NatLessThanWellFounded, WFMin, Zenon
<1>2. i # 0 /\ i \in Nat /\ i \notin A
  OBVIOUS
<1>3. i - 1 \in Nat /\ i - 1 < i
  BY <1>2
<1>4. i - 1 \in T
  BY <1>2, <1>3
<1>5. <<i - 1, i>> \in OpToRel(<, Nat)
  BY <1>2, <1>3 DEF OpToRel
<1> QED  BY <1>1, <1>4, <1>5

\* A set of natural numbers has a least one.
LEMMA MinIsThere ==
  ASSUME NEW I \in SUBSET Nat, I # {}
  PROVE  Min(I) \in I /\ \A i \in I : Min(I) <= i
<1>1. PICK i \in I : \A j \in I : ~(<<j, i>> \in OpToRel(<, Nat))
  BY NatLessThanWellFounded, WFMin, Zenon
<1>2. ASSUME NEW j \in I PROVE i <= j
  <2>1. i \in Nat /\ j \in Nat /\ <<j, i>> \in Nat \X Nat
    OBVIOUS
  <2> QED  BY <1>1, <2>1 DEF OpToRel
<1> QED  BY <1>2 DEF Min

\* A finite set of integers has a greatest one.
LEMMA MaxIsThere ==
  ASSUME NEW I \in SUBSET Int, I # {}, IsFiniteSet(I)
  PROVE  Max(I) \in I /\ \A i \in I : i <= Max(I)
<1> DEFINE Bounded(T) == T # {} => \E m \in T : \A i \in T : i <= m
           A == {n \in Nat : \A T \in SUBSET I : Cardinality(T) = n => Bounded(T)}
<1>1. \A T \in SUBSET I : IsFiniteSet(T) /\ Cardinality(T) \in Nat
  BY FS_Subset, FS_CardinalityType
<1>2. 0 \in A
  BY <1>1, FS_EmptySet
<1>3. ASSUME NEW n \in Nat, n \in A PROVE n + 1 \in A
  <2> SUFFICES ASSUME NEW T \in SUBSET I, Cardinality(T) = n + 1, T # {}
               PROVE  \E m \in T : \A i \in T : i <= m
    OBVIOUS
  <2>1. PICK x \in T : TRUE
    OBVIOUS
  <2>2. Cardinality(T \ {x}) = n /\ T \ {x} \in SUBSET I
    <3>1. IsFiniteSet(T) /\ Cardinality(T \ {x}) = Cardinality(T) - 1
      BY <1>1, FS_RemoveElement
    <3> QED  BY <3>1
  <2>3. CASE T \ {x} = {}
    BY <2>3
  <2>4. CASE T \ {x} # {}
    <3>1. PICK m \in T \ {x} : \A i \in T \ {x} : i <= m
      BY <1>3, <2>2, <2>4
    <3>2. x \in Int /\ m \in Int /\ \A i \in T : i \in Int
      BY <2>2
    <3>3. CASE m <= x
      <4>1. \A i \in T : i <= x
        BY <3>1, <3>2, <3>3
      <4> QED  BY <4>1
    <3>4. CASE x <= m
      BY <3>1, <3>4
    <3> QED  BY <3>2, <3>3, <3>4
  <2> QED  BY <2>3, <2>4
<1> HIDE DEF A
<1>4. \A n \in Nat : n \in A
  BY <1>2, <1>3, SetInduction
<1>5. \E m \in I : \A i \in I : i <= m
  <2>1. Cardinality(I) \in A
    BY <1>1, <1>4
  <2> QED  BY <2>1 DEF A
<1> QED  BY <1>5 DEF Max

\* The lesser of two numbers.
LEMMA MinOfTwo ==
  ASSUME NEW a \in Int, NEW b \in Int
  PROVE  Min({a, b}) = IF a <= b THEN a ELSE b
<1>1. CASE a <= b
  <2>1. \A x \in {a, b} : (\A y \in {a, b} : x <= y) <=> x = a
    BY <1>1
  <2> QED  BY <1>1, <2>1 DEF Min
<1>2. CASE ~(a <= b)
  <2>1. \A x \in {a, b} : (\A y \in {a, b} : x <= y) <=> x = b
    BY <1>2
  <2> QED  BY <1>2, <2>1 DEF Min
<1> QED  BY <1>1, <1>2

\* The greater of two numbers.
LEMMA MaxOfTwo ==
  ASSUME NEW a \in Int, NEW b \in Int
  PROVE  Max({a, b}) = IF a <= b THEN b ELSE a
<1>1. CASE a <= b
  <2>1. \A x \in {a, b} : (\A y \in {a, b} : x >= y) <=> x = b
    BY <1>1
  <2> QED  BY <1>1, <2>1 DEF Max
<1>2. CASE ~(a <= b)
  <2>1. \A x \in {a, b} : (\A y \in {a, b} : x >= y) <=> x = a
    BY <1>2
  <2> QED  BY <1>2, <2>1 DEF Max
<1> QED  BY <1>1, <1>2

\* What is kept of a list is a list of the members at the places kept, in their order.
LEMMA KeptIs ==
  ASSUME NEW S, NEW s \in Seq(S), NEW I \in SUBSET DOMAIN s
  PROVE  /\ I \in SUBSET Nat /\ IsFiniteSet(I) /\ Cardinality(I) \in Nat
         /\ Kept(s, I) \in Seq(S) /\ Kept(s, I) \in Seq({s[i] : i \in I})
         /\ Len(Kept(s, I)) = Cardinality(I) /\ DOMAIN Kept(s, I) = 1 .. Cardinality(I)
         /\ \A p \in DOMAIN Kept(s, I) : Nth(I, p) \in I /\ Kept(s, I)[p] = s[Nth(I, p)]
         /\ \A i \in I : /\ Rank(I, i) \in DOMAIN Kept(s, I) /\ Nth(I, Rank(I, i)) = i
                         /\ Kept(s, I)[Rank(I, i)] = s[i]
         /\ \A p, q \in DOMAIN Kept(s, I) : p < q => Nth(I, p) < Nth(I, q)
<1>1. Len(s) \in Nat /\ DOMAIN s = 1 .. Len(s) /\ IsFiniteSet(1 .. Len(s))
  BY FS_Interval
<1>2. I \in SUBSET Nat
  <2>1. \A i \in 1 .. Len(s) : i \in Nat
    BY <1>1
  <2> QED  BY <1>1, <2>1
<1>3. IsFiniteSet(I) /\ Cardinality(I) \in Nat
  BY <1>1, FS_Subset, FS_CardinalityType
<1>4. \A p \in 1 .. Cardinality(I) : Nth(I, p) \in I /\ Rank(I, Nth(I, p)) = p
  BY <1>2, <1>3, NthHasRank
<1>5. \A i \in I : Rank(I, i) \in 1 .. Cardinality(I) /\ Nth(I, Rank(I, i)) = i
  BY <1>2, <1>3, NthOfRank
<1>6. \A i \in I : s[i] \in S /\ s[i] \in {s[j] : j \in I}
  OBVIOUS
<1>7. Kept(s, I) = [p \in 1 .. Cardinality(I) |-> s[Nth(I, p)]]
  BY DEF Kept
<1>8. Kept(s, I) \in [1 .. Cardinality(I) -> S] /\ Kept(s, I) \in [1 .. Cardinality(I) -> {s[j] : j \in I}]
  BY <1>4, <1>6, <1>7
<1>9. Kept(s, I) \in Seq(S) /\ Kept(s, I) \in Seq({s[j] : j \in I}) /\ Len(Kept(s, I)) = Cardinality(I)
  BY <1>3, <1>8, FunctionIsSeq
<1>10. ASSUME NEW p \in 1 .. Cardinality(I), NEW q \in 1 .. Cardinality(I), p < q
       PROVE  Nth(I, p) < Nth(I, q)
  <2>1. PICK i \in I : i = Nth(I, p) /\ Rank(I, i) = p
    BY <1>4
  <2>2. PICK k \in I : k = Nth(I, q) /\ Rank(I, k) = q
    BY <1>4
  <2>3. (k < i => Rank(I, k) < Rank(I, i)) /\ i \in Nat /\ k \in Nat
    BY <1>2, <1>3, RankGrows
  <2>4. p \in Nat /\ q \in Nat /\ i # k /\ ~(q < p)
    BY <1>3, <1>10, <2>1, <2>2
  <2>5. ~(k < i)
    BY <2>1, <2>2, <2>3, <2>4
  <2> QED  BY <2>1, <2>2, <2>3, <2>4, <2>5
<1> QED  BY <1>2, <1>3, <1>4, <1>5, <1>7, <1>8, <1>9, <1>10

\* The first n of a list.
LEMMA TopIs ==
  ASSUME NEW S, NEW s \in Seq(S), NEW n \in Nat
  PROVE  /\ Top(s, n) \in Seq(S) /\ Len(Top(s, n)) = IF n <= Len(s) THEN n ELSE Len(s)
         /\ DOMAIN Top(s, n) \subseteq DOMAIN s
         /\ \A i \in DOMAIN Top(s, n) : Top(s, n)[i] = s[i]
<1> DEFINE m == IF n <= Len(s) THEN n ELSE Len(s)
<1>1. Len(s) \in Nat /\ m \in Nat /\ m <= Len(s)
  OBVIOUS
<1>2. Top(s, n) = SubSeq(s, 1, m)
  BY <1>1, MinOfTwo DEF Top
<1>3. SubSeq(s, 1, m) = [i \in 1 .. m |-> s[i]]
  BY <1>1
<1>4. \A i \in 1 .. m : s[i] \in S /\ i \in DOMAIN s
  BY <1>1
<1>5. [i \in 1 .. m |-> s[i]] \in [1 .. m -> S]
  BY <1>4
<1> HIDE DEF m
<1>6. Top(s, n) \in Seq(S) /\ Len(Top(s, n)) = m
  BY <1>1, <1>2, <1>3, <1>5, FunctionIsSeq
<1>7. DOMAIN Top(s, n) = 1 .. m /\ \A i \in 1 .. m : Top(s, n)[i] = s[i]
  BY <1>2, <1>3
<1> QED  BY <1>4, <1>6, <1>7 DEF m

\* Each value once: the members are the same.
LEMMA OnceIs ==
  ASSUME NEW S, NEW s \in Seq(S)
  PROVE  Once(s) \in Seq(S) /\ ToSet(Once(s)) = ToSet(s)
<1> DEFINE I == {i \in DOMAIN s : \A j \in 1 .. i - 1 : s[j] # s[i]}
<1>1. Once(s) = Kept(s, I) /\ I \in SUBSET DOMAIN s
  BY DEF Once
<1>2. /\ Kept(s, I) \in Seq(S)
      /\ \A p \in DOMAIN Kept(s, I) : Nth(I, p) \in I /\ Kept(s, I)[p] = s[Nth(I, p)]
      /\ \A i \in I : Rank(I, i) \in DOMAIN Kept(s, I) /\ Kept(s, I)[Rank(I, i)] = s[i]
  <2> HIDE DEF I
  <2> QED  BY <1>1, KeptIs
<1>3. ASSUME NEW x \in ToSet(s) PROVE \E i \in I : s[i] = x
  <2> DEFINE P == {i \in DOMAIN s : s[i] = x}
  <2>1. P \in SUBSET Nat /\ P # {}
    BY DEF ToSet
  <2>2. PICK m \in P : \A i \in P : m <= i
    BY <2>1, MinIsThere
  <2>3. m \in DOMAIN s /\ s[m] = x /\ m \in Nat
    BY <2>1
  <2>4. ASSUME NEW j \in 1 .. m - 1 PROVE s[j] # s[m]
    <3>1. j \in DOMAIN s /\ ~(m <= j)
      BY <2>3
    <3> QED  BY <2>2, <2>3, <3>1
  <2> QED  BY <2>3, <2>4
<1> HIDE DEF I
<1>4. \A x \in ToSet(s) : x \in ToSet(Kept(s, I))
  BY <1>2, <1>3 DEF ToSet
<1>5. \A x \in ToSet(Kept(s, I)) : x \in ToSet(s)
  BY <1>1, <1>2 DEF ToSet
<1> QED  BY <1>1, <1>2, <1>4, <1>5

\* sorted: each place of the list is that of one member, and the members come
\* with falling keys, those of equal keys in their order.
LEMMA OrderedIs ==
  ASSUME NEW S, NEW s \in Seq(S), NEW keys \in [DOMAIN s -> Int]
  PROVE  /\ Ordered(s, keys) \in Seq(S) /\ Len(Ordered(s, keys)) = Len(s)
         /\ \A p \in DOMAIN s : InOrder(keys, p) \in DOMAIN s /\ Ordered(s, keys)[p] = s[InOrder(keys, p)]
         /\ \A i \in DOMAIN s : \E p \in DOMAIN s : InOrder(keys, p) = i
         /\ \A p, q \in DOMAIN s : p < q =>
              LET i == InOrder(keys, p)
                  k == InOrder(keys, q)
              IN  keys[i] > keys[k] \/ (keys[i] = keys[k] /\ i < k)
<1> DEFINE n == Len(s)
           place(i) == Cardinality(NoLater(keys, i))
           f == [i \in 1 .. n |-> place(i)]
           ahead(j, i) == keys[j] > keys[i] \/ (keys[j] = keys[i] /\ j <= i)
<1>1. /\ n \in Nat /\ DOMAIN s = 1 .. n /\ DOMAIN keys = 1 .. n
      /\ IsFiniteSet(1 .. n) /\ Cardinality(1 .. n) = n
      /\ \A i \in 1 .. n : keys[i] \in Int /\ i \in Int
  BY FS_Interval
<1>2. ASSUME NEW i \in 1 .. n
      PROVE  place(i) \in 1 .. n /\ IsFiniteSet(NoLater(keys, i))
  <2>1. NoLater(keys, i) \in SUBSET (1 .. n) /\ i \in NoLater(keys, i)
    BY <1>1 DEF NoLater
  <2>2. IsFiniteSet(NoLater(keys, i)) /\ place(i) <= n /\ place(i) \in Nat
    BY <1>1, <2>1, FS_Subset, FS_CardinalityType
  <2>3. place(i) # 0
    BY <2>1, <2>2, FS_EmptySet
  <2> QED  BY <1>1, <2>2, <2>3
<1>3. ASSUME NEW i \in 1 .. n, NEW k \in 1 .. n, ahead(i, k), i # k
      PROVE  place(i) < place(k)
  <2>1. \A j \in 1 .. n : ahead(j, i) => ahead(j, k)
    BY <1>1, <1>3
  <2>2. ~ahead(k, i) /\ ahead(k, k)
    BY <1>1, <1>3
  <2>3. NoLater(keys, i) \in SUBSET NoLater(keys, k) /\ k \in NoLater(keys, k) /\ k \notin NoLater(keys, i)
    BY <1>1, <2>1, <2>2 DEF NoLater
  <2>4. place(i) <= place(k) /\ place(i) # place(k)
    BY <1>2, <2>3, FS_Subset
  <2> QED  BY <1>1, <1>2, <2>4
<1>4. \A i, k \in 1 .. n : i = k \/ ahead(i, k) \/ ahead(k, i)
  BY <1>1
<1>5. ASSUME NEW i \in 1 .. n, NEW k \in 1 .. n, place(i) = place(k) PROVE i = k
  <2>1. place(i) \in Nat
    BY <1>1, <1>2
  <2> QED  BY <1>3, <1>4, <1>5, <2>1
<1>6. f \in Injection(1 .. n, 1 .. n)
  <2>1. f \in [1 .. n -> 1 .. n]
    BY <1>2
  <2>2. \A i, k \in 1 .. n : f[i] = f[k] => i = k
    BY <1>5
  <2> QED  BY <2>1, <2>2 DEF Injection, IsInjective
<1>7. f \in Surjection(1 .. n, 1 .. n)
  BY <1>1, <1>6, FS_Injection
<1>8. ASSUME NEW p \in 1 .. n PROVE InOrder(keys, p) \in 1 .. n /\ place(InOrder(keys, p)) = p
  <2>1. \E i \in 1 .. n : place(i) = p
    BY <1>7 DEF Surjection
  <2> QED  BY <1>1, <2>1 DEF InOrder
<1>9. ASSUME NEW i \in 1 .. n PROVE \E p \in 1 .. n : InOrder(keys, p) = i
  <2>1. place(i) \in 1 .. n
    BY <1>2
  <2>2. InOrder(keys, place(i)) \in 1 .. n /\ place(InOrder(keys, place(i))) = place(i)
    BY <1>8, <2>1
  <2>3. InOrder(keys, place(i)) = i
    BY <1>5, <2>2
  <2> QED  BY <2>1, <2>3
<1>10. ASSUME NEW p \in 1 .. n, NEW q \in 1 .. n, p < q
       PROVE  LET i == InOrder(keys, p)
                  k == InOrder(keys, q)
              IN  keys[i] > keys[k] \/ (keys[i] = keys[k] /\ i < k)
  <2> DEFINE i == InOrder(keys, p)
             k == InOrder(keys, q)
  <2>1. i \in 1 .. n /\ k \in 1 .. n /\ place(i) = p /\ place(k) = q
    BY <1>8
  <2>2. ~(q < p) /\ p # q
    BY <1>1, <1>10
  <2>3. i # k /\ ~ahead(k, i)
    BY <1>3, <2>1, <2>2
  <2>4. ahead(i, k)
    BY <1>4, <2>1, <2>3
  <2> QED  BY <1>1, <2>1, <2>3, <2>4
<1>11. Ordered(s, keys) = [p \in 1 .. n |-> s[InOrder(keys, p)]]
  BY <1>1 DEF Ordered
<1>12. Ordered(s, keys) \in [1 .. n -> S]
  BY <1>1, <1>8, <1>11
<1>13. Ordered(s, keys) \in Seq(S) /\ Len(Ordered(s, keys)) = n
  BY <1>1, <1>12, FunctionIsSeq
<1> QED  BY <1>1, <1>8, <1>9, <1>10, <1>11, <1>13

\* sorted keeps the members.
LEMMA OrderedHas ==
  ASSUME NEW S, NEW s \in Seq(S), NEW keys \in [DOMAIN s -> Int]
  PROVE  ToSet(Ordered(s, keys)) = ToSet(s)
<1>1. DOMAIN Ordered(s, keys) = DOMAIN s
  BY OrderedIs
<1>2. /\ \A p \in DOMAIN s : InOrder(keys, p) \in DOMAIN s /\ Ordered(s, keys)[p] = s[InOrder(keys, p)]
      /\ \A i \in DOMAIN s : \E p \in DOMAIN s : InOrder(keys, p) = i
  BY OrderedIs
<1> QED  BY <1>1, <1>2 DEF ToSet

\* f starts at base, and each of n steps takes it on.
Runs(f, D, n, base, step) ==
  f \in [0 .. n -> D] /\ f[0] = base /\ \A i \in 1 .. n : f[i] = step[i][f[i - 1]]

\* A function given by its first value and a step over the numbers up to n is
\* there, when the steps stay in a set.
LEMMA RecursionExists ==
  ASSUME NEW D, NEW n \in Nat, NEW base \in D, NEW step \in [1 .. n -> [D -> D]]
  PROVE  \E f : Runs(f, D, n, base, step)
<1> DEFINE A == {k \in Nat : k <= n => \E f : Runs(f, D, k, base, step)}
<1>1. 0 \in A
  <2> DEFINE g == [i \in 0 .. 0 |-> base]
  <2>1. Runs(g, D, 0, base, step)
    BY DEF Runs
  <2> QED  BY <2>1
<1>2. ASSUME NEW k \in Nat, k \in A PROVE k + 1 \in A
  <2> SUFFICES ASSUME k + 1 <= n PROVE \E f : Runs(f, D, k + 1, base, step)
    OBVIOUS
  <2>1. PICK f : Runs(f, D, k, base, step)
    BY <1>2
  <2>0. /\ f \in [0 .. k -> D] /\ f[0] = base
        /\ \A i \in 1 .. k : f[i] = step[i][f[i - 1]]
    BY <2>1 DEF Runs
  <2> DEFINE g == [i \in 0 .. k + 1 |-> IF i = k + 1 THEN step[k + 1][f[k]] ELSE f[i]]
  <2>2. f[k] \in D /\ k + 1 \in 1 .. n
    BY <2>0
  <2>3. step[k + 1][f[k]] \in D
    BY <2>2
  <2>4. g \in [0 .. k + 1 -> D]
    BY <2>0, <2>3
  <2>5. \A i \in 0 .. k : g[i] = f[i]
    OBVIOUS
  <2>6. g[k + 1] = step[k + 1][f[k]]
    OBVIOUS
  <2>7. g[0] = base
    BY <2>0, <2>5
  <2>8. ASSUME NEW i \in 1 .. k + 1 PROVE g[i] = step[i][g[i - 1]]
    <3>1. CASE i = k + 1
      BY <2>5, <2>6, <3>1
    <3>2. CASE i # k + 1
      <4>1. i \in 1 .. k /\ i - 1 \in 0 .. k /\ i \in 0 .. k
        BY <3>2
      <4> QED  BY <2>0, <2>5, <4>1
    <3> QED  BY <3>1, <3>2
  <2> HIDE DEF g
  <2>9. Runs(g, D, k + 1, base, step)
    BY <2>4, <2>7, <2>8 DEF Runs
  <2> QED  BY <2>9
<1> HIDE DEF A
<1>3. n \in A
  BY <1>1, <1>2, SetInduction
<1> QED  BY <1>3 DEF A

\* The members of two lists put together.
LEMMA ConcatHas ==
  ASSUME NEW S, NEW a \in Seq(S), NEW b \in Seq(S)
  PROVE  a \o b \in Seq(S) /\ ToSet(a \o b) = ToSet(a) \cup ToSet(b)
<1>1. /\ a \o b \in Seq(S) /\ Len(a \o b) = Len(a) + Len(b)
      /\ \A i \in 1 .. Len(a) : (a \o b)[i] = a[i]
      /\ \A i \in 1 .. Len(b) : (a \o b)[Len(a) + i] = b[i]
  OBVIOUS
<1>2. ASSUME NEW x \in ToSet(a \o b) PROVE x \in ToSet(a) \cup ToSet(b)
  <2>1. PICK i \in 1 .. Len(a) + Len(b) : (a \o b)[i] = x
    BY <1>1 DEF ToSet
  <2>2. CASE i \in 1 .. Len(a)
    BY <1>1, <2>1, <2>2 DEF ToSet
  <2>3. CASE i \notin 1 .. Len(a)
    <3>1. i - Len(a) \in 1 .. Len(b) /\ i = Len(a) + (i - Len(a))
      BY <2>3
    <3>2. b[i - Len(a)] = x
      BY <1>1, <2>1, <3>1
    <3> QED  BY <3>1, <3>2 DEF ToSet
  <2> QED  BY <2>2, <2>3
<1>3. ASSUME NEW x \in ToSet(a) PROVE x \in ToSet(a \o b)
  BY <1>1, <1>3 DEF ToSet
<1>4. ASSUME NEW x \in ToSet(b) PROVE x \in ToSet(a \o b)
  <2>1. PICK i \in 1 .. Len(b) : b[i] = x
    BY DEF ToSet
  <2>2. Len(a) + i \in DOMAIN (a \o b) /\ (a \o b)[Len(a) + i] = x
    BY <1>1, <2>1
  <2> QED  BY <2>2 DEF ToSet
<1> QED  BY <1>1, <1>2, <1>3, <1>4

\* A list of lists, one after the other: its members are theirs.
LEMMA FlattenIs ==
  ASSUME NEW S, NEW ss \in Seq(Seq(S))
  PROVE  FlattenSeq(ss) \in Seq(S) /\ ToSet(FlattenSeq(ss)) = UNION {ToSet(ss[i]) : i \in DOMAIN ss}
<1> DEFINE n == Len(ss)
           Flat(f) == f = [i \in 1 .. n |-> IF i = 1 THEN ss[i] ELSE f[i - 1] \o ss[i]]
           flatten == CHOOSE f : Flat(f)
<1>1. n \in Nat /\ DOMAIN ss = 1 .. n /\ \A i \in 1 .. n : ss[i] \in Seq(S)
  OBVIOUS
<1>2. CASE n = 0
  <2>1. FlattenSeq(ss) = <<>> /\ DOMAIN ss = {} /\ ToSet(<<>>) = {}
    BY <1>2 DEF FlattenSeq, ToSet
  <2> QED  BY <2>1
<1>3. CASE n # 0
  <2>1. \E f : Flat(f)
    <3> DEFINE step == [k \in 1 .. n |-> [a \in Seq(S) |-> IF k = 1 THEN ss[1] ELSE a \o ss[k]]]
    <3>1. step \in [1 .. n -> [Seq(S) -> Seq(S)]]
      <4>1. ASSUME NEW k \in 1 .. n, NEW a \in Seq(S) PROVE (IF k = 1 THEN ss[1] ELSE a \o ss[k]) \in Seq(S)
        BY <1>1, ConcatHas
      <4> QED  BY <4>1
    <3>2. \A k \in 1 .. n : \A a \in Seq(S) : step[k][a] = IF k = 1 THEN ss[1] ELSE a \o ss[k]
      OBVIOUS
    <3> HIDE DEF step
    <3>3. PICK g : Runs(g, Seq(S), n, <<>>, step)
      <4>1. <<>> \in Seq(S)
        OBVIOUS
      <4> QED  BY <1>1, <3>1, <4>1, RecursionExists
    <3> DEFINE h == [i \in 1 .. n |-> g[i]]
    <3>4. ASSUME NEW i \in 1 .. n PROVE g[i] = IF i = 1 THEN ss[i] ELSE h[i - 1] \o ss[i]
      <4>1. i - 1 \in 0 .. n /\ (i # 1 => i - 1 \in 1 .. n)
        BY <1>1
      <4>2. g[i - 1] \in Seq(S) /\ g[i] = step[i][g[i - 1]]
        BY <3>3, <4>1 DEF Runs
      <4>3. g[i] = IF i = 1 THEN ss[1] ELSE g[i - 1] \o ss[i]
        BY <3>2, <4>2
      <4>4. i # 1 => h[i - 1] = g[i - 1]
        BY <4>1
      <4> QED  BY <4>3, <4>4
    <3>5. Flat(h)
      BY <3>4
    <3> QED  BY <3>5
  <2>2. Flat(flatten)
    BY <2>1
  <2> HIDE DEF flatten
  <2> DEFINE Good(k) == /\ flatten[k] \in Seq(S)
                        /\ \A x : x \in ToSet(flatten[k]) <=> \E i \in 1 .. k : x \in ToSet(ss[i])
             A == {k \in Nat : k + 1 <= n => Good(k + 1)}
  <2>3. 0 \in A
    <3>1. flatten[1] = ss[1] /\ ss[1] \in Seq(S)
      BY <1>1, <1>3, <2>2
    <3>2. \A i : i \in 1 .. 0 + 1 <=> i = 1
      OBVIOUS
    <3>3. \A x : x \in ToSet(flatten[0 + 1]) <=> \E i \in 1 .. 0 + 1 : x \in ToSet(ss[i])
      BY <3>1, <3>2
    <3> QED  BY <3>1, <3>3
  <2>4. ASSUME NEW k \in Nat, k \in A PROVE k + 1 \in A
    <3> SUFFICES ASSUME k + 1 + 1 <= n PROVE Good(k + 1 + 1)
      OBVIOUS
    <3>1. Good(k + 1)
      BY <1>1, <2>4
    <3>2. k + 1 + 1 \in 1 .. n /\ k + 1 + 1 # 1 /\ k + 1 + 1 - 1 = k + 1
      BY <1>1
    <3>3. flatten[k + 1 + 1] = flatten[k + 1] \o ss[k + 1 + 1]
      <4>1. \A i \in 1 .. n : flatten[i] = IF i = 1 THEN ss[i] ELSE flatten[i - 1] \o ss[i]
        BY <2>2
      <4>2. PICK m \in 1 .. n : m = k + 1 + 1
        BY <3>2
      <4>3. flatten[m] = flatten[m - 1] \o ss[m]
        BY <3>2, <4>1, <4>2
      <4>4. m - 1 = k + 1
        BY <4>2
      <4> QED  BY <4>2, <4>3, <4>4
    <3>4. ss[k + 1 + 1] \in Seq(S)
      BY <1>1, <3>2
    <3>5. \A i : i \in 1 .. k + 1 + 1 <=> i \in 1 .. k + 1 \/ i = k + 1 + 1
      OBVIOUS
    <3>6. /\ flatten[k + 1 + 1] \in Seq(S)
          /\ ToSet(flatten[k + 1 + 1]) = ToSet(flatten[k + 1]) \cup ToSet(ss[k + 1 + 1])
      BY <3>1, <3>3, <3>4, ConcatHas
    <3>7. \A x : x \in ToSet(flatten[k + 1 + 1]) <=> \E i \in 1 .. k + 1 + 1 : x \in ToSet(ss[i])
      BY <3>1, <3>5, <3>6, Zenon
    <3> QED  BY <3>6, <3>7
  <2> HIDE DEF A
  <2>5. \A k \in Nat : k \in A
    BY <2>3, <2>4, SetInduction
  <2>6. Good(n)
    <3>1. n - 1 \in Nat /\ n - 1 + 1 = n
      BY <1>1, <1>3
    <3>2. n - 1 \in A
      BY <2>5, <3>1
    <3> QED  BY <3>1, <3>2 DEF A
  <2>7. FlattenSeq(ss) = flatten[n]
    BY <1>3 DEF FlattenSeq, flatten
  <2> QED  BY <1>1, <2>6, <2>7
<1> QED  BY <1>2, <1>3

\* A list made of each member of another.
LEMMA EachIs ==
  ASSUME NEW S, NEW s \in Seq(S), NEW T, NEW f \in [DOMAIN s -> T]
  PROVE  f \in Seq(T) /\ Len(f) = Len(s) /\ DOMAIN f = DOMAIN s /\ \A x \in ToSet(f) : \E i \in DOMAIN s : f[i] = x
<1>1. DOMAIN s = 1 .. Len(s) /\ Len(s) \in Nat
  OBVIOUS
<1>2. f \in Seq(T) /\ Len(f) = Len(s)
  BY <1>1, FunctionIsSeq
<1>3. DOMAIN f = DOMAIN s
  OBVIOUS
<1> QED  BY <1>2, <1>3 DEF ToSet

\* A list of each member of another, one after the other.
LEMMA FlattenEach ==
  ASSUME NEW S, NEW s \in Seq(S), NEW T, NEW f \in [DOMAIN s -> Seq(T)]
  PROVE  FlattenSeq(f) \in Seq(T) /\ ToSet(FlattenSeq(f)) = UNION {ToSet(f[i]) : i \in DOMAIN s}
<1>1. f \in Seq(Seq(T)) /\ DOMAIN f = DOMAIN s
  BY EachIs
<1> QED  BY <1>1, FlattenIs

\* A part of a list has members of it.
LEMMA KeptHas ==
  ASSUME NEW S, NEW s \in Seq(S), NEW I \in SUBSET DOMAIN s
  PROVE  Kept(s, I) \in Seq(S) /\ ToSet(Kept(s, I)) \subseteq ToSet(s) /\ \A x \in ToSet(Kept(s, I)) : \E i \in I : s[i] = x
<1>1. /\ Kept(s, I) \in Seq(S)
      /\ \A p \in DOMAIN Kept(s, I) : Nth(I, p) \in I /\ Kept(s, I)[p] = s[Nth(I, p)]
  BY KeptIs
<1>2. \A x \in ToSet(Kept(s, I)) : \E i \in I : s[i] = x
  BY <1>1 DEF ToSet
<1> QED  BY <1>1, <1>2 DEF ToSet

\* The first of a list have members of it.
LEMMA TopHas ==
  ASSUME NEW S, NEW s \in Seq(S), NEW n \in Nat
  PROVE  Top(s, n) \in Seq(S) /\ ToSet(Top(s, n)) \subseteq ToSet(s)
<1>1. Top(s, n) \in Seq(S) /\ DOMAIN Top(s, n) \subseteq DOMAIN s /\ \A i \in DOMAIN Top(s, n) : Top(s, n)[i] = s[i]
  BY TopIs
<1> QED  BY <1>1 DEF ToSet

\* The sum of a list is no less than any of its members.
LEMMA TotalIs ==
  ASSUME NEW s \in Seq(Nat)
  PROVE  Total(s) \in Nat /\ \A i \in DOMAIN s : s[i] <= Total(s)
<1> DEFINE n == Len(s)
           Sums(f) == f = [k \in 0 .. n |-> IF k = 0 THEN 0 ELSE f[k - 1] + s[k]]
           upto == CHOOSE f : Sums(f)
           step == [k \in 1 .. n |-> [a \in Nat |-> a + s[k]]]
<1>1. n \in Nat /\ DOMAIN s = 1 .. n /\ \A i \in 1 .. n : s[i] \in Nat
  OBVIOUS
<1>2. \E f : Sums(f)
  <2>1. step \in [1 .. n -> [Nat -> Nat]]
    BY <1>1
  <2>2. \A k \in 1 .. n : \A a \in Nat : step[k][a] = a + s[k]
    OBVIOUS
  <2> HIDE DEF step, n
  <2>3. PICK g : Runs(g, Nat, n, 0, step)
    BY <1>1, <2>1, RecursionExists
  <2>4. g \in [0 .. n -> Nat] /\ g[0] = 0 /\ \A i \in 1 .. n : g[i] = step[i][g[i - 1]]
    BY <2>3 DEF Runs
  <2>5. ASSUME NEW k \in 0 .. n PROVE g[k] = IF k = 0 THEN 0 ELSE g[k - 1] + s[k]
    <3>1. k # 0 => k \in 1 .. n /\ k - 1 \in 0 .. n
      BY <1>1
    <3> QED  BY <2>2, <2>4, <3>1
  <2>6. g = [k \in 0 .. n |-> g[k]]
    BY <2>4
  <2>7. Sums(g)
    BY <2>5, <2>6
  <2> QED  BY <2>7
<1>3. Sums(upto)
  BY <1>2
<1> HIDE DEF upto
<1>4. \A k \in 0 .. n : upto[k] = IF k = 0 THEN 0 ELSE upto[k - 1] + s[k]
  BY <1>3
<1> DEFINE Good(k) == upto[k] \in Nat /\ \A i \in 1 .. k : s[i] <= upto[k]
           A == {k \in Nat : k <= n => Good(k)}
<1>5. 0 \in A
  BY <1>1, <1>4
<1>6. ASSUME NEW k \in Nat, k \in A PROVE k + 1 \in A
  <2> SUFFICES ASSUME k + 1 <= n PROVE Good(k + 1)
    OBVIOUS
  <2>1. Good(k) /\ k + 1 \in 0 .. n /\ k + 1 \in 1 .. n
    BY <1>1, <1>6
  <2>2. upto[k + 1] = upto[k] + s[k + 1]
    <3>1. PICK m \in 0 .. n : m = k + 1
      BY <2>1
    <3>2. upto[m] = upto[m - 1] + s[m] /\ m - 1 = k
      BY <1>4, <3>1
    <3> QED  BY <3>1, <3>2
  <2>3. s[k + 1] \in Nat
    BY <1>1, <2>1
  <2>4. \A i \in 1 .. k : s[i] \in Nat
    BY <1>1, <2>1
  <2> QED  BY <2>1, <2>2, <2>3, <2>4
<1> HIDE DEF A
<1>7. n \in A
  BY <1>1, <1>5, <1>6, SetInduction
<1>8. Total(s) = upto[n]
  BY DEF Total, upto
<1> QED  BY <1>1, <1>7, <1>8 DEF A

\* A product of two is no less than either.
LEMMA TimesGrows ==
  ASSUME NEW a \in Nat \ {0}, NEW b \in Nat \ {0}
  PROVE  a * b \in Nat \ {0} /\ a <= a * b /\ b <= a * b
<1>1. PICK c \in Nat : b = c + 1
  <2>1. b - 1 \in Nat /\ b = (b - 1) + 1
    OBVIOUS
  <2> QED  BY <2>1
<1>2. PICK d \in Nat : a = d + 1
  <2>1. a - 1 \in Nat /\ a = (a - 1) + 1
    OBVIOUS
  <2> QED  BY <2>1
<1>3. c * d \in Nat
  OBVIOUS
<1>4. a * b = c * d + c + d + 1
  BY <1>1, <1>2
<1> QED  BY <1>1, <1>2, <1>3, <1>4

\* The product of a list is no less than any of its members.
LEMMA ProductIs ==
  ASSUME NEW s \in Seq(Nat \ {0})
  PROVE  Product(s) \in Nat \ {0} /\ \A i \in DOMAIN s : s[i] <= Product(s)
<1> DEFINE n == Len(s)
           P == Nat \ {0}
           Products(f) == f = [k \in 0 .. n |-> IF k = 0 THEN 1 ELSE f[k - 1] * s[k]]
           upto == CHOOSE f : Products(f)
           step == [k \in 1 .. n |-> [a \in P |-> a * s[k]]]
<1>1. n \in Nat /\ DOMAIN s = 1 .. n /\ 1 \in P /\ \A i \in 1 .. n : s[i] \in P /\ s[i] \in Nat
  OBVIOUS
<1>2. \E f : Products(f)
  <2>1. step \in [1 .. n -> [P -> P]]
    <3>1. \A k \in 1 .. n : \A a \in P : a * s[k] \in P
      BY <1>1, TimesGrows
    <3> QED  BY <3>1
  <2>2. \A k \in 1 .. n : \A a \in P : step[k][a] = a * s[k]
    OBVIOUS
  <2> HIDE DEF step, n, P
  <2>3. PICK g : Runs(g, P, n, 1, step)
    BY <1>1, <2>1, RecursionExists
  <2>4. g \in [0 .. n -> P] /\ g[0] = 1 /\ \A i \in 1 .. n : g[i] = step[i][g[i - 1]]
    BY <2>3 DEF Runs
  <2>5. ASSUME NEW k \in 0 .. n PROVE g[k] = IF k = 0 THEN 1 ELSE g[k - 1] * s[k]
    <3>1. k # 0 => k \in 1 .. n /\ k - 1 \in 0 .. n
      BY <1>1
    <3> QED  BY <2>2, <2>4, <3>1
  <2>6. g = [k \in 0 .. n |-> g[k]]
    BY <2>4
  <2>7. Products(g)
    BY <2>5, <2>6
  <2> QED  BY <2>7
<1>3. Products(upto)
  BY <1>2
<1> HIDE DEF upto
<1>4. \A k \in 0 .. n : upto[k] = IF k = 0 THEN 1 ELSE upto[k - 1] * s[k]
  BY <1>3
<1> DEFINE Good(k) == upto[k] \in P /\ \A i \in 1 .. k : s[i] <= upto[k]
           A == {k \in Nat : k <= n => Good(k)}
<1>5. 0 \in A
  BY <1>1, <1>4
<1>6. ASSUME NEW k \in Nat, k \in A PROVE k + 1 \in A
  <2> SUFFICES ASSUME k + 1 <= n PROVE Good(k + 1)
    OBVIOUS
  <2>1. Good(k) /\ k + 1 \in 0 .. n /\ k + 1 \in 1 .. n
    BY <1>1, <1>6
  <2>2. upto[k + 1] = upto[k] * s[k + 1]
    <3>1. PICK m \in 0 .. n : m = k + 1
      BY <2>1
    <3>2. upto[m] = upto[m - 1] * s[m] /\ m - 1 = k
      BY <1>4, <3>1
    <3> QED  BY <3>1, <3>2
  <2>3. s[k + 1] \in P
    BY <1>1, <2>1
  <2>4. upto[k + 1] \in P /\ upto[k] <= upto[k + 1] /\ s[k + 1] <= upto[k + 1]
    BY <2>1, <2>2, <2>3, TimesGrows
  <2>5. ASSUME NEW i \in 1 .. k + 1 PROVE s[i] <= upto[k + 1]
    <3>1. CASE i = k + 1
      BY <2>4, <3>1
    <3>2. CASE i # k + 1
      <4>1. i \in 1 .. k /\ i \in 1 .. n
        BY <1>1, <2>1, <3>2
      <4>2. s[i] \in Nat /\ upto[k] \in Nat /\ upto[k + 1] \in Nat /\ s[i] <= upto[k]
        BY <1>1, <2>1, <2>4, <4>1
      <4> QED  BY <2>4, <4>2
    <3> QED  BY <3>1, <3>2
  <2> QED  BY <2>4, <2>5
<1> HIDE DEF A
<1>7. n \in A
  BY <1>1, <1>5, <1>6, SetInduction
<1>8. Product(s) = upto[n]
  BY DEF Product, upto
<1> QED  BY <1>1, <1>7, <1>8 DEF A

-----------------------------------------------------------------------------
(* Whole texts                                                              *)

\* The numbers of a draft's references are natural numbers, and each reference
\* has its number among them.
LEMMA ReferredIs ==
  ASSUME NEW draft \in Seq(Bracketed)
  PROVE  /\ Referred(draft) \in Seq(Nat)
         /\ \A i \in DOMAIN draft : draft[i].form = "evidence" => draft[i].n \in ToSet(Referred(draft))
<1> DEFINE I    == {i \in DOMAIN draft : draft[i].form = "evidence"}
           refs == Kept(draft, I)
<1>1. /\ refs \in Seq(Bracketed) /\ DOMAIN refs = 1 .. Len(refs) /\ Len(refs) \in Nat
      /\ \A i \in I : \E p \in DOMAIN refs : refs[p] = draft[i]
  <2>1. I \in SUBSET DOMAIN draft
    OBVIOUS
  <2>2. refs \in Seq(Bracketed) /\ \A i \in I : \E p \in DOMAIN refs : refs[p] = draft[i]
    BY <2>1, KeptIs
  <2> HIDE DEF refs
  <2> QED  BY <2>2
<1>2. Referred(draft) = [p \in DOMAIN refs |-> refs[p].n]
  BY Zenon DEF Referred, Select, Each
<1> HIDE DEF refs
<1>3. \A p \in DOMAIN refs : refs[p].n \in Nat
  <2>1. \A p \in DOMAIN refs : refs[p] \in Bracketed
    BY <1>1
  <2>2. \A t \in Bracketed : t.n \in Nat
    BY DEF Bracketed
  <2> QED  BY <2>1, <2>2
<1>4. Referred(draft) \in Seq(Nat) /\ DOMAIN Referred(draft) = DOMAIN refs
  <2>1. Referred(draft) \in [1 .. Len(refs) -> Nat]
    BY <1>1, <1>2, <1>3
  <2> QED  BY <1>1, <1>2, <2>1, FunctionIsSeq
<1>5. ASSUME NEW i \in I
      PROVE  draft[i].n \in ToSet(Referred(draft))
  <2>1. PICK p \in DOMAIN refs : refs[p] = draft[i]
    BY <1>1
  <2> QED  BY <1>2, <1>4, <2>1 DEF ToSet
<1> QED  BY <1>4, <1>5

\* What the draft says stands in the client's text as it was, place for place;
\* each reference to evidence is a number that opens, in the list cites, the chunk
\* shown to the model under its number.
OpenAll(pack, named, shown, cites) ==
  /\ {shown, named} \subseteq Seq(Bracketed) /\ DOMAIN shown = DOMAIN named
  /\ \A i \in DOMAIN shown :
       IF named[i].form = "evidence"
       THEN /\ named[i].n \in Numbers(pack)
            /\ shown[i].n \in DOMAIN cites /\ cites[shown[i].n] = pack[named[i].n]
       ELSE shown[i].form = named[i].form

\* What the first renumbering makes of a token t of a draft that it keeps.
Renumbered(pack, draft, claimed, t) ==
  IF t.form = "evidence"
  THEN [form |-> "plain", n |-> Position(Referred(draft) \o claimed, Numbers(pack), t.n)]
  ELSE t

\* u is a token for t that cites the chunk t refers to, and that the backend keeps
\* if the chunks still there let it.
Stands(pack, raw, present, t, u) ==
  /\ u \in Bracketed
  /\ t.form = "evidence" => u.form = "plain" /\ u.n \in DOMAIN raw /\ raw[u.n] = pack[t.n]
  /\ t.form # "evidence" => u = t
  /\ Survives(raw, present, u)
       <=> /\ t.form = "evidence" => t.n \in Numbers(pack) /\ pack[t.n] \in present
           /\ Survives(raw, present, t)

\* The first renumbering puts such a token in the place of each it keeps.
LEMMA RenumberedIs ==
  ASSUME NEW S, NEW pack \in Seq(S), NEW draft \in Seq(Bracketed), NEW claimed \in Seq(Nat),
         NEW present, NEW raw, raw = DraftCitations(pack, Referred(draft), claimed)
  PROVE  \A t \in ToSet(draft) : Resolves(pack, t) => Stands(pack, raw, present, t, Renumbered(pack, draft, claimed, t))
<1> SUFFICES ASSUME NEW t \in ToSet(draft), Resolves(pack, t),
                    NEW u, u = Renumbered(pack, draft, claimed, t)
             PROVE  Stands(pack, raw, present, t, u)
  OBVIOUS
<1>1. t \in Bracketed /\ \E i \in DOMAIN draft : draft[i] = t
  BY DEF ToSet
<1>2. CASE t.form # "evidence"
  BY <1>1, <1>2 DEF Renumbered, Survives, Stands
<1>3. CASE t.form = "evidence"
  <2> DEFINE marks == Referred(draft)
             m     == Position(marks \o claimed, Numbers(pack), t.n)
  <2>1. marks \in Seq(Nat) /\ t.n \in ToSet(marks) /\ t.n \in Numbers(pack)
    BY <1>1, <1>3, ReferredIs DEF Resolves
  <2> HIDE DEF marks
  <2>2. t.n \in ToSet(marks \o claimed)
    <3>1. PICK i \in DOMAIN marks : marks[i] = t.n
      BY <2>1 DEF ToSet
    <3>2. i \in DOMAIN (marks \o claimed) /\ (marks \o claimed)[i] = t.n
      BY <2>1, <3>1
    <3> QED  BY <3>2 DEF ToSet
  <2>3. m \in DOMAIN DraftCitations(pack, marks, claimed) /\ DraftCitations(pack, marks, claimed)[m] = pack[t.n]
    BY <2>1, <2>2, DraftMarkerOpensItsEvidence
  <2>4. m \in DOMAIN raw /\ raw[m] = pack[t.n]
    BY <2>3 DEF marks
  <2>5. raw \in Seq(S)
    <3>1. DraftCitations(pack, marks, claimed) \in Seq(S)
      BY <2>1, DraftCitationsType
    <3> QED  BY <3>1 DEF marks
  <2>6. m \in Nat
    BY <2>4, <2>5
  <2>7. u = [form |-> "plain", n |-> m]
    BY <1>3 DEF Renumbered, marks
  <2> HIDE DEF m
  <2>8. u \in Bracketed /\ u.form = "plain" /\ u.n = m
    BY <2>6, <2>7 DEF Bracketed, Forms
  <2>9. Survives(raw, present, u) <=> pack[t.n] \in present
    BY <2>4, <2>8 DEF Survives, Mapped
  <2>10. Survives(raw, present, t)
    BY <1>3 DEF Survives
  <2> QED  BY <1>3, <2>1, <2>4, <2>8, <2>9, <2>10 DEF Stands
<1> QED  BY <1>2, <1>3

\* Both renumberings, for the text as a whole and whatever the model wrote in
\* brackets: place for place the client's text is what is left of the draft, and
\* where the draft referred to evidence it has the number of that evidence's
\* chunk, in spite of the references and citations dropped in between.  (What the
\* model wrote as [n] itself is given a number too, by position.)
THEOREM EveryMarkerOpensWhatWasMeant ==
  ASSUME NEW S, NEW pack \in Seq(S), NEW draft \in Seq(Bracketed), NEW claimed \in Seq(Nat),
         NEW present,
         NEW raw, raw = DraftCitations(pack, Referred(draft), claimed),
         NEW shown, shown = AlignedText(raw, present, DraftText(pack, draft, claimed)),
         NEW named, named = Through(pack, raw, present, draft)
  PROVE  OpenAll(pack, named, shown, AlignedCitations(raw, present))
<1> DEFINE first  == {t \in ToSet(draft) : Resolves(pack, t)}
           kept   == Among(draft, first)
           sent   == DraftText(pack, draft, claimed)
           both   == {t \in ToSet(draft) : /\ t.form = "evidence" => t.n \in Numbers(pack) /\ pack[t.n] \in present
                                           /\ Survives(raw, present, t)}
           second == {t \in ToSet(sent) : Survives(raw, present, t)}
           cut    == Among(sent, second)
           cites  == AlignedCitations(raw, present)
<1>1. Referred(draft) \in Seq(Nat) /\ raw \in Seq(S)
  BY ReferredIs, DraftCitationsType
<1>2. /\ kept \in Seq(Bracketed)
      /\ \A q \in DOMAIN kept : kept[q] \in first
  BY AmongIsLeft
<1>3. DOMAIN kept = 1 .. Len(kept) /\ Len(kept) \in Nat
  BY <1>2
<1>4. sent = [q \in DOMAIN kept |-> Renumbered(pack, draft, claimed, kept[q])]
  BY Zenon DEF DraftText, Renumbered
<1>5. ASSUME NEW q \in DOMAIN kept
      PROVE  /\ sent[q] \in Bracketed
             /\ kept[q].form = "evidence" => sent[q].form = "plain" /\ sent[q].n \in DOMAIN raw /\ raw[sent[q].n] = pack[kept[q].n]
             /\ kept[q].form # "evidence" => sent[q] = kept[q]
             /\ Survives(raw, present, sent[q]) <=> kept[q] \in both
  <2>1. kept[q] \in ToSet(draft) /\ Resolves(pack, kept[q])
    BY <1>2
  <2>2. \A t \in ToSet(draft) : Resolves(pack, t) => Stands(pack, raw, present, t, Renumbered(pack, draft, claimed, t))
    BY RenumberedIs
  <2>3. PICK t, u : t = kept[q] /\ u = sent[q] /\ u = Renumbered(pack, draft, claimed, t)
    BY <1>4
  <2> HIDE DEF kept, sent
  <2>4. Stands(pack, raw, present, t, u)
    BY <2>1, <2>2, <2>3, Zenon
  <2>5. Survives(raw, present, u) <=> t \in both
    BY <2>1, <2>3, <2>4 DEF Stands
  <2> HIDE DEF both
  <2> QED  BY <2>3, <2>4, <2>5 DEF Stands
<1>6. sent \in Seq(Bracketed) /\ Len(sent) = Len(kept) /\ DOMAIN sent = DOMAIN kept
  <2>1. sent \in [1 .. Len(kept) -> Bracketed]
    BY <1>3, <1>4, <1>5
  <2> QED  BY <1>3, <2>1, FunctionIsSeq
<1> HIDE DEF sent, kept
<1>7. \A q \in DOMAIN sent : sent[q] \in second <=> kept[q] \in both
  BY <1>5, <1>6 DEF ToSet
<1>8. both \subseteq first /\ named = Among(draft, both)
  <2>1. both \subseteq first
    BY DEF Resolves
  <2> QED  BY <2>1, Zenon DEF Through
<1>9. /\ Len(cut) = Len(named)
      /\ \A p \in DOMAIN cut : \E q \in DOMAIN sent : cut[p] = sent[q] /\ named[p] = kept[q]
  <2> HIDE DEF both, first, second
  <2>1. Renamed(draft, first, both, sent, second)
    BY <1>6, <1>7, <1>8 DEF Renamed, kept
  <2>2. ASSUME NEW r \in Seq(Bracketed), NEW c, Renamed(draft, first, both, r, c)
        PROVE  SameCut(draft, first, both, r, c)
    BY <2>2, CutTwice
  <2>3. SameCut(draft, first, both, sent, second)
    BY <1>6, <2>1, <2>2, Zenon
  <2> QED  BY <1>8, <2>3 DEF SameCut, kept
<1>10. /\ cut \in Seq(Bracketed) /\ \A p \in DOMAIN cut : cut[p] \in second
       /\ named \in Seq(Bracketed) /\ \A p \in DOMAIN named : named[p] \in both
  <2>1. cut \in Seq(Bracketed) /\ \A p \in DOMAIN cut : cut[p] \in second
    BY <1>6, AmongIsLeft
  <2>2. Among(draft, both) \in Seq(Bracketed) /\ \A p \in DOMAIN Among(draft, both) : Among(draft, both)[p] \in both
    BY AmongIsLeft
  <2> HIDE DEF cut, both, second
  <2> QED  BY <1>8, <2>1, <2>2
<1>11. shown = [i \in DOMAIN cut |->
                 IF cut[i].form = "plain" THEN [cut[i] EXCEPT !.n = Mapping(raw, present, @)] ELSE cut[i]]
  BY Zenon DEF AlignedText, cut, sent, second
<1>12. \A p \in DOMAIN cut : cut[p] \in Bracketed /\ Survives(raw, present, cut[p])
  BY <1>10
<1>13. \A p \in DOMAIN named : named[p].form = "evidence" => named[p].n \in Numbers(pack)
  BY <1>10
<1>14. DOMAIN cites \subseteq Nat
  <2>1. cites \in Seq(S)
    BY <1>1, ListingType DEF AlignedCitations
  <2> QED  BY <2>1
<1> HIDE DEF cut, cites, both, first, second
<1>15. ASSUME NEW i \in DOMAIN cut
       PROVE  /\ shown[i] \in Bracketed
              /\ shown[i].form = cut[i].form
              /\ cut[i].form = "plain" => shown[i].n \in DOMAIN cites /\ cites[shown[i].n] = raw[cut[i].n]
  <2> DEFINE c == cut[i]
             m == Mapping(raw, present, cut[i].n)
  <2>1. c \in Bracketed /\ Survives(raw, present, c)
    BY <1>12
  <2>2. CASE c.form # "plain"
    <3>1. shown[i] = c
      BY <1>11, <2>2
    <3> QED  BY <2>1, <2>2, <3>1
  <2>3. CASE c.form = "plain"
    <3>1. c.n \in Mapped(raw, present)
      BY <2>1, <2>3 DEF Survives
    <3>2. m \in DOMAIN cites /\ cites[m] = raw[c.n]
      BY <1>1, <3>1, AlignedMarkerOpensItsChunk DEF cites
    <3>3. m \in Nat
      BY <1>14, <3>2
    <3> HIDE DEF m
    <3>4. shown[i] = [c EXCEPT !.n = m]
      BY <1>11, <2>3 DEF m
    <3>5. shown[i] = [form |-> c.form, n |-> m] /\ c.form \in Forms
      BY <2>1, <3>4 DEF Bracketed
    <3> HIDE DEF c
    <3>6. shown[i] \in Bracketed /\ shown[i].form = c.form /\ shown[i].n = m
      BY <3>3, <3>5 DEF Bracketed
    <3> QED  BY <3>2, <3>6 DEF c
  <2> QED  BY <2>2, <2>3
<1>16. /\ DOMAIN shown = DOMAIN cut /\ DOMAIN cut = 1 .. Len(cut)
       /\ DOMAIN cut = DOMAIN named /\ Len(cut) \in Nat
  BY <1>9, <1>10, <1>11
<1>17. shown \in Seq(Bracketed)
  <2>1. shown \in [1 .. Len(cut) -> Bracketed]
    BY <1>11, <1>15, <1>16
  <2> QED  BY <1>16, <2>1, FunctionIsSeq
<1>18. ASSUME NEW i \in DOMAIN shown
       PROVE  IF named[i].form = "evidence"
              THEN shown[i].n \in DOMAIN cites /\ cites[shown[i].n] = pack[named[i].n]
              ELSE shown[i].form = named[i].form
  <2>1. PICK q \in DOMAIN sent : cut[i] = sent[q] /\ named[i] = kept[q]
    BY <1>9, <1>16
  <2>2. /\ named[i].form = "evidence" => cut[i].form = "plain" /\ raw[cut[i].n] = pack[named[i].n]
        /\ named[i].form # "evidence" => cut[i] = named[i]
    BY <1>5, <1>6, <2>1
  <2>3. /\ shown[i].form = cut[i].form
        /\ cut[i].form = "plain" => shown[i].n \in DOMAIN cites /\ cites[shown[i].n] = raw[cut[i].n]
    BY <1>15, <1>16
  <2> QED  BY <2>2, <2>3
<1> QED  BY <1>10, <1>13, <1>16, <1>17, <1>18 DEF OpenAll, cites
=============================================================================
