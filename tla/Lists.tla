-------------------------------- MODULE Lists --------------------------------
(***************************************************************************)
(* Lists as the Python of the AI service builds them (comprehensions with  *)
(* a condition, dict.fromkeys, sorted, sums), each given by the positions  *)
(* its members are taken from, and loops over lists.                       *)
(***************************************************************************)
EXTENDS Integers, SequencesExt, FiniteSetsExt

\* What a loop over s, from start, ends with.
Folded(op(_, _), start, s) ==
  LET upto[k \in 0 .. Len(s)] == IF k = 0 THEN start ELSE op(upto[k - 1], s[k])
  IN  upto[Len(s)]

Each(s, op(_)) == [i \in DOMAIN s |-> op(s[i])]

\* The first n.
Top(s, n) == SubSeq(s, 1, Min({n, Len(s)}))

\* The p-th number of I, a set of numbers.
Nth(I, p) == CHOOSE i \in I : Cardinality({j \in I : j <= i}) = p

\* What s has at the positions I, in their order.
Kept(s, I) == [p \in 1 .. Cardinality(I) |-> s[Nth(I, p)]]

Select(s, test(_)) == Kept(s, {i \in DOMAIN s : test(s[i])})

\* Each value once, where it first comes.
Once(s) == Kept(s, {i \in DOMAIN s : \A j \in 1 .. i - 1 : s[j] # s[i]})

\* sorted(..., reverse=True): highest key first, equal ones in their order.
NoLater(keys, i) == {j \in DOMAIN keys : keys[j] > keys[i] \/ (keys[j] = keys[i] /\ j <= i)}
InOrder(keys, p) == CHOOSE i \in DOMAIN keys : Cardinality(NoLater(keys, i)) = p
Ordered(s, keys) == [p \in DOMAIN s |-> s[InOrder(keys, p)]]

Best(s, key(_)) == Ordered(s, [i \in DOMAIN s |-> key(s[i])])

Total(s) ==
  LET upto[k \in 0 .. Len(s)] == IF k = 0 THEN 0 ELSE upto[k - 1] + s[k]
  IN  upto[Len(s)]
Product(s) ==
  LET upto[k \in 0 .. Len(s)] == IF k = 0 THEN 1 ELSE upto[k - 1] * s[k]
  IN  upto[Len(s)]
=============================================================================
