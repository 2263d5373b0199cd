---------------------------- MODULE MCAskService ----------------------------
(***************************************************************************)
(* Instances of AskService for TLC.                                        *)
(***************************************************************************)
EXTENDS AskService

CONSTANTS c1, c2, c3, k1, x, y

OneCall    == {c1}
ThreeCalls == {c1, c2, c3}
OneKey     == {k1}
KeyOrNone  == {k1, NoKey}
TwoChunks  == {x, y}

\* A [2] that is not the service's.
SecondAsMarker == {[form |-> "plain", n |-> 2]}

\* Among is SelectSeq, written without recursion.
ASSUME AmongSelects ==
  \A ok \in SUBSET (1 .. 3) : \A s \in SeqOf(1 .. 3, 4) :
    Among(s, ok) = SelectSeq(s, LAMBDA n : n \in ok)

\* Groups come through both renumberings as they are, and so does a marker the
\* model wrote itself, if there is a citation of its number.
ASSUME StraysInText ==
  LET e(n) == [form |-> "evidence", n |-> n]
      p(n) == [form |-> "plain", n |-> n]
      g(n) == [form |-> "group", n |-> n]
      draft == <<e(2), g(2), e(1), p(1), e(7), p(7), g(7)>>
      sent  == DraftText(<<x, y>>, draft, <<>>)
  IN  /\ sent = <<p(1), g(2), p(2), p(1), p(7), g(7)>>
      /\ AlignedText(<<y, x>>, {y}, sent) = <<p(1), g(2), p(1), g(7)>>
      /\ Through(<<x, y>>, <<y, x>>, {y}, draft) = <<e(2), g(2), p(1), g(7)>>
=============================================================================
