---------------------------- MODULE JobLifecycle ----------------------------
(***************************************************************************)
(* What the processing queue promises about a job, whatever happens to the *)
(* process that runs it: it is submitted once, tried at most MaxTries      *)
(* times, and once closed it is never tried or opened again; deleting its  *)
(* document removes it for good.                                           *)
(***************************************************************************)
EXTENDS Naturals

CONSTANTS Jobs, MaxTries

VARIABLES
  state,   \* [Jobs -> {"none", "open", "closed", "gone"}]
  tries    \* [Jobs -> Nat]

Init ==
  /\ state = [j \in Jobs |-> "none"]
  /\ tries = [j \in Jobs |-> 0]

Submit(j) ==
  /\ state[j] = "none"
  /\ state' = [state EXCEPT ![j] = "open"]
  /\ UNCHANGED tries

Try(j) ==
  /\ state[j] = "open" /\ tries[j] < MaxTries
  /\ tries' = [tries EXCEPT ![j] = @ + 1]
  /\ UNCHANGED state

Close(j) ==
  /\ state[j] = "open"
  /\ state' = [state EXCEPT ![j] = "closed"]
  /\ UNCHANGED tries

\* The jobs S go away with the document they belong to.
Cascade(S) ==
  /\ \A j \in S : state[j] \in {"open", "closed", "gone"}
  /\ state' = [j \in Jobs |-> IF j \in S THEN "gone" ELSE state[j]]
  /\ UNCHANGED tries

Next ==
  \/ \E j \in Jobs : Submit(j) \/ Try(j) \/ Close(j)
  \/ \E S \in SUBSET Jobs : Cascade(S)

Spec == Init /\ [][Next]_<<state, tries>>
=============================================================================
