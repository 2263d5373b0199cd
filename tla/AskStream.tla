----------------------------- MODULE AskStream -----------------------------
(***************************************************************************)
(* A question in the AI service, as its stages see it: the thread that     *)
(* runs the pipeline and announces each stage (on_stage), the queue it     *)
(* puts its events in, the generator that sends them to the client, and    *)
(* the client, who may leave.  A question asked without a stream (/ask,    *)
(* /evaluate) runs the same stages and announces nothing.                  *)
(*                                                                         *)
(* The queue is a log of all events put and the number taken out of it.    *)
(***************************************************************************)
EXTENDS Integers, Sequences

VARIABLES
  worker,    \* "idle", "working", "entering" (past the check of on_stage), "ending", "done"
  now,       \* the stage it is in
  next,      \* the stage it is entering
  log,       \* events put
  taken,     \* how many the generator took
  sent,      \* how many the client was sent
  cancelled,
  stream,    \* "none", or the generator: "idle", "open", "closed"
  client     \* "there", "gone"

streamVars == <<worker, now, next, log, taken, sent, cancelled, stream, client>>

\* The stages that may come after a stage; none after the last ones.
Follows ==
  [start          |-> {"loading_models"},
   loading_models |-> {"rewriting", "retrieving"},
   rewriting      |-> {"retrieving"},
   retrieving     |-> {"background", "generating"},
   background     |-> {},
   generating     |-> {"verifying"},
   verifying      |-> {}]

Stages == DOMAIN Follows

\* An event is the name of a stage, or one of these.
Outcomes == {"result", "error"}
Events   == Stages \cup Outcomes \cup {"end"}

StreamInit ==
  /\ worker = "idle" /\ now = "start" /\ next = "start"
  /\ log = <<>> /\ taken = 0 /\ sent = 0
  /\ cancelled = FALSE /\ client = "there"
  /\ stream \in {"none", "idle"}

Put(e) == log' = IF stream = "none" THEN log ELSE Append(log, e)

-----------------------------------------------------------------------------
(* The thread *)

Begin ==
  /\ worker = "idle"
  /\ worker' = "working"
  /\ stream' = IF stream = "none" THEN "none" ELSE "open"
  /\ UNCHANGED <<now, next, log, taken, sent, cancelled, client>>

\* on_stage looks at the flag, and then puts the event.
Reach(s) ==
  /\ worker = "working" /\ s \in Follows[now]
  /\ ~cancelled
  /\ worker' = "entering" /\ next' = s
  /\ UNCHANGED <<now, log, taken, sent, cancelled, stream, client>>

Enter ==
  /\ worker = "entering"
  /\ worker' = "working" /\ now' = next
  /\ Put(next)
  /\ UNCHANGED <<next, taken, sent, cancelled, stream, client>>

GiveUp ==
  /\ worker = "working" /\ Follows[now] # {}
  /\ cancelled
  /\ worker' = "ending"
  /\ UNCHANGED <<now, next, log, taken, sent, cancelled, stream, client>>

Finish ==
  /\ worker = "working" /\ Follows[now] = {}
  /\ worker' = "ending"
  /\ Put("result")
  /\ UNCHANGED <<now, next, taken, sent, cancelled, stream, client>>

\* Whatever a stage raises is an event too.
FailSilently ==
  /\ worker = "working" /\ now # "start"
  /\ worker' = "ending"
  /\ UNCHANGED <<now, next, log, taken, sent, cancelled, stream, client>>
Fail ==
  /\ worker = "working" /\ now # "start"
  /\ worker' = "ending"
  /\ Put("error")
  /\ UNCHANGED <<now, next, taken, sent, cancelled, stream, client>>

PutEnd ==
  /\ worker = "ending"
  /\ worker' = "done"
  /\ Put("end")
  /\ UNCHANGED <<now, next, taken, sent, cancelled, stream, client>>

-----------------------------------------------------------------------------
(* The generator and the client *)

Leave ==
  /\ stream = "open" /\ client = "there"
  /\ client' = "gone"
  /\ UNCHANGED <<worker, now, next, log, taken, sent, cancelled, stream>>

Deliver ==
  /\ stream = "open" /\ client = "there"
  /\ taken < Len(log) /\ log[taken + 1] # "end"
  /\ taken' = taken + 1 /\ sent' = sent + 1
  /\ UNCHANGED <<worker, now, next, log, cancelled, stream, client>>

Close ==
  /\ stream = "open"
  /\ stream' = "closed"
  /\ cancelled' = TRUE
  /\ UNCHANGED <<worker, now, next, log, sent, client>>

EndOfStream ==
  /\ Close
  /\ taken < Len(log) /\ log[taken + 1] = "end"
  /\ taken' = taken + 1

\* At the next frame, a keep-alive at the latest, the generator is closed; an
\* event it had just taken is lost.
Notice ==
  /\ Close
  /\ client = "gone"
  /\ taken' \in {taken, IF taken < Len(log) THEN taken + 1 ELSE taken}

-----------------------------------------------------------------------------
Worker    == \/ (\E s \in Stages : Reach(s)) \/ Enter \/ GiveUp \/ Finish \/ Fail \/ PutEnd
Generator == Deliver \/ EndOfStream \/ Notice
StreamNext == Begin \/ Worker \/ Generator \/ Leave

StreamSpec == StreamInit /\ [][StreamNext]_streamVars

StreamTypeOK ==
  /\ worker \in {"idle", "working", "entering", "ending", "done"}
  /\ now \in Stages /\ next \in Stages
  /\ log \in Seq(Events)
  /\ taken \in Nat /\ sent \in Nat
  /\ cancelled \in BOOLEAN
  /\ stream \in {"none", "idle", "open", "closed"}
  /\ client \in {"there", "gone"}

\* What the client is sent is a run of the pipeline: its stages in their
\* order from the first on, then nothing or one result or error; and a client
\* who stayed until the stream closed was sent the result or the error
\* (ask_stream's docstring: "stage events while the pipeline runs, then one
\* result or error").
StreamShape ==
  /\ \A i \in 1 .. sent :
       IF i = 1 THEN log[1] \in Follows["start"]
       ELSE log[i - 1] \in Stages /\ log[i] \in Follows[log[i - 1]] \cup Outcomes
  /\ stream = "closed" /\ client = "there" => sent > 0 /\ log[sent] \in Outcomes
=============================================================================
