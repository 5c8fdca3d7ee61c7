--------------------------- MODULE AiWorkerClient ---------------------------
(***************************************************************************)
(* The supervision of the inference process by kos-platform: a queue of    *)
(* two, one request in the process at a time, a watchdog per request, an   *)
(* idle shutdown, a cooldown after crashes, and cancellation               *)
(* (platform/src/ai/AiWorkerClient.cpp).                                   *)
(*                                                                         *)
(* The client runs on the daemon's event loop.  The process runs beside    *)
(* it: its lines and its end arrive later than they happen, and a signal   *)
(* sent to it takes effect later still.                                    *)
(***************************************************************************)
EXTENDS Naturals, Sequences, FiniteSets

CONSTANTS
  Depths,        \* depth.generate requests
  Resources,     \* spatial.initialize and spatial.inspect requests
  Clears,        \* spatial.clear requests
  Garbage,       \* a line that answers nothing
  QueueLimit,    \* maximumWorkerQueueSize
  MaxFaults,     \* bound: lines of garbage and exits of its own accord
  MaxCancels     \* bound: spatial.cancel requests

Requests == Depths \cup Resources \cup Clears
NoJob    == "none"

ASSUME WorkerAssumption ==
  /\ Depths \cap Resources = {} /\ Depths \cap Clears = {} /\ Resources \cap Clears = {}
  /\ Garbage \notin Requests /\ NoJob \notin Requests
  /\ QueueLimit \in Nat \ {0} /\ MaxFaults \in Nat /\ MaxCancels \in Nat

VARIABLES
  queue,      \* m_requests
  active,     \* m_active: the head of the queue was written to the process
  stopping,   \* m_stopping: standard input was closed, the exit is awaited
  idling,     \* m_idleTimeout runs
  cooling,    \* m_retryAfterMs lies ahead
  outcome,    \* what each request's completion was called with, call by call
  process,    \* none, starting, running, closing (at end of input), killed
  job,        \* the request that the process works on
  pipe,       \* lines of the process that the client has not handled
  answered,   \* history: requests that the process answered
  faults, cancels       \* counters of the bounds

client == <<queue, active, stopping, idling, cooling, outcome>>
child  == <<process, job, pipe, answered>>
vars   == <<client, child, faults, cancels>>

-----------------------------------------------------------------------------
Queued == {queue[n] : n \in DOMAIN queue}

Init ==
  /\ queue = <<>> /\ active = FALSE /\ stopping = FALSE
  /\ idling = FALSE /\ cooling = FALSE
  /\ outcome = [r \in Requests |-> <<>>]
  /\ process = "none" /\ job = NoJob /\ pipe = <<>> /\ answered = {}
  /\ faults = 0 /\ cancels = 0

\* The completions of the requests of S are called, with a failure.
Failed(o, S) == [r \in Requests |-> IF r \in S THEN Append(o[r], "failed") ELSE o[r]]

\* The completion of r is called with the answer.
Answered(o, r) == [o EXCEPT ![r] = Append(@, "answered")]

\* Faulty variant: the requests are dequeued only when the process ends.
FailAllInPlace(o) ==
  /\ outcome' = Failed(o, Queued)
  /\ queue' = queue /\ active' = FALSE

\* failAll, for the outcomes o that its caller leaves.
FailAll(o) ==
  /\ outcome' = Failed(o, Queued)
  /\ queue' = <<>> /\ active' = FALSE

\* QProcess::state() is Running, even if a signal is on its way.
Alive == process \in {"running", "closing", "killed"}

\* kill(): the end of the process is reported later.
AfterKill == IF process = "none" THEN "none" ELSE "killed"

-----------------------------------------------------------------------------
(* dispatchNext, for the queue q and the outcomes o that its caller leaves. *)
(* p is the state of the process.  A write may fail: the process may have  *)
(* ended already.                                                          *)

Dispatch(q, o, p, stop, cool) ==
  IF q = <<>> \/ stop \/ p = "starting"
  THEN /\ queue' = q /\ outcome' = o /\ active' = FALSE
       /\ process' = p /\ UNCHANGED job
  ELSE IF p = "none"
  THEN /\ job' = NoJob /\ active' = FALSE
       /\ IF cool
          THEN /\ outcome' = Failed(o, {q[n] : n \in DOMAIN q})
               /\ queue' = <<>> /\ process' = "none"
          ELSE outcome' = o /\ queue' = q /\ process' = "starting"
  ELSE \/ /\ active' = TRUE /\ queue' = q /\ outcome' = o
          /\ process' = p
          /\ job' = IF p = "running" THEN Head(q) ELSE job
       \/ /\ active' = FALSE /\ queue' = <<>>
          /\ outcome' = Failed(o, {q[n] : n \in DOMAIN q})
          /\ process' = "killed" /\ UNCHANGED job

\* Faulty variant: one request too many.
AdmittedLate(r) ==
  IF r \in Depths THEN Len(queue) <= QueueLimit ELSE queue = <<>>

\* Two requests at most, and a resource request only on its own.
Admitted(r) ==
  IF r \in Depths THEN Len(queue) < QueueLimit ELSE queue = <<>>

\* Faulty variant: only the start of a process dispatches.
SubmitCold(r) ==
  /\ outcome[r] = <<>> /\ r \notin Queued /\ r \notin Clears
  /\ idling' = IF r \in Depths \/ Admitted(r) THEN FALSE ELSE idling
  /\ IF ~Admitted(r)
     THEN /\ outcome' = Failed(outcome, {r})
          /\ UNCHANGED <<queue, active, process, job>>
     ELSE IF active \/ Alive
     THEN /\ queue' = Append(queue, r)
          /\ UNCHANGED <<outcome, active, process, job>>
     ELSE Dispatch(Append(queue, r), outcome, process, stopping, cooling)
  /\ UNCHANGED <<stopping, cooling, pipe, answered, faults, cancels>>

\* generateDepth and resourceOperation.
Submit(r) ==
  /\ outcome[r] = <<>> /\ r \notin Queued /\ r \notin Clears
  /\ idling' = IF r \in Depths \/ Admitted(r) THEN FALSE ELSE idling
  /\ IF ~Admitted(r)
     THEN /\ outcome' = Failed(outcome, {r})
          /\ UNCHANGED <<queue, active, process, job>>
     ELSE IF active
     THEN /\ queue' = Append(queue, r)
          /\ UNCHANGED <<outcome, active, process, job>>
     ELSE Dispatch(Append(queue, r), outcome, process, stopping, cooling)
  /\ UNCHANGED <<stopping, cooling, pipe, answered, faults, cancels>>

-----------------------------------------------------------------------------
(* cancel() and the timers.                                                *)

\* cancel() fails everything, kills the process and waits a second for its
\* end, which may come later; there is no cooldown.
CancelAll(o) ==
  /\ FailAll(o)
  /\ stopping' = FALSE /\ cooling' = FALSE
  /\ process' \in {"none", AfterKill}
  /\ job' = NoJob /\ pipe' = <<>>

Cancel ==
  /\ cancels < MaxCancels
  /\ cancels' = cancels + 1
  /\ CancelAll(outcome)
  /\ idling' = FALSE
  /\ UNCHANGED <<answered, faults>>

\* spatial.clear cancels, then asks a process of its own to clear.
Clear(r) ==
  /\ r \in Clears /\ outcome[r] = <<>> /\ r \notin Queued
  /\ idling' = FALSE /\ stopping' = FALSE /\ cooling' = FALSE /\ pipe' = <<>>
  /\ \E p \in {"none", AfterKill} :
       Dispatch(<<r>>, Failed(outcome, Queued), p, FALSE, FALSE)
  /\ UNCHANGED <<answered, faults, cancels>>

\* failAll and then a kill, with the lines rest unread.  The completion of a
\* clear cancels in its turn.
FailAndKill(rest) ==
  \/ /\ Queued \cap Clears # {}
     /\ CancelAll(outcome) /\ idling' = FALSE
  \/ /\ Queued \cap Clears = {}
     /\ FailAll(outcome)
     /\ process' = AfterKill /\ pipe' = rest
     /\ UNCHANGED <<stopping, idling, cooling, job>>

\* The watchdog of the request in the process.
RequestTimeout ==
  /\ active
  /\ FailAndKill(pipe)
  /\ UNCHANGED <<answered, faults, cancels>>

\* stopWorkerWhenIdle.
IdleTimeout ==
  /\ idling
  /\ idling' = FALSE
  /\ IF active \/ queue # <<>> \/ ~Alive
     THEN UNCHANGED <<stopping, process>>
     ELSE /\ stopping' = TRUE
          /\ process' = IF process = "running" THEN "closing" ELSE process
  /\ UNCHANGED <<queue, active, cooling, outcome, job, pipe, answered, faults, cancels>>

CooldownEnds ==
  /\ cooling
  /\ cooling' = FALSE
  /\ UNCHANGED <<queue, active, stopping, idling, outcome, child, faults, cancels>>

-----------------------------------------------------------------------------
(* Signals of the process.                                                 *)

Started ==
  /\ process = "starting"
  /\ Dispatch(queue, outcome, "running", stopping, cooling)
  /\ UNCHANGED <<stopping, idling, cooling, pipe, answered, faults, cancels>>

\* FailedToStart.
StartFails ==
  /\ process = "starting" /\ faults < MaxFaults
  /\ faults' = faults + 1
  /\ process' = "none" /\ job' = NoJob
  /\ FailAll(outcome)
  /\ cooling' = (Queued \cap Clears = {})
  /\ idling' = (idling /\ Queued \cap Clears = {})
  /\ UNCHANGED <<stopping, pipe, answered, cancels>>

\* The process ended.  After the requested, orderly exit the queue goes on
\* with a new process; any other end fails the queue, and a crash cools.
Finished(normal) ==
  /\ stopping' = FALSE /\ pipe' = <<>>
  /\ IF stopping /\ normal
     THEN /\ cooling' = FALSE
          /\ Dispatch(queue, outcome, "none", FALSE, FALSE)
          /\ UNCHANGED idling
     ELSE /\ FailAll(outcome)
          /\ process' = "none" /\ job' = NoJob
          /\ cooling' = ~normal
          /\ idling' = (idling /\ Queued \cap Clears = {})

\* It was killed (or had just ended), or reads the end of its input.
Ends ==
  /\ \/ process = "killed" /\ \E normal \in BOOLEAN : Finished(normal)
     \/ process = "closing" /\ Finished(TRUE)
  /\ UNCHANGED <<answered, faults, cancels>>

\* It exits of its own accord, in order or not.
Exits ==
  /\ process \in {"running", "closing"} /\ faults < MaxFaults
  /\ faults' = faults + 1
  /\ \E normal \in BOOLEAN : Finished(normal)
  /\ UNCHANGED <<answered, cancels>>

-----------------------------------------------------------------------------
(* Lines of the process.                                                   *)

Answer ==
  /\ process \in {"running", "closing"} /\ job # NoJob
  /\ pipe' = Append(pipe, job) /\ answered' = answered \cup {job}
  /\ job' = NoJob
  /\ UNCHANGED <<client, process, faults, cancels>>

Babble ==
  /\ process \in {"running", "closing"} /\ faults < MaxFaults
  /\ faults' = faults + 1
  /\ pipe' = Append(pipe, Garbage)
  /\ UNCHANGED <<client, process, job, answered, cancels>>

\* Faulty variant: any line answers.
AnswersAny(line) == active /\ queue # <<>>

\* Whether a line answers the request at the head.
Answers(line) == active /\ queue # <<>> /\ line = Head(queue)

\* The queue without the answered request.
Rest == Tail(queue)

\* Faulty variant: the timer is never started.
IdlesNever(q) == idling

\* The idle timer starts when the queue q that is left is empty.
IdlesAfter(q) == idling \/ q = <<>>

\* One line of readWorkerOutput.  An answer completes the head and lets the
\* next one start; anything else breaks the protocol.
Read ==
  /\ pipe # <<>>
  /\ UNCHANGED <<answered, faults, cancels>>
  /\ \/ /\ ~Answers(Head(pipe))
        /\ FailAndKill(Tail(pipe))
     \/ /\ Answers(Head(pipe)) /\ Head(queue) \notin Clears
        /\ pipe' = Tail(pipe) /\ cooling' = FALSE
        /\ Dispatch(Rest, Answered(outcome, Head(queue)), process, stopping, FALSE)
        /\ idling' = IdlesAfter(Rest)
        /\ UNCHANGED stopping
     \/ /\ Answers(Head(pipe)) /\ Head(queue) \in Clears
        /\ outcome' = Failed(Answered(outcome, Head(queue)), {Rest[n] : n \in DOMAIN Rest})
        /\ queue' = <<>> /\ active' = FALSE /\ stopping' = FALSE /\ cooling' = FALSE
        /\ process' \in {"none", AfterKill} /\ job' = NoJob /\ pipe' = <<>>
        /\ idling' = TRUE

Next ==
  \/ \E r \in Requests : Submit(r) \/ Clear(r)
  \/ Cancel \/ RequestTimeout \/ IdleTimeout \/ CooldownEnds
  \/ Started \/ StartFails \/ Ends \/ Exits
  \/ Answer \/ Babble \/ Read

Spec == Init /\ [][Next]_vars

\* Timers fire, a start succeeds or fails, and a process that was killed or
\* has no more input ends.  Answers are not promised.
FairSpec ==
  /\ Spec
  /\ WF_vars(RequestTimeout) /\ WF_vars(IdleTimeout)
  /\ WF_vars(Started \/ StartFails) /\ WF_vars(Ends)

-----------------------------------------------------------------------------
(* Properties.                                                             *)

TypeOK ==
  /\ queue \in Seq(Requests) /\ Len(queue) <= QueueLimit
  /\ active \in BOOLEAN /\ stopping \in BOOLEAN
  /\ idling \in BOOLEAN /\ cooling \in BOOLEAN
  /\ outcome \in [Requests -> Seq({"answered", "failed"})]
  /\ process \in {"none", "starting", "running", "closing", "killed"}
  /\ job \in Requests \cup {NoJob}
  /\ pipe \in Seq(Requests \cup {Garbage})
  /\ answered \subseteq Requests
  /\ faults \in 0 .. MaxFaults /\ cancels \in 0 .. MaxCancels

\* A request is completed with an answer only if the process answered that
\* request, though answers may arrive after their request timed out, was
\* canceled, and another was written.
AnswersAreOwn ==
  \A r \in Requests : \A n \in DOMAIN outcome[r] : outcome[r][n] = "answered" => r \in answered

\* No completion is called twice, with whatever outcome, whichever of answer,
\* timeout, exit and cancellation come together.
CompletedOnce == \A r \in Requests : Len(outcome[r]) <= 1

\* Every queued request is completed, whether or not the process answers.
NoRequestStranded ==
  \A r \in Requests : (r \in Queued) ~> (outcome[r] # <<>>)

\* docs/ProjectArchitecture.md: the process "exits after 15 idle seconds".
IdleProcessEnds ==
  (process = "running" /\ queue = <<>>) ~> (process = "none" \/ queue # <<>>)
=============================================================================
