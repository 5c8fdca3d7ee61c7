---------------------------- MODULE AiWorkerProofs ----------------------------
(***************************************************************************)
(* What the requests of the inference worker are completed with.           *)
(*                                                                         *)
(* The queue holds requests whose completion was not called, each of them  *)
(* once; the pipe holds answers that the process gave.  From the first     *)
(* follows that no completion is called twice, from both that an answer    *)
(* belongs to the request it completes.  Whoever waits has an event ahead  *)
(* that comes.                                                             *)
(***************************************************************************)
EXTENDS AiWorkerClient, TLAPS

\* What a completion that is called at most once is called with.
Calls == {<<>>, <<"answered">>, <<"failed">>}
Outcomes == [Requests -> Calls]

\* A queue of requests that o has not completed, without repetitions.
Sound(q, o) ==
  /\ q \in Seq(Requests) /\ Len(q) <= QueueLimit /\ o \in Outcomes
  /\ \A n \in DOMAIN q : o[q[n]] = <<>>
  /\ \A m, n \in DOMAIN q : q[m] = q[n] => m = n

\* No completion that was called by o is called again by u, and nothing is
\* answered that o has not answered.
Keeps(o, u) ==
  \A r \in Requests : /\ o[r] # <<>> => u[r] = o[r]
                      /\ u[r] = <<"answered">> => o[r] = <<"answered">>

PipeInv ==
  /\ pipe \in Seq(Requests \cup {Garbage})
  /\ \A n \in DOMAIN pipe : pipe[n] = Garbage \/ pipe[n] \in answered

RestInv ==
  /\ active \in BOOLEAN /\ stopping \in BOOLEAN
  /\ idling \in BOOLEAN /\ cooling \in BOOLEAN
  /\ process \in {"none", "starting", "running", "closing", "killed"}
  /\ job \in Requests \cup {NoJob}
  /\ answered \subseteq Requests
  /\ faults \in 0 .. MaxFaults /\ cancels \in 0 .. MaxCancels

OwnInv == \A r \in Requests : outcome[r] = <<"answered">> => r \in answered

IInv == Sound(queue, outcome) /\ PipeInv /\ RestInv /\ OwnInv

-----------------------------------------------------------------------------
(* Lemmas about queues and outcomes.                                       *)

\* The first call of a completion.
LEMMA FailedCall ==
  /\ Append(<<>>, "failed") = <<"failed">> /\ Append(<<>>, "answered") = <<"answered">>
  /\ <<"failed">> # <<"answered">> /\ <<"failed">> # <<>> /\ <<"answered">> # <<>>
<1>1. <<"failed">>[1] = "failed" /\ <<"answered">>[1] = "answered"
  OBVIOUS
<1> QED
  BY <1>1

\* Requests that are not completed can be failed.
LEMMA FailedKeeps ==
  ASSUME NEW o \in Outcomes, NEW S, \A r \in S \cap Requests : o[r] = <<>>
  PROVE  Failed(o, S) \in Outcomes /\ Keeps(o, Failed(o, S))
<1>1. ASSUME NEW r \in Requests
      PROVE  /\ Failed(o, S)[r] \in Calls
             /\ o[r] # <<>> => Failed(o, S)[r] = o[r]
             /\ Failed(o, S)[r] = <<"answered">> => o[r] = <<"answered">>
  <2>1. Failed(o, S)[r] = IF r \in S THEN Append(o[r], "failed") ELSE o[r]
    BY DEF Failed
  <2>2. r \in S => Append(o[r], "failed") = <<"failed">> /\ o[r] = <<>>
    BY FailedCall
  <2>3. o[r] \in Calls
    BY DEF Outcomes
  <2>4. <<"failed">> # <<"answered">> /\ <<"failed">> \in Calls
    BY FailedCall DEF Calls
  <2> QED
    BY <2>1, <2>2, <2>3, <2>4
<1>2. Failed(o, S) \in Outcomes
  <2>1. Failed(o, S) = [r \in Requests |-> Failed(o, S)[r]]
    BY DEF Failed
  <2> QED
    BY <1>1, <2>1 DEF Outcomes
<1> QED
  BY <1>1, <1>2 DEF Keeps

LEMMA EmptySound ==
  ASSUME NEW o \in Outcomes
  PROVE  Sound(<<>>, o)
  BY WorkerAssumption DEF Sound

LEMMA SingleSound ==
  ASSUME NEW o \in Outcomes, NEW r \in Requests, o[r] = <<>>
  PROVE  Sound(<<r>>, o)
  BY WorkerAssumption DEF Sound

\* A request that is new and not queued can be queued.
LEMMA AppendSound ==
  ASSUME NEW q, NEW o, Sound(q, o), Len(q) < QueueLimit,
         NEW r \in Requests, o[r] = <<>>, \A n \in DOMAIN q : q[n] # r
  PROVE  Sound(Append(q, r), o)
<1>1. /\ Append(q, r) \in Seq(Requests) /\ Len(Append(q, r)) = Len(q) + 1
      /\ \A n \in 1 .. Len(q) : Append(q, r)[n] = q[n]
      /\ Append(q, r)[Len(q) + 1] = r /\ DOMAIN q = 1 .. Len(q)
  BY DEF Sound
<1>2. DOMAIN Append(q, r) = 1 .. Len(q) + 1
  BY <1>1
<1>3. Len(q) \in Nat /\ QueueLimit \in Nat
  BY WorkerAssumption DEF Sound
<1> QED
  BY <1>1, <1>2, <1>3 DEF Sound

\* The head can be completed; the tail remains.
LEMMA TailSound ==
  ASSUME NEW q, NEW o, Sound(q, o), q # <<>>, NEW v \in Calls
  PROVE  /\ Sound(Tail(q), [o EXCEPT ![Head(q)] = v])
         /\ Head(q) \in Requests /\ o[Head(q)] = <<>>
<1>1. /\ Tail(q) \in Seq(Requests) /\ Len(Tail(q)) = Len(q) - 1
      /\ \A n \in 1 .. Len(q) - 1 : Tail(q)[n] = q[n + 1]
      /\ Head(q) = q[1] /\ DOMAIN q = 1 .. Len(q) /\ Len(q) \in Nat \ {0}
  BY DEF Sound
<1>2. DOMAIN Tail(q) = 1 .. Len(q) - 1
  BY <1>1
<1>3. q[1] \in Requests /\ 1 \in DOMAIN q
  BY <1>1 DEF Sound
<1>4. \A n \in DOMAIN Tail(q) : Tail(q)[n] = q[n + 1] /\ n + 1 \in DOMAIN q /\ n + 1 # 1
  BY <1>1, <1>2
<1>5. \A n \in DOMAIN Tail(q) : q[n + 1] \in Requests /\ q[n + 1] # q[1]
  BY <1>1, <1>3, <1>4 DEF Sound
<1>6. Len(Tail(q)) <= QueueLimit /\ [o EXCEPT ![q[1]] = v] \in Outcomes
  BY <1>1, <1>3, WorkerAssumption DEF Sound, Outcomes
<1>7. \A n \in DOMAIN Tail(q) : [o EXCEPT ![q[1]] = v][Tail(q)[n]] = <<>>
  BY <1>3, <1>4, <1>5 DEF Sound, Outcomes
<1>8. \A m, n \in DOMAIN Tail(q) : Tail(q)[m] = Tail(q)[n] => m = n
  BY <1>2, <1>4, <1>1 DEF Sound
<1> QED
  BY <1>1, <1>3, <1>6, <1>7, <1>8 DEF Sound

\* The answer of the head is its first call.
LEMMA AnsweredSound ==
  ASSUME NEW q, NEW o, Sound(q, o), q # <<>>
  PROVE  /\ Sound(Tail(q), Answered(o, Head(q)))
         /\ Head(q) \in Requests /\ o[Head(q)] = <<>>
         /\ Answered(o, Head(q))[Head(q)] = <<"answered">>
         /\ \A r \in Requests : r # Head(q) => Answered(o, Head(q))[r] = o[r]
<1> DEFINE h == Head(q)
           u == [o EXCEPT ![h] = <<"answered">>]
<1>1. <<"answered">> \in Calls
  BY DEF Calls
<1>2. Sound(Tail(q), u) /\ h \in Requests /\ o[h] = <<>>
  BY <1>1, TailSound
<1>3. o \in Outcomes
  BY DEF Sound
<1>4. Answered(o, h) = [o EXCEPT ![h] = Append(o[h], "answered")]
  BY DEF Answered
<1>5. Answered(o, h) = u
  BY <1>2, <1>4, FailedCall
<1>6. u[h] = <<"answered">> /\ \A r \in Requests : r # h => u[r] = o[r]
  BY <1>2, <1>3 DEF Outcomes
<1> QED
  BY <1>2, <1>5, <1>6

LEMMA QueuedNew ==
  ASSUME NEW q, NEW o, Sound(q, o)
  PROVE  \A r \in {q[n] : n \in DOMAIN q} : r \in Requests /\ o[r] = <<>>
  BY DEF Sound

\* dispatchNext leaves a sound queue, and completes none but queued requests.
LEMMA DispatchSound ==
  ASSUME NEW q, NEW o, Sound(q, o), NEW stop, NEW cool,
         NEW p \in {"none", "starting", "running", "closing", "killed"},
         job \in Requests \cup {NoJob},
         Dispatch(q, o, p, stop, cool)
  PROVE  /\ Sound(queue', outcome') /\ Keeps(o, outcome')
         /\ active' \in BOOLEAN /\ job' \in Requests \cup {NoJob}
         /\ process' \in {"none", "starting", "running", "closing", "killed"}
<1> DEFINE S == {q[n] : n \in DOMAIN q}
<1>0. o \in Outcomes
  BY DEF Sound
<1>1. Failed(o, S) \in Outcomes /\ Keeps(o, Failed(o, S))
  BY <1>0, QueuedNew, FailedKeeps
<1>2. Sound(<<>>, Failed(o, S))
  BY <1>1, EmptySound
<1>3. Keeps(o, o)
  BY DEF Keeps
<1>4. q # <<>> => Head(q) \in Requests
  <2>1. <<>> \in Calls
    BY DEF Calls
  <2> QED
    BY <2>1, TailSound
<1> HIDE DEF S
<1>5. CASE q = <<>> \/ stop \/ p = "starting"
  BY <1>5, <1>3 DEF Dispatch
<1>6. CASE ~(q = <<>> \/ stop \/ p = "starting") /\ p = "none"
  <2>1. \/ outcome' = Failed(o, S) /\ queue' = <<>> /\ process' = "none"
        \/ outcome' = o /\ queue' = q /\ process' = "starting"
    BY <1>6 DEF Dispatch, S
  <2>2. job' = NoJob /\ active' = FALSE
    BY <1>6 DEF Dispatch
  <2> QED
    BY <2>1, <2>2, <1>1, <1>2, <1>3
<1>7. CASE ~(q = <<>> \/ stop \/ p = "starting") /\ p # "none"
  <2>1. \/ /\ active' = TRUE /\ queue' = q /\ outcome' = o /\ process' = p
           /\ job' = IF p = "running" THEN Head(q) ELSE job
        \/ /\ active' = FALSE /\ queue' = <<>> /\ outcome' = Failed(o, S)
           /\ process' = "killed" /\ job' = job
    BY <1>7 DEF Dispatch, S
  <2> QED
    BY <2>1, <1>7, <1>1, <1>2, <1>3, <1>4
<1> QED
  BY <1>5, <1>6, <1>7

-----------------------------------------------------------------------------
(* Steps.                                                                  *)

\* A step that completes requests with failures only.
LEMMA KeepsSafe ==
  ASSUME OwnInv, Keeps(outcome, outcome'), answered' = answered
  PROVE  OwnInv'
  BY DEF OwnInv, Keeps

LEMMA FailAllSound ==
  ASSUME Sound(queue, outcome)
  PROVE  /\ Sound(<<>>, Failed(outcome, Queued))
         /\ Keeps(outcome, Failed(outcome, Queued))
<1>1. outcome \in Outcomes /\ \A r \in Queued \cap Requests : outcome[r] = <<>>
  BY QueuedNew DEF Sound, Queued
<1> QED
  BY <1>1, FailedKeeps, EmptySound

\* What the queue leaves alone keeps it sound.
LEMMA SameSound ==
  ASSUME Sound(queue, outcome), queue' = queue, outcome' = outcome
  PROVE  Sound(queue', outcome') /\ Keeps(outcome, outcome')
  BY DEF Keeps

\* A shorter pipe holds answers still.
LEMMA TailPipe ==
  ASSUME PipeInv, pipe # <<>>, answered' = answered, pipe' = Tail(pipe)
  PROVE  PipeInv'
<1>1. /\ Tail(pipe) \in Seq(Requests \cup {Garbage}) /\ Len(Tail(pipe)) = Len(pipe) - 1
      /\ \A n \in 1 .. Len(pipe) - 1 : Tail(pipe)[n] = pipe[n + 1]
      /\ DOMAIN pipe = 1 .. Len(pipe) /\ Len(pipe) \in Nat \ {0}
  BY DEF PipeInv
<1>2. DOMAIN Tail(pipe) = 1 .. Len(pipe) - 1
  BY <1>1
<1>3. \A n \in DOMAIN Tail(pipe) : Tail(pipe)[n] = pipe[n + 1] /\ n + 1 \in DOMAIN pipe
  BY <1>1, <1>2
<1> QED
  BY <1>1, <1>3 DEF PipeInv

LEMMA EmptyPipe ==
  ASSUME pipe' = <<>>
  PROVE  PipeInv'
  BY DEF PipeInv

LEMMA SamePipe ==
  ASSUME PipeInv, pipe' = pipe, answered' = answered
  PROVE  PipeInv'
  BY DEF PipeInv

LEMMA FailAndKillSafe ==
  ASSUME IInv, NEW rest, FailAndKill(rest), UNCHANGED <<answered, faults, cancels>>,
         rest = pipe \/ (pipe # <<>> /\ rest = Tail(pipe))
  PROVE  IInv'
<1>1. Sound(<<>>, Failed(outcome, Queued)) /\ Keeps(outcome, Failed(outcome, Queued))
  BY FailAllSound DEF IInv
<1>2. outcome' = Failed(outcome, Queued) /\ queue' = <<>>
  BY DEF FailAndKill, CancelAll, FailAll
<1>3. pipe' = <<>> \/ pipe' = rest
  BY DEF FailAndKill, CancelAll, FailAll
<1>4. PipeInv'
  BY <1>3, EmptyPipe, SamePipe, TailPipe DEF IInv
<1>5. RestInv'
  BY DEF IInv, RestInv, FailAndKill, CancelAll, FailAll, AfterKill
<1> QED
  BY <1>1, <1>2, <1>4, <1>5, KeepsSafe DEF IInv

LEMMA SubmitSafe ==
  ASSUME IInv, NEW r \in Requests, Submit(r)
  PROVE  IInv'
<1>1. outcome[r] = <<>> /\ r \notin Queued /\ UNCHANGED <<stopping, cooling, pipe, answered, faults, cancels>>
  BY DEF Submit
<1>2. PipeInv'
  BY <1>1, SamePipe DEF IInv
<1>3. CASE ~Admitted(r)
  <2>1. outcome' = Failed(outcome, {r}) /\ queue' = queue
    BY <1>3 DEF Submit
  <2>2. Sound(queue, Failed(outcome, {r})) /\ Keeps(outcome, Failed(outcome, {r}))
    <3>1. Failed(outcome, {r}) \in Outcomes /\ Keeps(outcome, Failed(outcome, {r}))
      BY <1>1, FailedKeeps DEF IInv, Sound
    <3>2. \A n \in DOMAIN queue : queue[n] # r /\ queue[n] \in Requests
      BY <1>1 DEF Queued, IInv, Sound
    <3>3. \A n \in DOMAIN queue : Failed(outcome, {r})[queue[n]] = outcome[queue[n]]
      BY <3>2 DEF Failed
    <3> QED
      BY <3>1, <3>3 DEF IInv, Sound
  <2>3. Keeps(outcome, outcome')
    BY <2>1, <2>2
  <2>4. RestInv'
    BY <1>3, <1>1 DEF IInv, RestInv, Submit
  <2> QED
    BY <2>1, <2>2, <2>3, <2>4, <1>1, <1>2, KeepsSafe DEF IInv
<1>4. CASE Admitted(r)
  <2>1. Len(queue) < QueueLimit
    BY <1>4, WorkerAssumption DEF Admitted, IInv, Sound
  <2>2. Sound(Append(queue, r), outcome)
    BY <2>1, <1>1, AppendSound DEF IInv, Queued
  <2>3. CASE active
    <3>1. queue' = Append(queue, r) /\ outcome' = outcome
      BY <1>4, <2>3 DEF Submit
    <3>2. Keeps(outcome, outcome')
      BY <3>1 DEF Keeps
    <3>3. RestInv'
      BY <1>4, <1>1, <2>3 DEF IInv, RestInv, Submit
    <3> QED
      BY <3>1, <3>2, <3>3, <2>2, <1>1, <1>2, KeepsSafe DEF IInv
  <2>4. CASE ~active
    <3>1. Dispatch(Append(queue, r), outcome, process, stopping, cooling)
      BY <1>4, <2>4 DEF Submit
    <3>2. /\ Sound(queue', outcome') /\ Keeps(outcome, outcome')
          /\ active' \in BOOLEAN /\ job' \in Requests \cup {NoJob}
          /\ process' \in {"none", "starting", "running", "closing", "killed"}
      BY <3>1, <2>2, DispatchSound DEF IInv, RestInv
    <3>3. RestInv'
      BY <3>2, <1>1 DEF IInv, RestInv, Submit
    <3> QED
      BY <3>2, <3>3, <1>1, <1>2, KeepsSafe DEF IInv
  <2> QED
    BY <2>3, <2>4
<1> QED
  BY <1>3, <1>4

LEMMA ClearSafe ==
  ASSUME IInv, NEW r \in Requests, Clear(r)
  PROVE  IInv'
<1>1. /\ outcome[r] = <<>> /\ r \notin Queued /\ pipe' = <<>>
      /\ UNCHANGED <<answered, faults, cancels>>
  BY DEF Clear
<1> DEFINE o == Failed(outcome, Queued)
<1>2. o \in Outcomes /\ Keeps(outcome, o) /\ o[r] = <<>>
  BY <1>1, FailAllSound DEF IInv, Sound, Failed
<1>3. Sound(<<r>>, o)
  BY <1>2, SingleSound
<1>4. PICK p \in {"none", AfterKill} : Dispatch(<<r>>, o, p, FALSE, FALSE)
  BY DEF Clear
<1>5. p \in {"none", "starting", "running", "closing", "killed"}
  BY DEF AfterKill
<1> HIDE DEF o
<1>6. /\ Sound(queue', outcome') /\ Keeps(o, outcome')
      /\ active' \in BOOLEAN /\ job' \in Requests \cup {NoJob}
      /\ process' \in {"none", "starting", "running", "closing", "killed"}
  BY <1>3, <1>4, <1>5, DispatchSound DEF IInv, RestInv
<1>7. Keeps(outcome, outcome')
  BY <1>2, <1>6 DEF Keeps
<1>8. RestInv'
  BY <1>6, <1>1 DEF IInv, RestInv, Clear
<1> QED
  BY <1>1, <1>6, <1>7, <1>8, EmptyPipe, KeepsSafe DEF IInv

LEMMA FinishedSafe ==
  ASSUME IInv, NEW normal \in BOOLEAN, Finished(normal),
         answered' = answered, cancels' = cancels, faults' \in 0 .. MaxFaults
  PROVE  IInv'
<1>1. stopping' = FALSE /\ pipe' = <<>>
  BY DEF Finished, FailAll
<1>2. CASE stopping /\ normal
  <2>1. Dispatch(queue, outcome, "none", FALSE, FALSE) /\ cooling' = FALSE /\ idling' = idling
    BY <1>2 DEF Finished, FailAll
  <2>2. /\ Sound(queue', outcome') /\ Keeps(outcome, outcome')
        /\ active' \in BOOLEAN /\ job' \in Requests \cup {NoJob}
        /\ process' \in {"none", "starting", "running", "closing", "killed"}
    BY <2>1, DispatchSound DEF IInv, RestInv
  <2>3. RestInv'
    BY <2>1, <2>2, <1>1 DEF IInv, RestInv
  <2> QED
    BY <2>2, <2>3, <1>1, EmptyPipe, KeepsSafe DEF IInv
<1>3. CASE ~(stopping /\ normal)
  <2>1. outcome' = Failed(outcome, Queued) /\ queue' = <<>>
    BY <1>3 DEF Finished, FailAll
  <2>2. Sound(queue', outcome') /\ Keeps(outcome, outcome')
    BY <2>1, FailAllSound DEF IInv
  <2>3. RestInv'
    BY <1>3, <1>1 DEF IInv, RestInv, Finished, FailAll
  <2> QED
    BY <2>2, <2>3, <1>1, EmptyPipe, KeepsSafe DEF IInv
<1> QED
  BY <1>2, <1>3

LEMMA AnswerSafe ==
  ASSUME IInv, Answer
  PROVE  IInv'
<1>1. Sound(queue', outcome') /\ Keeps(outcome, outcome')
  BY SameSound DEF IInv, Answer, client
<1>2. job \in Requests
  BY DEF Answer, IInv, RestInv
<1>3. PipeInv'
  <2>1. /\ pipe' \in Seq(Requests \cup {Garbage}) /\ Len(pipe') = Len(pipe) + 1
        /\ \A n \in 1 .. Len(pipe) : pipe'[n] = pipe[n]
        /\ pipe'[Len(pipe) + 1] = job /\ DOMAIN pipe = 1 .. Len(pipe) /\ Len(pipe) \in Nat
    BY <1>2 DEF Answer, IInv, PipeInv
  <2>2. DOMAIN pipe' = 1 .. Len(pipe) + 1
    BY <2>1
  <2>3. \A n \in DOMAIN pipe' : n \in DOMAIN pipe \/ n = Len(pipe) + 1
    BY <2>1, <2>2
  <2> QED
    BY <2>1, <2>3 DEF Answer, IInv, PipeInv
<1>4. RestInv'
  BY <1>2 DEF Answer, IInv, RestInv, client
<1>5. OwnInv'
  BY <1>1 DEF Answer, client, IInv, OwnInv
<1> QED
  BY <1>1, <1>3, <1>4, <1>5 DEF IInv

LEMMA BabbleSafe ==
  ASSUME IInv, Babble
  PROVE  IInv'
<1>1. Sound(queue', outcome') /\ Keeps(outcome, outcome')
  BY SameSound DEF IInv, Babble, client
<1>2. PipeInv'
  <2>1. /\ pipe' \in Seq(Requests \cup {Garbage}) /\ Len(pipe') = Len(pipe) + 1
        /\ \A n \in 1 .. Len(pipe) : pipe'[n] = pipe[n]
        /\ pipe'[Len(pipe) + 1] = Garbage /\ DOMAIN pipe = 1 .. Len(pipe) /\ Len(pipe) \in Nat
    BY DEF Babble, IInv, PipeInv
  <2>2. DOMAIN pipe' = 1 .. Len(pipe) + 1
    BY <2>1
  <2>3. \A n \in DOMAIN pipe' : n \in DOMAIN pipe \/ n = Len(pipe) + 1
    BY <2>1, <2>2
  <2> QED
    BY <2>1, <2>3 DEF Babble, IInv, PipeInv
<1>3. RestInv'
  BY WorkerAssumption DEF Babble, IInv, RestInv, client
<1> QED
  BY <1>1, <1>2, <1>3, KeepsSafe DEF IInv, Babble

\* The one step that answers: the line is the answer of the head.
LEMMA ReadSafe ==
  ASSUME IInv, Read
  PROVE  IInv'
<1> DEFINE h == Head(queue)
           o == Answered(outcome, h)
<1>1. pipe # <<>> /\ UNCHANGED <<answered, faults, cancels>>
  BY DEF Read
<1>2. CASE ~Answers(Head(pipe))
  <2>1. FailAndKill(Tail(pipe))
    BY <1>2 DEF Read
  <2> QED
    BY <2>1, <1>1, FailAndKillSafe
<1>3. CASE Answers(Head(pipe))
  <2>1. queue # <<>> /\ Head(pipe) = h
    BY <1>3 DEF Answers
  <2>2. Sound(Tail(queue), o) /\ h \in Requests /\ outcome[h] = <<>>
    BY <2>1, AnsweredSound DEF IInv
  <2>5. /\ o[h] = <<"answered">>
        /\ \A r \in Requests : r # h => o[r] = outcome[r]
    BY <2>1, AnsweredSound DEF IInv
  <2>3. h \in answered
    <3>1. 1 \in DOMAIN pipe /\ Head(pipe) = pipe[1]
      BY <1>1 DEF IInv, PipeInv
    <3> QED
      BY <3>1, <2>1, <2>2, WorkerAssumption DEF IInv, PipeInv
  <2>6. \A r \in Requests : o[r] = <<"answered">> => r \in answered
    BY <2>3, <2>5 DEF IInv, OwnInv
  <2> HIDE DEF h, o
  <2>4. CASE h \notin Clears
    <3>1. /\ pipe' = Tail(pipe) /\ cooling' = FALSE /\ UNCHANGED stopping
          /\ Dispatch(Tail(queue), o, process, stopping, FALSE)
          /\ idling' = IdlesAfter(Rest)
      BY <1>3, <2>4 DEF Read, Rest, h, o
    <3>2. /\ Sound(queue', outcome') /\ Keeps(o, outcome')
          /\ active' \in BOOLEAN /\ job' \in Requests \cup {NoJob}
          /\ process' \in {"none", "starting", "running", "closing", "killed"}
      BY <3>1, <2>2, DispatchSound DEF IInv, RestInv
    <3>3. PipeInv'
      BY <3>1, <1>1, TailPipe DEF IInv
    <3>4. RestInv'
      BY <3>1, <3>2, <1>1 DEF IInv, RestInv, IdlesAfter
    <3>5. OwnInv'
      BY <3>2, <2>6, <1>1 DEF OwnInv, Keeps
    <3> QED
      BY <3>2, <3>3, <3>4, <3>5 DEF IInv
  <2>7. CASE h \in Clears
    <3> DEFINE T == Tail(queue)
               S == {T[n] : n \in DOMAIN T}
    <3>1. outcome' = Failed(o, S) /\ queue' = <<>> /\ pipe' = <<>>
      BY <1>3, <2>7 DEF Read, Rest, h, o
    <3>2. o \in Outcomes /\ \A r \in S \cap Requests : o[r] = <<>>
      BY <2>2, QueuedNew DEF Sound
    <3> HIDE DEF S
    <3>3. Failed(o, S) \in Outcomes /\ Keeps(o, Failed(o, S))
      BY <3>2, FailedKeeps
    <3>4. Sound(queue', outcome')
      BY <3>1, <3>3, EmptySound
    <3>5. RestInv'
      BY <1>3, <2>7, <1>1, WorkerAssumption DEF IInv, RestInv, Read, AfterKill, h
    <3>6. OwnInv'
      BY <3>1, <3>3, <2>6, <1>1 DEF OwnInv, Keeps
    <3>7. PipeInv'
      BY <3>1, EmptyPipe
    <3> QED
      BY <3>4, <3>5, <3>6, <3>7 DEF IInv
  <2> QED
    BY <2>4, <2>7
<1> QED
  BY <1>2, <1>3

\* The timers, and cancellation.
LEMMA CancelSafe ==
  ASSUME IInv, Cancel
  PROVE  IInv'
<1>1. Sound(queue', outcome') /\ Keeps(outcome, outcome') /\ pipe' = <<>>
  BY FailAllSound DEF IInv, Cancel, CancelAll, FailAll
<1>2. RestInv'
  <2>1. /\ process' \in {"none", "starting", "running", "closing", "killed"}
        /\ job' \in Requests \cup {NoJob}
    BY DEF Cancel, CancelAll, FailAll, AfterKill
  <2>2. faults' \in 0 .. MaxFaults /\ cancels' \in 0 .. MaxCancels
    BY WorkerAssumption DEF IInv, RestInv, Cancel
  <2> QED
    BY <2>1, <2>2 DEF IInv, RestInv, Cancel, CancelAll, FailAll
<1> QED
  BY <1>1, <1>2, EmptyPipe, KeepsSafe DEF IInv, Cancel

LEMMA QuietSafe ==
  ASSUME IInv, IdleTimeout \/ CooldownEnds
  PROVE  IInv'
<1>1. UNCHANGED <<queue, outcome, pipe, answered, faults, cancels, active, job>>
  BY DEF IdleTimeout, CooldownEnds, child
<1>2. RestInv'
  BY <1>1 DEF IInv, RestInv, IdleTimeout, CooldownEnds, child
<1>3. Sound(queue', outcome') /\ Keeps(outcome, outcome')
  BY <1>1, SameSound DEF IInv
<1>4. PipeInv'
  BY <1>1, SamePipe DEF IInv
<1>5. OwnInv'
  BY <1>1, <1>3, KeepsSafe DEF IInv
<1> QED
  BY <1>2, <1>3, <1>4, <1>5 DEF IInv

LEMMA StartedSafe ==
  ASSUME IInv, Started
  PROVE  IInv'
<1>1. /\ Dispatch(queue, outcome, "running", stopping, cooling)
      /\ UNCHANGED <<stopping, idling, cooling, pipe, answered, faults, cancels>>
  BY DEF Started
<1>2. /\ Sound(queue', outcome') /\ Keeps(outcome, outcome')
      /\ active' \in BOOLEAN /\ job' \in Requests \cup {NoJob}
      /\ process' \in {"none", "starting", "running", "closing", "killed"}
  BY <1>1, DispatchSound DEF IInv, RestInv
<1>3. RestInv'
  BY <1>1, <1>2 DEF IInv, RestInv
<1> QED
  BY <1>1, <1>2, <1>3, SamePipe, KeepsSafe DEF IInv

LEMMA StartFailsSafe ==
  ASSUME IInv, StartFails
  PROVE  IInv'
<1>1. Sound(queue', outcome') /\ Keeps(outcome, outcome')
  BY FailAllSound DEF IInv, StartFails, FailAll
<1>2. RestInv'
  <2>1. faults' \in 0 .. MaxFaults
    BY WorkerAssumption DEF IInv, RestInv, StartFails, FailAll
  <2>2. cooling' \in BOOLEAN /\ idling' \in BOOLEAN
    BY DEF IInv, RestInv, StartFails, FailAll
  <2> QED
    BY <2>1, <2>2 DEF IInv, RestInv, StartFails, FailAll
<1> QED
  BY <1>1, <1>2, SamePipe, KeepsSafe DEF IInv, StartFails, FailAll

LEMMA InitIInv == Init => IInv
<1> SUFFICES ASSUME Init PROVE IInv
  OBVIOUS
<1>1. outcome \in Outcomes /\ queue = <<>>
  <2>1. <<>> \in Calls
    BY DEF Calls
  <2> QED
    BY <2>1 DEF Init, Outcomes
<1>2. Sound(queue, outcome)
  BY <1>1, EmptySound
<1>3. PipeInv
  BY DEF Init, PipeInv
<1>4. RestInv
  <2>1. faults \in 0 .. MaxFaults /\ cancels \in 0 .. MaxCancels
    BY WorkerAssumption DEF Init
  <2> QED
    BY <2>1 DEF Init, RestInv
<1>5. OwnInv
  BY FailedCall DEF Init, OwnInv
<1> QED
  BY <1>2, <1>3, <1>4, <1>5 DEF IInv

LEMMA NextIInv == IInv /\ [Next]_vars => IInv'
<1> SUFFICES ASSUME IInv, [Next]_vars PROVE IInv'
  OBVIOUS
<1>1. ASSUME NEW r \in Requests, Submit(r) \/ Clear(r) PROVE IInv'
  BY <1>1, SubmitSafe, ClearSafe
<1>2. CASE RequestTimeout
  <2>1. FailAndKill(pipe) /\ UNCHANGED <<answered, faults, cancels>>
    BY <1>2 DEF RequestTimeout
  <2> QED
    BY <2>1, FailAndKillSafe
<1>3. CASE Ends
  <2>1. PICK normal \in BOOLEAN : Finished(normal)
    BY <1>3 DEF Ends
  <2>2. answered' = answered /\ cancels' = cancels /\ faults' \in 0 .. MaxFaults
    BY <1>3 DEF Ends, IInv, RestInv
  <2> QED
    BY <2>1, <2>2, FinishedSafe
<1>4. CASE Exits
  <2>1. PICK normal \in BOOLEAN : Finished(normal)
    BY <1>4 DEF Exits
  <2>2. answered' = answered /\ cancels' = cancels /\ faults' \in 0 .. MaxFaults
    BY <1>4, WorkerAssumption DEF Exits, IInv, RestInv
  <2> QED
    BY <2>1, <2>2, FinishedSafe
<1>5. CASE Cancel \/ IdleTimeout \/ CooldownEnds \/ Started \/ StartFails \/ Answer \/ Babble \/ Read
  BY <1>5, CancelSafe, QuietSafe, StartedSafe, StartFailsSafe, AnswerSafe, BabbleSafe, ReadSafe
<1>6. CASE UNCHANGED vars
  <2>1. UNCHANGED <<queue, outcome, pipe, answered, active, stopping, idling, cooling,
                    process, job, faults, cancels>>
    BY <1>6 DEF vars, client, child
  <2> QED
    BY <2>1, SameSound, SamePipe, KeepsSafe DEF IInv, RestInv
<1> QED
  BY <1>1, <1>2, <1>3, <1>4, <1>5, <1>6 DEF Next

-----------------------------------------------------------------------------
(* Theorems.                                                               *)

\* The types of the client and the process hold for every set of requests
\* and every length of the queue.
THEOREM TypeCorrect == Spec => []TypeOK
<1>1. IInv => TypeOK
  <2>1. \A c \in Calls : c \in Seq({"answered", "failed"})
    <3>1. /\ <<>> \in Seq({"answered", "failed"}) /\ <<"answered">> \in Seq({"answered", "failed"})
          /\ <<"failed">> \in Seq({"answered", "failed"})
      OBVIOUS
    <3> QED
      BY <3>1 DEF Calls
  <2>2. outcome \in Outcomes => outcome \in [Requests -> Seq({"answered", "failed"})]
    BY <2>1 DEF Outcomes
  <2> QED
    BY <2>2 DEF IInv, Sound, PipeInv, RestInv, TypeOK
<1> QED
  BY <1>1, InitIInv, NextIInv, PTL DEF Spec

\* A late answer never completes another request.
THEOREM OwnAnswers == Spec => []AnswersAreOwn
<1>1. ASSUME IInv, NEW r \in Requests, NEW n \in DOMAIN outcome[r], outcome[r][n] = "answered"
      PROVE  r \in answered
  <2>1. outcome[r] \in {<<>>, <<"answered">>, <<"failed">>}
    BY <1>1 DEF IInv, Sound, Outcomes, Calls
  <2>2. outcome[r] = <<"answered">>
    BY <1>1, <2>1
  <2> QED
    BY <1>1, <2>2 DEF IInv, OwnInv
<1>2. IInv => AnswersAreOwn
  BY <1>1 DEF AnswersAreOwn
<1> QED
  BY <1>2, InitIInv, NextIInv, PTL DEF Spec

\* Each completion is called at most once, counting every call: answers,
\* timeouts, exits, failed writes and cancellations dequeue what they complete.
THEOREM OneCompletion == Spec => []CompletedOnce
<1>1. ASSUME IInv, NEW r \in Requests
      PROVE  Len(outcome[r]) <= 1
  <2>1. outcome[r] \in {<<>>, <<"answered">>, <<"failed">>}
    BY <1>1 DEF IInv, Sound, Outcomes, Calls
  <2>2. Len(<<>>) = 0 /\ Len(<<"answered">>) = 1 /\ Len(<<"failed">>) = 1
    OBVIOUS
  <2>3. CASE outcome[r] = <<>>
    BY <2>2, <2>3
  <2>4. CASE outcome[r] = <<"answered">>
    BY <2>2, <2>4
  <2>5. CASE outcome[r] = <<"failed">>
    BY <2>2, <2>5
  <2> QED
    BY <2>1, <2>3, <2>4, <2>5
<1>2. IInv => CompletedOnce
  BY <1>1 DEF CompletedOnce
<1> QED
  BY <1>2, InitIInv, NextIInv, PTL DEF Spec
-----------------------------------------------------------------------------
(* What is due.                                                            *)

\* Whoever waits, waits for an event that comes: the watchdog of the request
\* in the process, the start or its failure, or the end of a process that is
\* stopping.  A process without a request has the idle timer.
EventDue ==
  /\ queue # <<>> =>
       active \/ process = "starting" \/ (stopping /\ process \in {"closing", "killed"})
  /\ process = "running" /\ queue = <<>> => idling

\* A watchdog belongs to a request, and only a process that ends is awaited.
DueInv ==
  /\ EventDue
  /\ active => queue # <<>> /\ Alive
  /\ process = "starting" => queue # <<>>
  /\ stopping => process \in {"closing", "killed"}

\* dispatchNext for a queue that its caller leaves.
LEMMA DispatchDue ==
  ASSUME NEW q, NEW o, NEW p, NEW cool, Dispatch(q, o, p, stopping', cool),
         stopping' => p \in {"closing", "killed"},
         p \in {"none", "starting", "running", "closing", "killed"},
         p = "starting" => q # <<>>,
         p = "running" /\ q = <<>> => idling'
  PROVE  DueInv'
<1>1. CASE q = <<>> \/ stopping' \/ p = "starting"
  <2>1. queue' = q /\ ~active' /\ process' = p
    BY <1>1 DEF Dispatch
  <2> QED
    BY <1>1, <2>1 DEF DueInv, EventDue, Alive
<1>2. CASE ~(q = <<>> \/ stopping' \/ p = "starting") /\ p = "none"
  <2>1. /\ ~active'
        /\ \/ queue' = <<>> /\ process' = "none"
           \/ queue' = q /\ process' = "starting"
    BY <1>2 DEF Dispatch
  <2> QED
    BY <1>2, <2>1 DEF DueInv, EventDue, Alive
<1>3. CASE ~(q = <<>> \/ stopping' \/ p = "starting") /\ p # "none"
  <2>1. \/ active' /\ queue' = q /\ process' = p
        \/ ~active' /\ queue' = <<>> /\ process' = "killed"
    BY <1>3 DEF Dispatch
  <2> QED
    BY <1>3, <2>1 DEF DueInv, EventDue, Alive
<1> QED
  BY <1>1, <1>2, <1>3

\* Nothing is queued and the process is gone, or killed.
LEMMA EmptyDue ==
  ASSUME queue' = <<>>, ~active', process' \in {"none", "killed"},
         stopping' => process' = "killed"
  PROVE  DueInv'
BY DEF DueInv, EventDue

LEMMA KillDue ==
  ASSUME NEW rest, DueInv, FailAndKill(rest)
  PROVE  DueInv'
<1>1. /\ queue' = <<>> /\ ~active' /\ process' \in {"none", AfterKill}
      /\ ~stopping' \/ (stopping' = stopping /\ process' = AfterKill)
  BY DEF FailAndKill, CancelAll, FailAll
<1>2. AfterKill \in {"none", "killed"} /\ (process # "none" => AfterKill = "killed")
  BY DEF AfterKill
<1> QED
  BY <1>1, <1>2, EmptyDue DEF DueInv

LEMMA SubmitDue ==
  ASSUME IInv, DueInv, NEW r \in Requests, Submit(r)
  PROVE  DueInv'
<1>1. queue \in Seq(Requests) /\ Append(queue, r) # <<>>
  BY DEF IInv, Sound
<1>2. stopping' = stopping
  BY DEF Submit
<1>3. CASE ~Admitted(r)
  <2>1. UNCHANGED <<queue, active, process>>
    BY <1>3 DEF Submit
  <2>2. queue # <<>>
    <3>1. ~(Len(queue) < QueueLimit) \/ queue # <<>>
      BY <1>3 DEF Admitted
    <3>2. queue = <<>> => Len(queue) = 0 /\ 0 < QueueLimit
      BY WorkerAssumption
    <3> QED
      BY <3>1, <3>2
  <2> QED
    BY <1>2, <2>1, <2>2 DEF DueInv, EventDue, Alive
<1>4. CASE Admitted(r) /\ active
  <2>1. queue' = Append(queue, r) /\ UNCHANGED <<active, process>>
    BY <1>4 DEF Submit
  <2> QED
    BY <1>1, <1>2, <1>4, <2>1 DEF DueInv, EventDue, Alive
<1>5. CASE Admitted(r) /\ ~active
  <2>1. Dispatch(Append(queue, r), outcome, process, stopping', cooling)
    BY <1>2, <1>5 DEF Submit
  <2>2. process \in {"none", "starting", "running", "closing", "killed"}
        /\ (stopping' => process \in {"closing", "killed"})
    BY <1>2 DEF DueInv, IInv, RestInv
  <2> QED
    BY <1>1, <2>1, <2>2, DispatchDue
<1> QED
  BY <1>3, <1>4, <1>5

LEMMA ClearDue ==
  ASSUME NEW r \in Requests, Clear(r)
  PROVE  DueInv'
<1>1. PICK p \in {"none", AfterKill} : Dispatch(<<r>>, Failed(outcome, Queued), p, FALSE, FALSE)
  BY DEF Clear
<1>2. stopping' = FALSE
  BY DEF Clear
<1>3. p \in {"none", "killed"} /\ <<r>> # <<>>
  BY <1>1 DEF AfterKill
<1>4. Dispatch(<<r>>, Failed(outcome, Queued), p, stopping', FALSE)
  BY <1>1, <1>2
<1> QED
  BY <1>2, <1>3, <1>4, DispatchDue

LEMMA FinishedDue ==
  ASSUME NEW normal \in BOOLEAN, Finished(normal)
  PROVE  DueInv'
<1>1. stopping' = FALSE
  BY DEF Finished, FailAll
<1>2. CASE stopping /\ normal
  <2>1. Dispatch(queue, outcome, "none", FALSE, FALSE)
    BY <1>2 DEF Finished, FailAll
  <2>2. Dispatch(queue, outcome, "none", stopping', FALSE)
    BY <1>1, <2>1
  <2> QED
    BY <1>1, <2>2, DispatchDue
<1>3. CASE ~(stopping /\ normal)
  BY <1>1, <1>3, EmptyDue DEF Finished, FailAll
<1> QED
  BY <1>2, <1>3

LEMMA ReadDue ==
  ASSUME IInv, DueInv, Read
  PROVE  DueInv'
<1>1. CASE FailAndKill(Tail(pipe))
  BY <1>1, KillDue
<1>2. ASSUME Answers(Head(pipe)), UNCHANGED stopping, idling' = IdlesAfter(Rest),
             Dispatch(Rest, Answered(outcome, Head(queue)), process, stopping, FALSE)
      PROVE  DueInv'
  <2>1. process \in {"running", "closing", "killed"}
        /\ (stopping' => process \in {"closing", "killed"})
    BY <1>2 DEF DueInv, Alive, Answers
  <2>2. Rest = <<>> => idling'
    BY <1>2 DEF IdlesAfter
  <2> DEFINE o == Answered(outcome, Head(queue))
  <2>3. Dispatch(Rest, o, process, stopping', FALSE)
    BY <1>2
  <2> HIDE DEF o
  <2> QED
    BY <2>1, <2>2, <2>3, DispatchDue
<1>3. ASSUME queue' = <<>>, active' = FALSE, stopping' = FALSE, process' \in {"none", AfterKill}
      PROVE  DueInv'
  BY <1>3, EmptyDue DEF AfterKill
<1> QED
  BY <1>1, <1>2, <1>3 DEF Read

LEMMA NextDue ==
  ASSUME IInv, DueInv, [Next]_vars
  PROVE  DueInv'
<1>1. CASE \E r \in Requests : Submit(r) \/ Clear(r)
  BY <1>1, SubmitDue, ClearDue
<1>2. CASE Cancel
  BY <1>2, EmptyDue DEF Cancel, CancelAll, FailAll, AfterKill
<1>3. CASE RequestTimeout
  BY <1>3, KillDue DEF RequestTimeout
<1>4. CASE IdleTimeout
  <2>1. UNCHANGED <<queue, active>>
    BY <1>4 DEF IdleTimeout
  <2>2. CASE active \/ queue # <<>> \/ ~Alive
    <3>1. UNCHANGED <<stopping, process>>
      BY <1>4, <2>2 DEF IdleTimeout
    <3> QED
      BY <2>1, <2>2, <3>1 DEF DueInv, EventDue, Alive
  <2>3. CASE ~(active \/ queue # <<>> \/ ~Alive)
    <3>1. process' = IF process = "running" THEN "closing" ELSE process
      BY <1>4, <2>3 DEF IdleTimeout
    <3>2. process' \in {"closing", "killed"}
      BY <2>3, <3>1 DEF Alive
    <3> QED
      BY <2>1, <2>3, <3>2 DEF DueInv, EventDue, Alive
  <2> QED
    BY <2>2, <2>3
<1>5. CASE Started
  <2>1. queue # <<>> /\ ~stopping /\ stopping' = stopping
    BY <1>5 DEF Started, DueInv
  <2>2. Dispatch(queue, outcome, "running", stopping', cooling)
    BY <1>5, <2>1 DEF Started
  <2> QED
    BY <2>1, <2>2, DispatchDue
<1>6. CASE StartFails
  <2>1. ~stopping /\ stopping' = stopping /\ queue' = <<>> /\ ~active' /\ process' = "none"
    BY <1>6 DEF StartFails, FailAll, DueInv
  <2> QED
    BY <2>1, EmptyDue
<1>7. CASE Ends \/ Exits
  BY <1>7, FinishedDue DEF Ends, Exits
<1>8. CASE Read
  BY <1>8, ReadDue
<1>9. CASE Answer \/ Babble \/ CooldownEnds \/ UNCHANGED vars
  <2>1. UNCHANGED <<queue, active, stopping, process, idling>>
    BY <1>9 DEF Answer, Babble, CooldownEnds, vars, client, child
  <2> QED
    BY <2>1 DEF DueInv, EventDue, Alive
<1> QED
  BY <1>1, <1>2, <1>3, <1>4, <1>5, <1>6, <1>7, <1>8, <1>9 DEF Next

\* No cancellation, crash, failed write or idle shutdown leaves a request in
\* the queue with nothing that will take it up or fail it, nor a process
\* without a request and without its idle timer (dispatchNext and its
\* callers): what NoRequestStranded and IdleProcessEnds rest on.
THEOREM AlwaysDue == Spec => []EventDue
<1>1. Init => DueInv
  BY DEF Init, DueInv, EventDue
<1>2. IInv /\ DueInv /\ [Next]_vars => DueInv'
  BY NextDue
<1>3. DueInv => EventDue
  BY DEF DueInv
<1> QED
  BY <1>1, <1>2, <1>3, InitIInv, NextIInv, PTL DEF Spec
=============================================================================
