----------------------------- MODULE PimClient ------------------------------
(* Calendar or Tasks: a copy of the PIM service's state kept over D-Bus     *)
(* (shared/pim/src/PimClient.cpp), composed with the service and the bus.   *)
(*                                                                          *)
(* The bus keeps the order of messages between two connections.  Whether a  *)
(* reply still counts, which the code decides by generation and serial, is  *)
(* kept with the call as `live`: it ends when the owner of the service      *)
(* changes, when a newer call of the same kind is made, or at the timeout.  *)
EXTENDS PimStore, Sequences

CONSTANTS
  Ranges,   \* date ranges the user looks at
  MaxAsks   \* bound on what the user asks for

ASSUME ClientAssumption == None \notin Ranges /\ MaxAsks \in Nat

VARIABLES
  open,                  \* the application runs; while it does not, the store is alone
  calls,                 \* calls on their way to the service
  inbox,                 \* replies and signals on their way to the client
  connected, ready, shown,  \* the view: shown is the snapshot's revision
  range, occurrences,    \* the range asked for; the range and revision shown
  missed,                \* history: the last snapshot or range call failed
  asks

view == <<connected, ready, shown, range, occurrences, missed>>
busVars == <<calls, inbox>>
clientVars == <<open, view, asks>>
vars == <<storeVars, busVars, clientVars>>

Kinds == {"snapshot", "range", "mutation"}
Calls == [kind : Kinds, live : BOOLEAN]
Messages ==
  [kind : Kinds, live : BOOLEAN, ok : BOOLEAN, revision : 0 .. MaxEdits]
  \cup [kind : {"changed"}, revision : 0 .. MaxEdits]
  \cup [kind : {"owner"}, up : BOOLEAN]

\* The calls and replies that no longer count once P holds of their kind.
Expire(s, gone) ==
  [n \in DOMAIN s |-> IF s[n].kind \in gone THEN [s[n] EXCEPT !.live = FALSE] ELSE s[n]]

\* invoke(): a newer snapshot or range supersedes the ones before.
Invoke(kind, pending, incoming) ==
  LET old == {kind} \ {"mutation"} IN
  /\ calls' = Append(Expire(pending, old), [kind |-> kind, live |-> TRUE])
  /\ inbox' = Expire(incoming, old)

-----------------------------------------------------------------------------
(* The user.                                                                *)

SetEventRange(r) ==
  \/ /\ open /\ asks < MaxAsks /\ asks' = asks + 1
     /\ range' = r
     /\ Invoke("range", calls, inbox)
     /\ UNCHANGED <<storeVars, open, connected, ready, shown, occurrences, missed>>
  \* The range that is shown, with something in it, is not asked for again.
  \/ /\ open /\ r = range /\ occurrences.range # None
     /\ UNCHANGED vars

RequestEdit ==
  /\ open /\ asks < MaxAsks /\ asks' = asks + 1
  /\ Invoke("mutation", calls, inbox)
  /\ UNCHANGED <<storeVars, open, view>>

-----------------------------------------------------------------------------
(* The client's handlers; each takes the head of the inbox.                 *)

Received(kinds) == inbox # <<>> /\ Head(inbox).kind \in kinds

\* onServiceChanged(): a new generation.
OwnerChanged ==
  /\ Received({"owner"})
  /\ ready' = FALSE /\ shown' = 0 /\ connected' = Head(inbox).up
  /\ LET pending == Expire(calls, Kinds)
         incoming == Expire(Tail(inbox), Kinds)
     IN IF connected' THEN Invoke("snapshot", pending, incoming)
                      ELSE calls' = pending /\ inbox' = incoming
  /\ UNCHANGED <<storeVars, open, range, occurrences, missed, asks>>

\* onRemoteChanged(): only a newer revision is worth a snapshot.
RemoteChanged ==
  /\ Received({"changed"})
  /\ IF Head(inbox).revision > shown THEN Invoke("snapshot", calls, Tail(inbox))
                                     ELSE inbox' = Tail(inbox) /\ UNCHANGED calls
  /\ UNCHANGED <<storeVars, clientVars>>

\* A reply that does not count.
StaleReply ==
  /\ Received(Kinds) /\ ~Head(inbox).live
  /\ inbox' = Tail(inbox)
  /\ UNCHANGED <<storeVars, calls, clientVars>>

\* handleReply() of an error: nothing asks again.
Fail(kind) ==
  /\ connected' = FALSE
  /\ missed' = (missed \/ kind # "mutation")
  /\ UNCHANGED <<open, ready, shown, range, occurrences, asks>>

ErrorReply ==
  /\ Received(Kinds) /\ Head(inbox).live /\ ~Head(inbox).ok
  /\ inbox' = Tail(inbox)
  /\ Fail(Head(inbox).kind)
  /\ UNCHANGED <<storeVars, calls>>

\* Faulty variant: the range is only asked for when the user asks.
ReplyAlone ==
  /\ Received(Kinds) /\ Head(inbox).live /\ Head(inbox).ok
  /\ connected' = TRUE /\ inbox' = Tail(inbox)
  /\ LET m == Head(inbox) IN
     CASE m.kind = "snapshot" -> ready' = TRUE /\ shown' = m.revision /\ missed' = FALSE
                                 /\ UNCHANGED occurrences
       [] m.kind = "range" -> occurrences' = [range |-> range, revision |-> m.revision]
                              /\ UNCHANGED <<ready, shown, missed>>
       [] m.kind = "mutation" -> UNCHANGED <<ready, shown, missed, occurrences>>
  /\ UNCHANGED <<storeVars, calls, open, range, asks>>

\* A snapshot is followed by its range; a mutation waits for the signal.
Reply ==
  /\ Received(Kinds) /\ Head(inbox).live /\ Head(inbox).ok
  /\ connected' = TRUE
  /\ LET m == Head(inbox) IN
     CASE m.kind = "snapshot" ->
            /\ ready' = TRUE /\ shown' = m.revision /\ missed' = FALSE
            /\ IF range = None THEN inbox' = Tail(inbox) /\ UNCHANGED calls
                               ELSE Invoke("range", calls, Tail(inbox))
            /\ UNCHANGED occurrences
       [] m.kind = "range" ->
            /\ occurrences' = [range |-> range, revision |-> m.revision]
            /\ inbox' = Tail(inbox) /\ UNCHANGED <<calls, ready, shown, missed>>
       [] m.kind = "mutation" ->
            inbox' = Tail(inbox) /\ UNCHANGED <<calls, ready, shown, missed, occurrences>>
  /\ UNCHANGED <<storeVars, open, range, asks>>

\* The 30 seconds of a call are over before it is answered.
Timeout(n) ==
  /\ calls[n].live /\ faults < MaxFaults /\ faults' = faults + 1
  /\ calls' = [calls EXCEPT ![n].live = FALSE]
  /\ Fail(calls[n].kind)
  /\ UNCHANGED <<memory, saving, files, issued, excuses, edits, inbox>>

-----------------------------------------------------------------------------
(* The service at the bus.                                                  *)

Changed == [kind |-> "changed", revision |-> revision']
ReplyTo(c, ok) == [kind |-> c.kind, live |-> c.live, ok |-> ok, revision |-> revision']

\* snapshot() and eventsForRange(), or a request that was refused.
AnswerQuery ==
  /\ phase = "up" /\ calls # <<>>
  /\ UNCHANGED <<storeVars, clientVars>>
  /\ inbox' = Append(inbox, ReplyTo(Head(calls), TRUE))
  /\ calls' = Tail(calls)

\* An application sees of an edit its revision: while it is open, one kind
\* of edit stands for all.
PlainEdit == open /\ UpdateList

\* A mutation: the signal goes out before the reply.
AnswerEdit ==
  /\ calls # <<>> /\ Head(calls).kind = "mutation"
  /\ PlainEdit
  /\ inbox' = inbox \o <<Changed, ReplyTo(Head(calls), TRUE)>>
  /\ calls' = Tail(calls)
  /\ UNCHANGED clientVars

\* The other application changes something.
OtherEdit ==
  \/ PlainEdit /\ inbox' = Append(inbox, Changed) /\ UNCHANGED <<calls, clientVars>>
  \/ ~open /\ Edit /\ UNCHANGED <<busVars, clientVars>>

\* When the process ends, the bus tells of the lost owner and fails the
\* calls it had been sent, in either order.
Lost == <<[kind |-> "owner", up |-> FALSE]>>
Failures == [n \in DOMAIN calls |-> ReplyTo(calls[n], FALSE)]

Announce ==
  CASE ~open -> UNCHANGED busVars
    [] open /\ phase # "down" /\ phase' = "down" ->
         calls' = <<>> /\ inbox' \in {inbox \o Lost \o Failures, inbox \o Failures \o Lost}
    [] open /\ phase = "down" /\ phase' # "down" ->
         inbox' = Append(inbox, [kind |-> "owner", up |-> TRUE]) /\ UNCHANGED calls
    [] OTHER -> UNCHANGED busVars

Process(A) == A /\ Announce /\ UNCHANGED clientVars

-----------------------------------------------------------------------------
Init ==
  /\ StoreInit
  /\ open \in BOOLEAN /\ inbox = <<>>
  /\ calls = IF open THEN <<[kind |-> "snapshot", live |-> TRUE]>> ELSE <<>>
  /\ connected = FALSE /\ ready = FALSE /\ shown = 0
  /\ range = None /\ occurrences = [range |-> None, revision |-> 0]
  /\ missed = FALSE /\ asks = 0

User == RequestEdit \/ \E r \in Ranges : SetEventRange(r)
Client == OwnerChanged \/ RemoteChanged \/ StaleReply \/ ErrorReply \/ Reply
Answer == AnswerQuery \/ AnswerEdit
Failing == Process(Crash) \/ Process(Damage) \/ \E n \in DOMAIN calls : Timeout(n)

Next ==
  \/ User \/ Client \/ Answer \/ OtherEdit \/ Failing
  \/ Process(Save) \/ Process(WidgetTick) \/ Process(Quit) \/ Process(Start)

Spec == Init /\ [][Next]_vars

\* Timers fire and files are written or not; the service answers; the event
\* loop of the client runs; a call to the absent service activates it.
Activate == calls # <<>> /\ Process(Start)
Fairness ==
  /\ WF_vars(Process(Save)) /\ WF_vars(Answer) /\ WF_vars(Client) /\ WF_vars(Activate)

FairSpec == Spec /\ Fairness

-----------------------------------------------------------------------------
(* Properties.                                                              *)

TypeOK ==
  /\ StoreTypeOK
  /\ calls \in Seq(Calls) /\ inbox \in Seq(Messages)
  /\ open \in BOOLEAN /\ connected \in BOOLEAN /\ ready \in BOOLEAN /\ missed \in BOOLEAN
  /\ shown \in 0 .. MaxEdits /\ range \in Ranges \cup {None}
  /\ occurrences \in [range : Ranges \cup {None}, revision : 0 .. MaxEdits]
  /\ asks \in 0 .. MaxAsks

Current ==
  /\ ready /\ shown = revision
  /\ range # None => occurrences = [range |-> range, revision |-> revision]

\* "The service emits changed(revision) for every accepted mutation and
\* onRemoteChanged() already fetches the new snapshot" (PimClient.cpp 324):
\* the copy catches up with the service that runs, whatever was on the bus
\* and however often it restarted; only a failed call leaves it behind.
ClientCatchesUp ==
  (open /\ phase # "down") ~> (phase = "down" \/ missed \/ Current)
=============================================================================
