---------------------------- MODULE Persistence ----------------------------
(***************************************************************************)
(* How kos-data-service keeps its state on disk (persistence.go, main.go). *)
(*                                                                         *)
(* The service state is one structure guarded by s.mu.  Every critical     *)
(* section that changes it yields the next GENERATION; its contents are    *)
(* abstracted to that number.  persist() holds persistMu from the capture  *)
(* of the generation to the second rename, and publishes state.json and    *)
(* then snapshot.json, each through ONE shared temporary path.  A handler, *)
(* a ticker or the directory watcher that made a change calls persist()    *)
(* and only then tells the subscribers.                                    *)
(***************************************************************************)
EXTENDS Naturals

CONSTANTS
  Threads,      \* goroutines that may call persist()
  Main,         \* the goroutine of main(): start-up and the tickers
  NoThread,     \* persistMu is free
  Torn,         \* a file whose write has begun and not ended
  Absent,       \* no temporary file
  MaxGen,       \* bound: generations explored
  MaxCrashes,   \* bound: crashes explored
  MaxFailures   \* bound: file operations that return an error

ASSUME ThreadAssumption == Main \in Threads /\ NoThread \notin Threads
ASSUME BoundAssumption  == MaxGen \in Nat /\ MaxCrashes \in Nat /\ MaxFailures \in Nat
ASSUME ContentAssumption == Torn \notin Nat /\ Absent \notin Nat /\ Torn # Absent

Files == {"state", "snapshot"}

VARIABLES
  phase,      \* "down", "starting" (main.go 45-47) or "serving"
  mem,        \* generation of s.state
  persistMu,  \* holder of persistMu
  pc,         \* where each goroutine is in persist()
  file,       \* which of the two files the goroutine is writing
  raw,        \* generation it marshalled under s.mu
  owed,       \* generation it must announce once persist() returns, 0: none
  tmp,        \* contents of <path>.tmp
  disk,       \* contents of <path>
  storage,    \* "sound", or "failing": a file operation may return an error
  failures,   \* number of operations that did so far
  booted,     \* history: generation in memory when the process started
  announced,  \* history: newest generation any subscriber was told of
  crashes     \* number of crashes so far

mutexVars == <<persistMu, pc, file, raw>>
diskVars  == <<tmp, disk>>
history   == <<booted, announced, crashes>>
health    == <<storage, failures>>
vars == <<phase, mem, mutexVars, owed, diskVars, health, history>>

Labels == {"idle", "lock", "capture", "write", "fill", "rename", "unlock", "publish"}
Holding == {"capture", "write", "fill", "rename", "unlock"}

TypeOK ==
  /\ phase \in {"down", "starting", "serving"}
  /\ mem \in Nat
  /\ persistMu \in Threads \cup {NoThread}
  /\ pc \in [Threads -> Labels]
  /\ file \in [Threads -> Files]
  /\ raw \in [Threads -> Nat]
  /\ owed \in [Threads -> Nat]
  /\ tmp \in [Files -> Nat \cup {Torn, Absent}]
  /\ disk \in [Files -> Nat \cup {Torn}]
  /\ storage \in {"sound", "failing"} /\ failures \in Nat
  /\ booted \in Nat
  /\ announced \in Nat
  /\ crashes \in Nat

\* A first login: no file yet.  Generation 0 is the built-in default state.
Init ==
  /\ phase = "down"
  /\ mem = 0
  /\ persistMu = NoThread
  /\ pc = [t \in Threads |-> "idle"]
  /\ file = [t \in Threads |-> "state"]
  /\ raw = [t \in Threads |-> 0]
  /\ owed = [t \in Threads |-> 0]
  /\ tmp = [f \in Files |-> Absent]
  /\ disk = [f \in Files |-> 0]
  /\ storage \in {"sound", "failing"} /\ failures = 0
  /\ booted = 0
  /\ announced = 0
  /\ crashes = 0

\* newService ignores a read or decode error and keeps the defaults.
Loaded(content) == IF content \in Nat THEN content ELSE 0

\* Faulty variant: the socket listens before the start-up save is done.
StartServing ==
  /\ phase = "down"
  /\ phase' = "serving"
  /\ mem' \in {Loaded(disk["state"]), Loaded(disk["state"]) + 1}
  /\ mem' <= MaxGen
  /\ booted' = mem'
  /\ pc' = [pc EXCEPT ![Main] = "lock"]
  /\ UNCHANGED <<persistMu, file, raw, owed, diskVars, health, announced, crashes>>

\* main(): newService loads state.json; sample and refreshDesktop may change
\* the state; then main calls persist() before anybody is served.
Start ==
  /\ phase = "down"
  /\ phase' = "starting"
  /\ mem' \in {Loaded(disk["state"]), Loaded(disk["state"]) + 1}
  /\ mem' <= MaxGen
  /\ booted' = mem'
  /\ pc' = [pc EXCEPT ![Main] = "lock"]
  /\ UNCHANGED <<persistMu, file, raw, owed, diskVars, health, announced, crashes>>

\* A handler, the watcher or the reconciliation ticker changes the state under
\* s.mu and goes on to persist() and to the announcement.
Change(t) ==
  /\ phase = "serving" /\ pc[t] = "idle"
  /\ mem < MaxGen
  /\ mem' = mem + 1
  /\ owed' = [owed EXCEPT ![t] = mem']
  /\ pc' = [pc EXCEPT ![t] = "lock"]
  /\ UNCHANGED <<phase, persistMu, file, raw, diskVars, health, history>>

\* settle, sample and activity.active-app change the state and do not save it.
ChangeInMemory(t) ==
  /\ phase = "serving" /\ pc[t] = "idle"
  /\ mem < MaxGen
  /\ mem' = mem + 1
  /\ UNCHANGED <<phase, mutexVars, owed, diskVars, health, history>>

\* Faulty variant: save only if some announced change is still unsaved.
SaveTickIfOwed ==
  /\ phase = "serving" /\ pc[Main] = "idle"
  /\ \E t \in Threads : owed[t] # 0
  /\ pc' = [pc EXCEPT ![Main] = "lock"]
  /\ UNCHANGED <<phase, mem, persistMu, file, raw, owed, diskVars, health, history>>

\* The ten-second save ticker of the main loop.
SaveTick ==
  /\ phase = "serving" /\ pc[Main] = "idle"
  /\ pc' = [pc EXCEPT ![Main] = "lock"]
  /\ UNCHANGED <<phase, mem, persistMu, file, raw, owed, diskVars, health, history>>

\* Faulty variant: the two renames are not serialized.
LockPersistNoMutex(t) ==
  /\ pc[t] = "lock"
  /\ persistMu' = t
  /\ pc' = [pc EXCEPT ![t] = "capture"]
  /\ UNCHANGED <<phase, mem, file, raw, owed, diskVars, health, history>>

\* Faulty variant: a busy persistMu counts as "somebody is saving it already".
LockPersistOrSkip(t) ==
  /\ pc[t] = "lock"
  /\ persistMu' = IF persistMu = NoThread THEN t ELSE persistMu
  /\ pc' = [pc EXCEPT ![t] = IF persistMu = NoThread THEN "capture"
                             ELSE IF owed[t] = 0 THEN "idle" ELSE "publish"]
  /\ UNCHANGED <<phase, mem, file, raw, owed, diskVars, health, history>>

LockPersist(t) ==
  /\ pc[t] = "lock" /\ persistMu = NoThread
  /\ persistMu' = t
  /\ pc' = [pc EXCEPT ![t] = "capture"]
  /\ UNCHANGED <<phase, mem, file, raw, owed, diskVars, health, history>>

\* Under s.mu: settle the clock (which may change the state), marshal both
\* documents from the same state.
Capture(t) ==
  /\ pc[t] = "capture"
  /\ mem' \in {mem, mem + 1} /\ mem' <= MaxGen
  /\ raw' = [raw EXCEPT ![t] = mem']
  /\ file' = [file EXCEPT ![t] = "state"]
  /\ pc' = [pc EXCEPT ![t] = "write"]
  /\ UNCHANGED <<phase, persistMu, owed, diskVars, health, history>>

\* os.WriteFile truncates <path>.tmp, then fills it.
BeginWrite(t) ==
  /\ pc[t] = "write"
  /\ tmp' = [tmp EXCEPT ![file[t]] = Torn]
  /\ pc' = [pc EXCEPT ![t] = "fill"]
  /\ UNCHANGED <<phase, mem, persistMu, file, raw, owed, disk, health, history>>

\* Faulty variant: snapshot.json is marshalled when it is written.
EndWriteLateSnapshot(t) ==
  /\ pc[t] = "fill"
  /\ tmp' = [tmp EXCEPT ![file[t]] = IF file[t] = "state" THEN raw[t] ELSE mem]
  /\ pc' = [pc EXCEPT ![t] = "rename"]
  /\ UNCHANGED <<phase, mem, persistMu, file, raw, owed, disk, health, history>>

EndWrite(t) ==
  /\ pc[t] = "fill"
  /\ tmp' = [tmp EXCEPT ![file[t]] = raw[t]]
  /\ pc' = [pc EXCEPT ![t] = "rename"]
  /\ UNCHANGED <<phase, mem, persistMu, file, raw, owed, disk, health, history>>

\* state.json is followed by snapshot.json, snapshot.json by the unlock.
NextFile(t) ==
  IF file[t] = "state"
  THEN /\ file' = [file EXCEPT ![t] = "snapshot"]
       /\ pc' = [pc EXCEPT ![t] = "write"]
  ELSE /\ file' = file
       /\ pc' = [pc EXCEPT ![t] = "unlock"]

Rename(t) ==
  /\ pc[t] = "rename"
  /\ disk' = [disk EXCEPT ![file[t]] = tmp[file[t]]]
  /\ tmp' = [tmp EXCEPT ![file[t]] = Absent]
  /\ NextFile(t)
  /\ UNCHANGED <<phase, mem, persistMu, raw, owed, health, history>>

\* Any of the three calls fails; persist() drops the error and goes on.
WriteError(t) ==
  /\ storage = "failing" /\ failures < MaxFailures
  /\ failures' = failures + 1
  /\ pc[t] \in {"write", "fill", "rename"}
  /\ NextFile(t)
  /\ UNCHANGED <<phase, mem, persistMu, raw, owed, diskVars, storage, history>>

\* persist() returns: the start-up save opens the socket, a change is
\* announced, a save tick is done.
UnlockPersist(t) ==
  /\ pc[t] = "unlock"
  /\ persistMu' = NoThread
  /\ phase' = "serving"
  /\ pc' = [pc EXCEPT ![t] = IF owed[t] = 0 THEN "idle" ELSE "publish"]
  /\ UNCHANGED <<mem, file, raw, owed, diskVars, health, history>>

\* publishDesktop / publishWeather, then the handler's own reply.
Publish(t) ==
  /\ pc[t] = "publish"
  /\ announced' = IF owed[t] > announced THEN owed[t] ELSE announced
  /\ owed' = [owed EXCEPT ![t] = 0]
  /\ pc' = [pc EXCEPT ![t] = "idle"]
  /\ UNCHANGED <<phase, mem, persistMu, file, raw, diskVars, health, booted, crashes>>

\* The process dies: memory and locks are gone, both directories stay.
Crash ==
  /\ phase # "down" /\ crashes < MaxCrashes
  /\ phase' = "down"
  /\ crashes' = crashes + 1
  /\ mem' = 0
  /\ persistMu' = NoThread
  /\ pc' = [t \in Threads |-> "idle"]
  /\ owed' = [t \in Threads |-> 0]
  /\ UNCHANGED <<file, raw, diskVars, health, booted, announced>>

PersistStep(t) ==
  \/ LockPersist(t) \/ Capture(t) \/ BeginWrite(t) \/ EndWrite(t)
  \/ Rename(t) \/ UnlockPersist(t) \/ Publish(t)

Next ==
  \/ Start \/ SaveTick \/ Crash
  \/ \E t \in Threads : \/ Change(t) \/ ChangeInMemory(t)
                        \/ PersistStep(t) \/ WriteError(t)

\* The process is restarted by systemd; goroutines are scheduled; a Go mutex
\* hands over to a starving waiter, hence strong fairness of LockPersist.
Fairness ==
  /\ WF_vars(Start)
  /\ WF_vars(SaveTick)
  /\ \A t \in Threads : WF_vars(PersistStep(t)) /\ SF_vars(LockPersist(t))

Spec == Init /\ [][Next]_vars
FairSpec == Spec /\ Fairness

-----------------------------------------------------------------------------
(* Properties.  What is said of announcements and restarts needs a disk    *)
(* whose writes succeed; the others hold on any disk.                      *)

\* A part of the next property: a reader of state.json or snapshot.json never sees half a document, even
\* when writes fail or the process dies: the shared .tmp path has one writer
\* from truncation to rename (persistence.go 10-19, 26-29).
NeverTorn == \A f \in Files : disk[f] \in Nat

\* "Concurrent callers ... may overwrite newer state with an older copy": no
\* rename puts half a document on the disk, or replaces state.json by one of
\* an older generation, across goroutines, failed writes and restarts.
StateNeverRegresses ==
  [][NeverTorn' /\ disk'["state"] >= disk["state"]]_vars

\* Why the next property holds (a part of the proof's invariant): when a
\* goroutine is about to announce a change, both documents hold it already.
AnnounceAfterDurable ==
  \A t \in Threads : storage = "sound" /\ pc[t] = "publish" =>
    disk["state"] >= owed[t] /\ disk["snapshot"] >= owed[t]

\* A change any subscriber was told of is in memory after every restart.
AnnouncedSurvivesRestart ==
  storage = "sound" /\ phase # "down" => mem >= announced

\* "The atomic snapshot is created before the socket starts listening."
\* (subscriptions.go 48): nobody is served before snapshot.json holds at
\* least the state the process started from.
ServedAfterSnapshot ==
  storage = "sound" /\ phase = "serving" => disk["snapshot"] >= booted

\* "A crash can lose edits since the last successful disk write": and only a
\* crash can; every generation reaches state.json or the process dies first.
EventuallyDurable ==
  \A g \in 1..MaxGen : storage = "sound" /\ mem >= g ~> (disk["state"] >= g \/ phase = "down")

\* The abstract durable document this protocol implements on a sound disk;
\* nothing is claimed of a failing one.
Sound(value) == IF storage = "sound" THEN value ELSE 0
Document == INSTANCE DurableDocument WITH
  working <- Sound(mem), saved <- Sound(disk["state"]),
  shown <- Sound(disk["snapshot"]), told <- Sound(announced),
  up <- storage = "sound" /\ phase # "down"

\* Refinement: to a client, persist(), the two renames and the announcement
\* are one document that is saved, shown and announced in that order.
ImplementsDurableDocument == Document!Spec
=============================================================================
