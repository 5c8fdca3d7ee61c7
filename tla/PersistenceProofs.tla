------------------------- MODULE PersistenceProofs -------------------------
(***************************************************************************)
(* Theorems about Persistence for every set of goroutines and every bound. *)
(*                                                                         *)
(* NeverTorn and StateNeverRegresses rest on persistMu alone and hold on   *)
(* any disk: the holder's .tmp is its own between EndWrite and Rename, and *)
(* the generation it captured is at least the one on disk.  What is said   *)
(* of announcements and restarts needs writes that succeed.                *)
(***************************************************************************)
EXTENDS Persistence, TLAPS

Writing == {"write", "fill", "rename", "unlock"}

\* persistMu protects everything from the capture to the unlock.
MutexInv == \A t \in Threads : pc[t] \in Holding <=> persistMu = t

\* A goroutine about to rename finds its own document in the shared .tmp.
ContentInv == \A t \in Threads : pc[t] = "rename" => tmp[file[t]] = raw[t]

\* What is being saved is neither newer than memory nor older than the disk.
OrderInv ==
  /\ phase # "down" => disk["state"] <= mem
  /\ phase = "down" => \A t \in Threads : pc[t] = "idle"
  /\ \A t \in Threads : pc[t] \in Writing =>
       disk["state"] <= raw[t] /\ raw[t] <= mem

IInv == TypeOK /\ MutexInv /\ ContentInv /\ NeverTorn /\ OrderInv

-----------------------------------------------------------------------------

LEMMA InitIInv == Init => IInv
  BY ThreadAssumption, ContentAssumption
  DEF Init, IInv, TypeOK, MutexInv, ContentInv, NeverTorn, OrderInv,
      Files, Labels, Holding, Writing

LEMMA NextIInv == IInv /\ [Next]_vars => IInv' /\ disk'["state"] >= disk["state"]
<1> SUFFICES ASSUME IInv, [Next]_vars
             PROVE  IInv' /\ disk'["state"] >= disk["state"]
  OBVIOUS
<1> USE ThreadAssumption, BoundAssumption, ContentAssumption
    DEF IInv, TypeOK, MutexInv, ContentInv, NeverTorn, OrderInv,
        Files, Labels, Holding, Writing, mutexVars, diskVars, health, history
<1>1. CASE Start
  BY <1>1 DEF Start, Loaded
<1>2. CASE SaveTick
  BY <1>2 DEF SaveTick
<1>3. CASE Crash
  BY <1>3 DEF Crash
<1>4. ASSUME NEW t \in Threads, Change(t)
      PROVE  IInv' /\ disk'["state"] >= disk["state"]
  BY <1>4 DEF Change
<1>5. ASSUME NEW t \in Threads, ChangeInMemory(t)
      PROVE  IInv' /\ disk'["state"] >= disk["state"]
  BY <1>5 DEF ChangeInMemory
<1>6. ASSUME NEW t \in Threads, LockPersist(t)
      PROVE  IInv' /\ disk'["state"] >= disk["state"]
  BY <1>6 DEF LockPersist
<1>7. ASSUME NEW t \in Threads, Capture(t)
      PROVE  IInv' /\ disk'["state"] >= disk["state"]
  BY <1>7 DEF Capture
<1>8. ASSUME NEW t \in Threads, BeginWrite(t)
      PROVE  IInv' /\ disk'["state"] >= disk["state"]
  BY <1>8 DEF BeginWrite
<1>9. ASSUME NEW t \in Threads, EndWrite(t)
      PROVE  IInv' /\ disk'["state"] >= disk["state"]
  BY <1>9 DEF EndWrite
<1>10. ASSUME NEW t \in Threads, Rename(t)
       PROVE  IInv' /\ disk'["state"] >= disk["state"]
  BY <1>10 DEF Rename, NextFile
<1>11. ASSUME NEW t \in Threads, WriteError(t)
       PROVE  IInv' /\ disk'["state"] >= disk["state"]
  BY <1>11 DEF WriteError, NextFile
<1>12. ASSUME NEW t \in Threads, UnlockPersist(t)
       PROVE  IInv' /\ disk'["state"] >= disk["state"]
  BY <1>12 DEF UnlockPersist
<1>13. ASSUME NEW t \in Threads, Publish(t)
       PROVE  IInv' /\ disk'["state"] >= disk["state"]
  BY <1>13 DEF Publish
<1>14. CASE UNCHANGED vars
  BY <1>14 DEF vars
<1> QED
  BY <1>1, <1>2, <1>3, <1>4, <1>5, <1>6, <1>7, <1>8, <1>9, <1>10, <1>11,
     <1>12, <1>13, <1>14 DEF Next, PersistStep

\* Persistence's variables keep their types.
THEOREM TypeCorrect == Spec => []TypeOK
<1>1. IInv => TypeOK
  BY DEF IInv
<1> QED
  BY <1>1, InitIInv, NextIInv, PTL DEF Spec

\* Neither document is ever torn, however many goroutines call persist(),
\* whatever write fails and whenever the process dies.
THEOREM WholeDocuments == Spec => []NeverTorn
<1>1. IInv => NeverTorn
  BY DEF IInv
<1> QED
  BY <1>1, InitIInv, NextIInv, PTL DEF Spec

\* No write leaves half a document, and state.json is never replaced by an
\* older generation.
THEOREM MonotoneState == Spec => StateNeverRegresses
<1>1. IInv /\ [Next]_vars =>
        [NeverTorn' /\ disk'["state"] >= disk["state"]]_vars
  BY NextIInv DEF IInv
<1> QED
  BY <1>1, InitIInv, NextIInv, PTL DEF Spec, StateNeverRegresses

-----------------------------------------------------------------------------
(* A disk that does not fail.                                              *)

\* state.json is saved before snapshot.json.
SavedInv ==
  /\ disk["snapshot"] <= disk["state"]
  /\ \A t \in Threads : pc[t] \in Writing =>
       /\ file[t] = "snapshot" => disk["state"] = raw[t]
       /\ pc[t] = "unlock" => /\ disk["state"] = raw[t]
                             /\ disk["snapshot"] = raw[t]

\* What a goroutine owes its subscribers was captured by its own persist().
OwedInv ==
  \A t \in Threads : /\ owed[t] <= mem
                     /\ pc[t] \in Writing => owed[t] <= raw[t]
                     /\ pc[t] = "idle" => owed[t] = 0

\* What was announced, and what the process started from, has been shown.
ShownInv ==
  /\ announced <= disk["snapshot"]
  /\ phase # "down" => booted <= mem
  /\ phase = "starting" => \A t \in Threads : pc[t] \in Writing => booted <= raw[t]

SoundInv ==
  SavedInv /\ OwedInv /\ AnnounceAfterDurable /\ ShownInv /\ ServedAfterSnapshot
DInv == IInv /\ (storage = "sound" => SoundInv)

LEMMA InitDInv == Init => DInv
  BY InitIInv
  DEF Init, DInv, SoundInv, SavedInv, OwedInv, AnnounceAfterDurable, ShownInv,
      ServedAfterSnapshot, Files, Writing

LEMMA StorageKept == [Next]_vars => storage' = storage
  BY DEF Next, vars, Start, SaveTick, Crash, Change, ChangeInMemory, PersistStep,
     LockPersist, Capture, BeginWrite, EndWrite, Rename, WriteError, UnlockPersist,
     Publish, health

LEMMA NextDInv == DInv /\ [Next]_vars => DInv'
<1> SUFFICES ASSUME DInv, [Next]_vars, storage = "sound" PROVE SoundInv'
  BY NextIInv, StorageKept DEF DInv
<1>a. IInv'
  BY NextIInv DEF DInv
<1> USE <1>a, ThreadAssumption, BoundAssumption, ContentAssumption
    DEF DInv, SoundInv, SavedInv, OwedInv, AnnounceAfterDurable, ShownInv,
        ServedAfterSnapshot, IInv, TypeOK, MutexInv, ContentInv, NeverTorn,
        OrderInv, Files, Labels, Holding, Writing, mutexVars, diskVars, health, history
<1>1. CASE Start
  BY <1>1 DEF Start, Loaded
<1>2. CASE SaveTick
  BY <1>2 DEF SaveTick
<1>3. CASE Crash
  BY <1>3 DEF Crash
<1>4. ASSUME NEW t \in Threads, Change(t) PROVE SoundInv'
  BY <1>4 DEF Change
<1>5. ASSUME NEW t \in Threads, ChangeInMemory(t) PROVE SoundInv'
  BY <1>5 DEF ChangeInMemory
<1>6. ASSUME NEW t \in Threads, LockPersist(t) PROVE SoundInv'
  BY <1>6 DEF LockPersist
<1>7. ASSUME NEW t \in Threads, Capture(t) PROVE SoundInv'
  BY <1>7 DEF Capture
<1>8. ASSUME NEW t \in Threads, BeginWrite(t) PROVE SoundInv'
  BY <1>8 DEF BeginWrite
<1>9. ASSUME NEW t \in Threads, EndWrite(t) PROVE SoundInv'
  BY <1>9 DEF EndWrite
<1>10. ASSUME NEW t \in Threads, Rename(t) PROVE SoundInv'
  BY <1>10 DEF Rename, NextFile
<1>11. ASSUME NEW t \in Threads, WriteError(t) PROVE SoundInv'
  BY <1>11 DEF WriteError
<1>12. ASSUME NEW t \in Threads, UnlockPersist(t) PROVE SoundInv'
  BY <1>12 DEF UnlockPersist
<1>13. ASSUME NEW t \in Threads, Publish(t) PROVE SoundInv'
  BY <1>13 DEF Publish
<1>14. CASE UNCHANGED vars
  BY <1>14 DEF vars
<1> QED
  BY <1>1, <1>2, <1>3, <1>4, <1>5, <1>6, <1>7, <1>8, <1>9, <1>10, <1>11,
     <1>12, <1>13, <1>14 DEF Next, PersistStep

\* When writes succeed, a change is announced only once both documents hold
\* it.
THEOREM DurableAnnouncements == Spec => []AnnounceAfterDurable
<1>1. DInv => AnnounceAfterDurable
  BY DEF DInv, SoundInv, AnnounceAfterDurable
<1> QED
  BY <1>1, InitDInv, NextDInv, PTL DEF Spec

\* When writes succeed, no restart forgets a change that was announced.
THEOREM AnnouncementsSurvive == Spec => []AnnouncedSurvivesRestart
<1>1. DInv => AnnouncedSurvivesRestart
  BY DEF DInv, SoundInv, IInv, TypeOK, NeverTorn, Files, OrderInv, SavedInv, ShownInv,
         AnnouncedSurvivesRestart
<1> QED
  BY <1>1, InitDInv, NextDInv, PTL DEF Spec

\* When writes succeed, the socket opens after the start-up snapshot.
THEOREM SnapshotBeforeSocket == Spec => []ServedAfterSnapshot
<1>1. DInv => ServedAfterSnapshot
  BY DEF DInv, SoundInv, ServedAfterSnapshot
<1> QED
  BY <1>1, InitDInv, NextDInv, PTL DEF Spec

-----------------------------------------------------------------------------
(* Refinement.                                                             *)

LEMMA RefineInit == Init => Document!Init
  BY DEF Init, Document!Init, Files, Sound

LEMMA RefineNext == DInv /\ [Next]_vars => [Document!Next]_(Document!docVars)
<1> SUFFICES ASSUME DInv, [Next]_vars
             PROVE  Document!Next \/ UNCHANGED Document!docVars
  OBVIOUS
<1>s. storage' = storage
  BY StorageKept
<1>f. CASE storage # "sound"
  BY <1>s, <1>f DEF Document!docVars, Sound
<1> SUFFICES ASSUME storage = "sound" PROVE Document!Next \/ UNCHANGED Document!docVars
  BY <1>f
<1> USE <1>s, ThreadAssumption, BoundAssumption, ContentAssumption
    DEF DInv, SoundInv, SavedInv, OwedInv, AnnounceAfterDurable, ShownInv,
        IInv, TypeOK, MutexInv, ContentInv, NeverTorn,
        OrderInv, Files, Labels, Holding, Writing, mutexVars, diskVars, health, history,
        Document!docVars, Sound
<1>1. CASE Start
  BY <1>1 DEF Start, Loaded, Document!Next, Document!Resume
<1>2. CASE SaveTick
  BY <1>2 DEF SaveTick
<1>3. CASE Crash
  BY <1>3 DEF Crash, Document!Next, Document!Stop
<1>4. ASSUME NEW t \in Threads, Change(t) \/ ChangeInMemory(t)
      PROVE  Document!Modify
  BY <1>4 DEF Change, ChangeInMemory, Document!Modify
<1>5. ASSUME NEW t \in Threads,
             LockPersist(t) \/ BeginWrite(t) \/ EndWrite(t)
      PROVE  UNCHANGED Document!docVars
  BY <1>5 DEF LockPersist, BeginWrite, EndWrite
<1>6. ASSUME NEW t \in Threads, Capture(t)
      PROVE  Document!Modify \/ UNCHANGED Document!docVars
  BY <1>6 DEF Capture, Document!Modify
<1>7. ASSUME NEW t \in Threads, Rename(t)
      PROVE  Document!Save \/ Document!Show
  <2>1. CASE file[t] = "state"
    BY <1>7, <2>1 DEF Rename, NextFile, Document!Save
  <2>2. CASE file[t] = "snapshot"
    BY <1>7, <2>2 DEF Rename, NextFile, Document!Show
  <2> QED
    BY <2>1, <2>2
<1>8. ASSUME NEW t \in Threads, WriteError(t) PROVE FALSE
  BY <1>8 DEF WriteError
<1>9. ASSUME NEW t \in Threads, UnlockPersist(t)
      PROVE  UNCHANGED Document!docVars
  BY <1>9 DEF UnlockPersist
<1>10. ASSUME NEW t \in Threads, Publish(t)
       PROVE  Document!Tell
  BY <1>10 DEF Publish, Document!Tell
<1>11. CASE UNCHANGED vars
  BY <1>11 DEF vars
<1> QED
  BY <1>1, <1>2, <1>3, <1>4, <1>5, <1>6, <1>7, <1>8, <1>9, <1>10, <1>11
  DEF Next, PersistStep, Document!Next

\* When writes succeed, persist(), its renames and the announcements together
\* implement one document that is saved, shown and announced in that order.
THEOREM Refinement == Spec => ImplementsDurableDocument
<1> QED
  BY RefineInit, RefineNext, InitDInv, NextDInv, PTL
  DEF Spec, ImplementsDurableDocument, Document!Spec
=============================================================================
