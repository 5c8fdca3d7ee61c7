----------------------- MODULE DesktopPlacementProofs -----------------------
(***************************************************************************)
(* Theorems about DesktopPlacement for every set of paths, files, screens  *)
(* and goroutines.  The two maps agree because every critical section      *)
(* writes both; a placement happens on a connected screen because outputs  *)
(* change only under desktopMu, which the placement holds from its check   *)
(* to its assignment.                                                      *)
(***************************************************************************)
EXTENDS DesktopPlacement, FiniteSetTheorems, TLAPS

Inside == {"names", "info", "assign"}

\* desktopMu is held from the check to the last write of the maps, and a
\* placement in that section was checked against the outputs as they are.
LockInv ==
  /\ \A t \in Threads : pc[t] \in Inside <=> desktopMu = t
  /\ \A t \in Threads : pc[t] = "assign" => req[t].op = "place"
  /\ \A t \in Threads : pc[t] \in Inside /\ req[t].op = "place" => req[t].output \in outputs

ThreadTypes == pc \in [Threads -> Labels] /\ DOMAIN req = Threads /\ crashes \in Nat

IInv == EntriesMatchPlacements /\ LockInv /\ ThreadTypes

-----------------------------------------------------------------------------

LEMMA InitIInv == Init => IInv
  BY ThreadAssumption
  DEF Init, IInv, EntriesMatchPlacements, SameOwners, LockInv, ThreadTypes,
      Inside, Labels, Nothing

LEMMA EditKeeps ==
  ASSUME IInv, NEW w, Edit(w) PROVE IInv'
  BY DEF Edit, IInv, EntriesMatchPlacements, SameOwners, LockInv, ThreadTypes,
         memory, screens, thread

\* What a scan writes into both maps.
LEMMA ScanKeeps ==
  ASSUME IInv, NEW t \in Threads, pc[t] \in {"names", "info"}, NEW c,
         AfterScan(t, c), SameOwners(entries', placements')
  PROVE  IInv'
<1> USE ThreadAssumption DEF IInv, ThreadTypes, AfterScan, screens, bounds
<1>1. EntriesMatchPlacements'
  BY DEF EntriesMatchPlacements, SameOwners
<1>2. LockInv' /\ ThreadTypes'
  BY DEF LockInv, Inside, Labels
<1> QED
  BY <1>1, <1>2

LEMMA NextIInv == IInv /\ [Next]_vars => IInv'
<1> SUFFICES ASSUME IInv, [Next]_vars PROVE IInv'
  OBVIOUS
<1> USE ThreadAssumption
    DEF memory, screens, thread, scan, bounds
<1>1. ASSUME NEW p \in Paths, NEW q \in Paths, NEW i \in Ids,
             RemoveFile(p) \/ CreateFile(p, i) \/ MoveFile(p, q) \/ LinkFile(p, q) \/ Remount
      PROVE  IInv'
  BY <1>1, EditKeeps DEF RemoveFile, CreateFile, MoveFile, LinkFile, Remount
<1>2. CASE SaveTick
  BY <1>2 DEF SaveTick, SaveMemory, IInv, EntriesMatchPlacements, SameOwners,
              LockInv, ThreadTypes
<1>3. CASE Crash
  <2>1. EntriesMatchPlacements'
    BY <1>3 DEF Crash, IInv, EntriesMatchPlacements, SameOwners
  <2>2. LockInv' /\ ThreadTypes'
    BY <1>3, BoundAssumption DEF Crash, IInv, LockInv, ThreadTypes, Inside, Labels
  <2> QED
    BY <2>1, <2>2 DEF IInv
<1>4. ASSUME NEW t \in Threads, NEW r \in {Refresh} \cup OutputReq \cup PlaceReq,
             Request(t, r)
      PROVE  IInv'
  BY <1>4 DEF Request, IInv, EntriesMatchPlacements, SameOwners, LockInv,
              ThreadTypes, Inside, Labels
<1>5. ASSUME NEW t \in Threads, Lock(t)
      PROVE  IInv'
  <2>1. EntriesMatchPlacements'
    BY <1>5 DEF Lock, IInv, EntriesMatchPlacements, SameOwners
  <2>2. LockInv' /\ ThreadTypes'
    BY <1>5 DEF Lock, IInv, LockInv, ThreadTypes, Inside, Labels
  <2> QED
    BY <2>1, <2>2 DEF IInv
<1>6. ASSUME NEW t \in Threads, ReadNames(t)
      PROVE  IInv'
  BY <1>6 DEF ReadNames, IInv, EntriesMatchPlacements, SameOwners, LockInv,
              ThreadTypes, Inside, Labels
<1>7. ASSUME NEW t \in Threads, ReadInfo(t)
      PROVE  IInv'
  BY <1>7 DEF ReadInfo, IInv, EntriesMatchPlacements, SameOwners, LockInv,
              ThreadTypes, Inside, Labels
<1>8. ASSUME NEW t \in Threads, FailScan(t)
      PROVE  IInv'
  <2>1. SameOwners(entries', placements') /\ pc[t] \in {"names", "info"}
    BY <1>8 DEF FailScan, IInv, EntriesMatchPlacements, SameOwners
  <2> QED
    BY <1>8, <2>1, ScanKeeps DEF FailScan
<1>9. ASSUME NEW t \in Threads, CommitScan(t)
      PROVE  IInv'
  <2>1. SameOwners(entries', placements') /\ pc[t] \in {"names", "info"}
    BY <1>9 DEF CommitScan, SameOwners
  <2>2. PICK c : AfterScan(t, c)
    BY <1>9 DEF CommitScan
  <2> QED
    BY <2>1, <2>2, ScanKeeps
<1>10. ASSUME NEW t \in Threads, Assign(t)
       PROVE  IInv'
  <2>1. EntriesMatchPlacements'
    BY <1>10 DEF Assign, IInv, EntriesMatchPlacements, SameOwners
  <2>2. LockInv' /\ ThreadTypes'
    BY <1>10 DEF Assign, IInv, LockInv, ThreadTypes, Inside, Labels
  <2> QED
    BY <2>1, <2>2 DEF IInv
<1>11. ASSUME NEW t \in Threads, Save(t)
       PROVE  IInv'
  BY <1>11 DEF Save, SaveMemory, IInv, EntriesMatchPlacements, SameOwners,
               LockInv, ThreadTypes, Inside, Labels
<1>12. ASSUME NEW t \in Threads, Respond(t)
       PROVE  IInv'
  BY <1>12 DEF Respond, IInv, EntriesMatchPlacements, SameOwners, LockInv,
               ThreadTypes, Inside, Labels
<1>13. CASE UNCHANGED vars
  BY <1>13 DEF vars, IInv, EntriesMatchPlacements, SameOwners, LockInv, ThreadTypes
<1> QED
  BY <1>1, <1>2, <1>3, <1>4, <1>5, <1>6, <1>7, <1>8, <1>9, <1>10, <1>11,
     <1>12, <1>13, EditKeeps
  DEF Next, ScanStep, RemoveFile, CreateFile, MoveFile, LinkFile, Remount

\* The icons drawn and the owners remembered agree, in memory and on disk,
\* through every interleaving of scans, placements, saves and crashes.
THEOREM OwnersAgree == Spec => []EntriesMatchPlacements
<1>1. IInv => EntriesMatchPlacements
  BY DEF IInv
<1> QED
  BY <1>1, InitIInv, NextIInv, PTL DEF Spec

\* No output change gets between the check of a placement and its effect.
THEOREM PlacementsOnConnectedOutputs == Spec => []PlacedOnConnectedOutput
<1>1. IInv => PlacedOnConnectedOutput
  BY DEF IInv, LockInv, Inside, PlacedOnConnectedOutput
<1> QED
  BY <1>1, InitIInv, NextIInv, PTL DEF Spec

-----------------------------------------------------------------------------

\* A file known under one path only.
LEMMA OneName ==
  ASSUME NEW f, NEW p \in DOMAIN f, \A q \in DOMAIN f : f[q] = f[p] => q = p
  PROVE  Cardinality(Named(f, f[p])) = 1
<1>1. Named(f, f[p]) = {p}
  BY DEF Named
<1> QED
  BY <1>1, FS_Singleton

LEMMA NoOtherName ==
  ASSUME NEW f, DOMAIN f \subseteq Paths, NEW p \in DOMAIN f,
         Cardinality(Named(f, f[p])) = 1
  PROVE  \A q \in DOMAIN f : f[q] = f[p] => q = p
<1>1. Named(f, f[p]) \subseteq Paths
  BY DEF Named
<1>2. IsFiniteSet(Named(f, f[p]))
  BY <1>1, PathAssumption, FS_Subset
<1>3. PICK x : Named(f, f[p]) = {x}
  BY <1>2, FS_Singleton
<1> QED
  BY <1>3 DEF Named

\* The path that a renamed file had is gone and was the only one with its
\* identity; the file is found once.
LEMMA RenamedFromOne ==
  ASSUME NEW found, DOMAIN found \subseteq Paths, NEW previous,
         NEW p \in DOMAIN found, NEW q \in RenamedFrom(p, found, previous)
  PROVE  /\ q \in DOMAIN previous \ DOMAIN found
         /\ previous[q].id = found[p]
         /\ \A r \in DOMAIN found : found[r] = found[p] => r = p
<1>1. /\ Cardinality(Named(found, found[p])) = 1
      /\ q \in Named(IdOf(previous), found[p]) \ DOMAIN found
  BY DEF RenamedFrom
<1>2. \A r \in DOMAIN found : found[r] = found[p] => r = p
  BY <1>1, NoOtherName
<1>3. q \in DOMAIN previous \ DOMAIN found /\ previous[q].id = found[p]
  BY <1>1 DEF Named, IdOf
<1> QED
  BY <1>2, <1>3

\* The scan gives a new path the default screen, or the owner that it follows.
LEMMA ScanInherits ==
  ASSUME EntriesMatchPlacements, DOMAIN seen \subseteq Paths,
         entries' = Reconcile(seen, placements),
         NEW p \in DOMAIN entries', p \notin DOMAIN entries
  PROVE  Inherited(p)
<1> DEFINE from == RenamedFrom(p, seen, placements)
           owner == PreviousOwner(p, seen, placements)
<1>1. /\ DOMAIN entries' = DOMAIN seen
      /\ \A r \in DOMAIN seen : entries'[r].id = seen[r]
      /\ entries'[p].output = IF owner = NoOutput THEN defaultOutput ELSE owner
  BY DEF Reconcile
<1>2. p \notin DOMAIN placements
  BY DEF EntriesMatchPlacements, SameOwners
<1>3. owner = IF from # {} THEN placements[CHOOSE q \in from : TRUE].output ELSE NoOutput
  BY <1>2 DEF PreviousOwner
<1>4. \A q \in from : /\ q \in DOMAIN placements \ DOMAIN seen
                      /\ placements[q].id = seen[p]
                      /\ \A r \in DOMAIN seen : seen[r] = seen[p] => r = p
  BY <1>1, RenamedFromOne
<1> HIDE DEF from, owner
<1>5. CASE owner = NoOutput
  BY <1>1, <1>5 DEF Inherited
<1>6. CASE owner # NoOutput
  <2>1. PICK q \in from : owner = placements[q].output
    BY <1>3, <1>6
  <2> QED
    BY <1>1, <1>4, <1>6, <2>1 DEF Inherited
<1> QED
  BY <1>5, <1>6

LEMMA StepKeepsOwners ==
  ASSUME IInv, DOMAIN seen \subseteq Paths, [Next]_vars, crashes' = crashes,
         NEW p \in DOMAIN entries'
  PROVE  IF p \in DOMAIN entries THEN Kept(p) ELSE Inherited(p)
<1>1. ASSUME NEW t \in Threads, CommitScan(t)
      PROVE  IF p \in DOMAIN entries THEN Kept(p) ELSE Inherited(p)
  <2>1. entries' = Reconcile(seen, placements)
    BY <1>1 DEF CommitScan
  <2>2. CASE p \in DOMAIN entries
    <3>1. p \in DOMAIN placements /\ placements[p].output = entries[p].output
      BY <2>2 DEF IInv, EntriesMatchPlacements, SameOwners
    <3>2. PreviousOwner(p, seen, placements) = entries[p].output
      BY <3>1 DEF PreviousOwner
    <3>3. p \in DOMAIN seen
      BY <2>1 DEF Reconcile
    <3> QED
      BY <2>1, <2>2, <3>2, <3>3 DEF Reconcile, Kept
  <2>3. CASE p \notin DOMAIN entries
    BY <2>1, <2>3, ScanInherits DEF IInv
  <2> QED
    BY <2>2, <2>3
<1>2. ASSUME NEW t \in Threads, Assign(t)
      PROVE  IF p \in DOMAIN entries THEN Kept(p) ELSE Inherited(p)
  <2>1. p \in DOMAIN entries
    BY <1>2 DEF Assign
  <2>2. Kept(p)
    BY <1>2 DEF Assign, Kept
  <2> QED
    BY <2>1, <2>2
<1>3. CASE Crash
  <2>1. crashes' # crashes
    BY <1>3, BoundAssumption DEF Crash, IInv, ThreadTypes
  <2> QED
    BY <2>1
<1>4. CASE UNCHANGED entries
  BY <1>4 DEF Kept
<1>5. (\E t \in Threads : CommitScan(t) \/ Assign(t)) \/ Crash \/ UNCHANGED entries
  BY DEF Next, ScanStep, vars, memory, Edit, RemoveFile, CreateFile, MoveFile,
         LinkFile, Remount, SaveTick, Request, Lock, ReadNames, ReadInfo,
         FailScan, Save, Respond
<1> QED
  BY <1>1, <1>2, <1>3, <1>4, <1>5

-----------------------------------------------------------------------------
(* Types.                                                                  *)

Owner == [output : AnyOutput, id : AnyId]
IsOwned(f) ==
  /\ f = [p \in DOMAIN f |-> f[p]] /\ DOMAIN f \subseteq Paths
  /\ \A p \in DOMAIN f : f[p] \in Owner
IsFound(f) ==
  /\ f = [p \in DOMAIN f |-> f[p]] /\ DOMAIN f \subseteq Paths
  /\ \A p \in DOMAIN f : f[p] \in Ids

Requests == {Refresh} \cup OutputReq \cup PlaceReq

DiskTyped   == dir \in [Paths -> Ids \cup {NoFile}] /\ mounted \in BOOLEAN
               /\ under \in [Paths -> Ids \cup {NoFile}]
MemoryTyped == /\ IsOwned(entries) /\ IsOwned(placements)
               /\ saved = [entries |-> saved.entries, placements |-> saved.placements]
               /\ IsOwned(saved.entries) /\ IsOwned(saved.placements)
ScreenTyped == outputs \in SUBSET Outputs /\ defaultOutput \in AnyOutput
ThreadTyped == /\ desktopMu \in Threads \cup {NoThread} /\ pc \in [Threads -> Labels]
               /\ req \in [Threads -> Requests] /\ changed \in [Threads -> BOOLEAN]
ScanTyped   == unread \in SUBSET Paths /\ todo \in SUBSET Paths /\ IsFound(seen) /\ raced \in 0..2
BoundTyped  == /\ serving \in BOOLEAN
               /\ edits \in Nat /\ requests \in Nat /\ crashes \in Nat

\* A map of some paths, without the union over their sets.
LEMMA MapsOfPaths ==
  /\ \A f : f \in Owned <=> IsOwned(f)
  /\ \A f : f \in UNION {[S -> Ids] : S \in SUBSET Paths} <=> IsFound(f)
<1>1. \A f : f \in Owned <=> IsOwned(f)
  BY DEF Owned, IsOwned, Owner
<1>2. \A f : f \in UNION {[S -> Ids] : S \in SUBSET Paths} <=> IsFound(f)
  BY DEF IsFound
<1> QED
  BY <1>1, <1>2

LEMMA TypeParts ==
  TypeOK <=> /\ DiskTyped /\ MemoryTyped /\ ScreenTyped
             /\ ThreadTyped /\ ScanTyped /\ BoundTyped
<1> DEFINE Pair == [entries : Owned, placements : Owned]
<1>1. saved \in Pair <=> /\ saved = [entries |-> saved.entries, placements |-> saved.placements]
                         /\ saved.entries \in Owned /\ saved.placements \in Owned
  OBVIOUS
<1>2. /\ entries \in Owned <=> IsOwned(entries)
      /\ placements \in Owned <=> IsOwned(placements)
      /\ saved.entries \in Owned <=> IsOwned(saved.entries)
      /\ saved.placements \in Owned <=> IsOwned(saved.placements)
      /\ seen \in UNION {[S -> Ids] : S \in SUBSET Paths} <=> IsFound(seen)
  BY MapsOfPaths
<1> QED
  BY <1>1, <1>2
  DEF TypeOK, DiskTyped, MemoryTyped, ScreenTyped, ThreadTyped, ScanTyped, BoundTyped, Requests

\* An inherited owner is the owner of some path before.
LEMMA PreviousOwnerType ==
  ASSUME NEW found, NEW previous, IsOwned(previous), NEW p \in DOMAIN found
  PROVE  PreviousOwner(p, found, previous) \in AnyOutput
<1> DEFINE from == RenamedFrom(p, found, previous)
<1>1. \A q \in DOMAIN previous : previous[q].output \in AnyOutput
  BY DEF IsOwned, Owner
<1>2. from \subseteq DOMAIN previous
  BY DEF RenamedFrom, Named, IdOf
<1> HIDE DEF from
<1>3. from # {} => (CHOOSE q \in from : TRUE) \in from
  OBVIOUS
<1>4. NoOutput \in AnyOutput
  BY DEF AnyOutput
<1> QED
  BY <1>1, <1>2, <1>3, <1>4 DEF PreviousOwner, from

\* A scan leaves each file that it found with an owner or none.
LEMMA ReconcileType ==
  ASSUME NEW found, NEW previous, IsFound(found), IsOwned(previous), defaultOutput \in AnyOutput
  PROVE  IsOwned(Reconcile(found, previous))
<1> DEFINE out(p) == IF PreviousOwner(p, found, previous) = NoOutput THEN defaultOutput
                     ELSE PreviousOwner(p, found, previous)
<1>1. \A p \in DOMAIN found : out(p) \in AnyOutput
  BY PreviousOwnerType
<1>2. \A p \in DOMAIN found : found[p] \in AnyId
  BY DEF IsFound, AnyId
<1>3. Reconcile(found, previous) = [p \in DOMAIN found |-> [output |-> out(p), id |-> found[p]]]
  BY DEF Reconcile
<1> HIDE DEF out
<1>4. DOMAIN Reconcile(found, previous) = DOMAIN found /\ DOMAIN found \subseteq Paths
  BY <1>3 DEF IsFound
<1>5. \A p \in DOMAIN found : Reconcile(found, previous)[p] \in Owner
  BY <1>1, <1>2, <1>3 DEF Owner
<1> QED
  BY <1>3, <1>4, <1>5 DEF IsOwned

\* The end of a scan: a handler goes on under desktopMu or without it.
LEMMA AfterScanType ==
  ASSUME ThreadTyped, BoundTyped, DiskTyped, ScreenTyped,
         NEW t \in Threads, NEW c \in BOOLEAN, AfterScan(t, c)
  PROVE  ThreadTyped' /\ BoundTyped' /\ DiskTyped' /\ ScreenTyped' /\ ScanTyped' /\ saved' = saved
<1>1. /\ unread' = Paths /\ todo' = {} /\ seen' = Nothing /\ raced' = 0 /\ req' = req
      /\ UNCHANGED <<dir, mounted, under, saved, outputs, defaultOutput, serving, edits, requests, crashes>>
  BY DEF AfterScan, disk, screens, bounds
<1>2. ScanTyped'
  BY <1>1 DEF ScanTyped, IsFound, Nothing
<1>3. changed' \in [Threads -> BOOLEAN]
  BY DEF AfterScan, ThreadTyped
<1>4. pc' \in [Threads -> Labels] /\ desktopMu' \in Threads \cup {NoThread}
  BY DEF AfterScan, ThreadTyped, Labels
<1> QED
  BY <1>1, <1>2, <1>3, <1>4 DEF ThreadTyped, BoundTyped, DiskTyped, ScreenTyped

LEMMA TypeStep ==
  ASSUME TypeOK, LockInv, [Next]_vars
  PROVE  TypeOK'
<1>l. LockInv
  OBVIOUS
<1>p. ASSUME DiskTyped', MemoryTyped', ScreenTyped', ThreadTyped', ScanTyped', BoundTyped'
      PROVE  TypeOK'
  <2>1. /\ entries' \in Owned /\ placements' \in Owned
        /\ saved'.entries \in Owned /\ saved'.placements \in Owned
        /\ seen' \in UNION {[S -> Ids] : S \in SUBSET Paths}
    BY <1>p, MapsOfPaths DEF MemoryTyped, ScanTyped
  <2>2. saved' \in [entries : Owned, placements : Owned]
    BY <1>p, <2>1 DEF MemoryTyped
  <2> QED
    BY <1>p, <2>1, <2>2
    DEF TypeOK, DiskTyped, ScreenTyped, ThreadTyped, ScanTyped, BoundTyped, Requests
<1>d. DiskTyped
  BY TypeParts
<1>m. MemoryTyped
  BY TypeParts
<1>s. ScreenTyped
  BY TypeParts
<1>t. ThreadTyped
  BY TypeParts
<1>c. ScanTyped
  BY TypeParts
<1>b. BoundTyped
  BY TypeParts
<1>ud. ASSUME UNCHANGED disk
       PROVE  DiskTyped'
  BY <1>d, <1>ud DEF DiskTyped, disk
<1>um. ASSUME UNCHANGED memory
       PROVE  MemoryTyped'
  BY <1>m, <1>um DEF MemoryTyped, IsOwned, memory
<1>us. ASSUME UNCHANGED screens
       PROVE  ScreenTyped'
  BY <1>s, <1>us DEF ScreenTyped, screens
<1>ut. ASSUME UNCHANGED thread
       PROVE  ThreadTyped'
  BY <1>t, <1>ut DEF ThreadTyped, thread
<1>uc. ASSUME UNCHANGED scan
       PROVE  ScanTyped'
  BY <1>c, <1>uc DEF ScanTyped, IsFound, scan
<1>ub. ASSUME UNCHANGED <<serving, bounds>>
       PROVE  BoundTyped'
  BY <1>b, <1>ub DEF BoundTyped, bounds
<1>1. ASSUME NEW w \in {1, 2}, Edit(w)
      PROVE  MemoryTyped' /\ ScreenTyped' /\ ThreadTyped' /\ ScanTyped' /\ BoundTyped'
  <2>1. /\ UNCHANGED memory /\ UNCHANGED screens /\ UNCHANGED thread
        /\ unread' = unread /\ todo' = todo /\ seen' = seen /\ edits' = edits + 1
        /\ UNCHANGED <<serving, requests, crashes>>
    BY <1>1 DEF Edit
  <2>2. raced' \in 0..2
    BY <1>1, <1>c DEF Edit, ScanTyped
  <2> QED
    BY <1>um, <1>us, <1>ut, <1>c, <1>b, <2>1, <2>2 DEF ScanTyped, IsFound, BoundTyped
<1>3. CASE SaveTick
  <2>1. MemoryTyped'
    BY <1>3, <1>m DEF SaveTick, SaveMemory, MemoryTyped, IsOwned
  <2>2. /\ UNCHANGED disk /\ UNCHANGED screens /\ UNCHANGED thread
        /\ UNCHANGED scan /\ UNCHANGED <<serving, bounds>>
    BY <1>3 DEF SaveTick
  <2> QED
    BY <1>p, <1>ud, <1>us, <1>ut, <1>uc, <1>ub, <2>1, <2>2
<1>4. CASE Crash
  <2>1. IsOwned(entries')
    <3> DEFINE old == saved.entries
    <3>1. DOMAIN old \subseteq Paths /\ \A p \in DOMAIN old : old[p] \in Owner
      BY <1>m DEF MemoryTyped, IsOwned
    <3>2. entries' = [p \in DOMAIN old |-> [old[p] EXCEPT !.id = NoId]]
      BY <1>4 DEF Crash
    <3> HIDE DEF old
    <3>3. \A p \in DOMAIN old : [old[p] EXCEPT !.id = NoId] \in Owner
      BY <3>1 DEF Owner, AnyId
    <3> QED
      BY <3>1, <3>2, <3>3 DEF IsOwned
  <2>2. MemoryTyped'
    BY <1>4, <1>m, <2>1 DEF Crash, MemoryTyped, IsOwned
  <2>3. DiskTyped' /\ ScreenTyped'
    BY <1>4, <1>ud DEF Crash, ScreenTyped, AnyOutput
  <2>b. BoundTyped'
    <3>1. crashes' = crashes + 1 /\ serving' = FALSE /\ edits' = edits /\ requests' = requests
      BY <1>4 DEF Crash
    <3>2. crashes' \in Nat /\ edits' \in Nat /\ requests' \in Nat
      BY <1>b, <3>1 DEF BoundTyped
    <3> QED
      BY <3>1, <3>2 DEF BoundTyped
  <2>4. ThreadTyped'
    BY <1>4 DEF Crash, ThreadTyped, Labels, Requests
  <2>5. ScanTyped'
    BY <1>4 DEF Crash, ScanTyped, IsFound, Nothing
  <2> QED
    BY <1>p, <2>2, <2>3, <2>4, <2>5, <2>b
<1>5. ASSUME NEW t \in Threads, NEW r \in Requests, Request(t, r)
      PROVE  TypeOK'
  <2>1. ThreadTyped'
    BY <1>5, <1>t DEF Request, ThreadTyped, Labels
  <2>2. BoundTyped'
    BY <1>5, <1>b DEF Request, BoundTyped
  <2>3. /\ UNCHANGED disk /\ UNCHANGED memory /\ UNCHANGED screens /\ UNCHANGED scan
    BY <1>5 DEF Request
  <2> QED
    BY <1>p, <1>ud, <1>um, <1>us, <1>uc, <2>1, <2>2, <2>3
<1>6. ASSUME NEW t \in Threads, Lock(t)
      PROVE  TypeOK'
  <2>1. ThreadTyped'
    BY <1>6, <1>t DEF Lock, ThreadTyped, Labels
  <2>2. req[t] \in Requests
    BY <1>t DEF ThreadTyped
  <2>3. req[t].op = "outputs" => req[t].outputs \in SUBSET Outputs /\ req[t].default \in AnyOutput
    BY <2>2 DEF Requests, Refresh, OutputReq, PlaceReq
  <2>4. ScreenTyped'
    BY <1>6, <1>s, <2>3 DEF Lock, ScreenTyped
  <2>5. /\ UNCHANGED disk /\ UNCHANGED memory /\ UNCHANGED scan
        /\ UNCHANGED <<serving, bounds>>
    BY <1>6 DEF Lock
  <2> QED
    BY <1>p, <1>ud, <1>um, <1>uc, <1>ub, <2>1, <2>4, <2>5
<1>7. ASSUME NEW t \in Threads, ReadNames(t)
      PROVE  TypeOK'
  <2>1. ThreadTyped'
    BY <1>7, <1>t DEF ReadNames, ThreadTyped, Labels
  <2>3. ScanTyped'
    BY <1>7, <1>c DEF ReadNames, ScanTyped, IsFound
  <2>2. /\ UNCHANGED disk /\ UNCHANGED memory /\ UNCHANGED screens
        /\ UNCHANGED <<serving, bounds>>
    BY <1>7 DEF ReadNames
  <2> QED
    BY <1>p, <1>ud, <1>um, <1>us, <1>ub, <2>1, <2>2, <2>3
<1>8. ASSUME NEW t \in Threads, ReadInfo(t)
      PROVE  TypeOK'
  <2>1. PICK p \in todo :
          /\ dir[p] # NoFile /\ todo' = todo \ {p}
          /\ seen' = [q \in DOMAIN seen \cup {p} |-> IF q = p THEN dir[p] ELSE seen[q]]
    BY <1>8 DEF ReadInfo
  <2>2. p \in Paths /\ dir[p] \in Ids
    BY <1>c, <1>d, <2>1 DEF ScanTyped, DiskTyped
  <2>3. IsFound(seen')
    BY <1>c, <2>1, <2>2 DEF ScanTyped, IsFound
  <2>4. ScanTyped'
    BY <1>8, <1>c, <2>1, <2>3 DEF ReadInfo, ScanTyped
  <2>5. /\ UNCHANGED disk /\ UNCHANGED memory /\ UNCHANGED screens
        /\ UNCHANGED thread /\ UNCHANGED <<serving, bounds>>
    BY <1>8 DEF ReadInfo
  <2> QED
    BY <1>p, <1>ud, <1>um, <1>us, <1>ut, <1>ub, <2>4, <2>5
<1>9. ASSUME NEW t \in Threads, FailScan(t)
      PROVE  TypeOK'
  <2>1. AfterScan(t, FALSE) /\ entries' = entries /\ placements' = placements
    BY <1>9 DEF FailScan
  <2>2. ThreadTyped' /\ BoundTyped' /\ DiskTyped' /\ ScreenTyped' /\ ScanTyped' /\ saved' = saved
    BY <1>t, <1>b, <1>d, <1>s, <2>1, AfterScanType
  <2> QED
    BY <1>p, <1>um, <2>1, <2>2 DEF memory
<1>10. ASSUME NEW t \in Threads, CommitScan(t)
       PROVE  TypeOK'
  <2> DEFINE c == Reconcile(seen, placements) # entries \/ Reconcile(seen, placements) # placements
  <2>1. /\ entries' = Reconcile(seen, placements) /\ placements' = Reconcile(seen, placements)
        /\ AfterScan(t, c) /\ c \in BOOLEAN
    BY <1>10 DEF CommitScan
  <2> HIDE DEF c
  <2>2. ThreadTyped' /\ BoundTyped' /\ DiskTyped' /\ ScreenTyped' /\ ScanTyped' /\ saved' = saved
    BY <1>t, <1>b, <1>d, <1>s, <2>1, AfterScanType
  <2>3. IsOwned(Reconcile(seen, placements))
    BY <1>c, <1>m, <1>s, ReconcileType DEF ScanTyped, MemoryTyped, ScreenTyped
  <2>4. IsOwned(entries') /\ IsOwned(placements')
    BY <2>1, <2>3
  <2>5. MemoryTyped'
    BY <1>m, <2>2, <2>4 DEF MemoryTyped, IsOwned
  <2> QED
    BY <1>p, <2>2, <2>5
<1>11. ASSUME NEW t \in Threads, Assign(t)
       PROVE  TypeOK'
  <2>1. req[t] \in Requests /\ pc[t] = "assign"
    BY <1>11, <1>t DEF ThreadTyped, Assign
  <2>2. ThreadTyped'
    BY <1>11, <1>t, <2>1 DEF Assign, ThreadTyped, Labels, Requests
  <2>3. IsOwned(entries') /\ IsOwned(placements')
    <3> DEFINE r == req[t]
               moving == {p \in r.paths \cap DOMAIN entries : entries[p].output # r.output}
               placed(p) == [output |-> r.output, id |-> entries[p].id]
    <3>1. /\ entries' = entries
             \/ entries' = [p \in DOMAIN entries |->
                             IF p \in moving THEN placed(p) ELSE entries[p]]
          /\ placements' = placements
             \/ placements' = [p \in DOMAIN placements \cup moving |->
                                IF p \in moving THEN placed(p) ELSE placements[p]]
      BY <1>11 DEF Assign
    <3>2. r.output \in Outputs
      BY <1>l, <2>1 DEF LockInv, Requests, Refresh, OutputReq, PlaceReq
    <3>3. moving \subseteq DOMAIN entries /\ moving \subseteq Paths
      BY <1>m DEF MemoryTyped, IsOwned
    <3>4. \A p \in moving : placed(p) \in Owner
      BY <1>m, <3>2 DEF MemoryTyped, IsOwned, Owner, AnyOutput
    <3> HIDE DEF r, moving, placed
    <3>5. IsOwned(entries')
      BY <1>m, <3>1, <3>3, <3>4 DEF MemoryTyped, IsOwned
    <3>6. IsOwned(placements')
      BY <1>m, <3>1, <3>3, <3>4 DEF MemoryTyped, IsOwned
    <3> QED
      BY <3>5, <3>6
  <2>4. MemoryTyped'
    BY <1>11, <1>m, <2>3 DEF Assign, MemoryTyped, IsOwned
  <2>5. /\ UNCHANGED disk /\ UNCHANGED screens /\ UNCHANGED scan
        /\ UNCHANGED <<serving, bounds>>
    BY <1>11 DEF Assign
  <2> QED
    BY <1>p, <1>ud, <1>us, <1>uc, <1>ub, <2>2, <2>4, <2>5
<1>12. ASSUME NEW t \in Threads, Save(t)
       PROVE  TypeOK'
  <2>1. MemoryTyped'
    BY <1>12, <1>m DEF Save, SaveMemory, MemoryTyped, IsOwned
  <2>2. ThreadTyped'
    BY <1>12, <1>t DEF Save, ThreadTyped, Labels
  <2>3. /\ UNCHANGED disk /\ UNCHANGED screens /\ UNCHANGED scan
        /\ UNCHANGED <<serving, bounds>>
    BY <1>12 DEF Save
  <2> QED
    BY <1>p, <1>ud, <1>us, <1>uc, <1>ub, <2>1, <2>2, <2>3
<1>13. ASSUME NEW t \in Threads, Respond(t)
       PROVE  TypeOK'
  <2>1. ThreadTyped' /\ BoundTyped'
    BY <1>13, <1>t, <1>b DEF Respond, ThreadTyped, Labels, BoundTyped, bounds
  <2>2. UNCHANGED disk /\ UNCHANGED memory /\ UNCHANGED screens /\ UNCHANGED scan
    BY <1>13 DEF Respond
  <2> QED
    BY <1>p, <1>ud, <1>um, <1>us, <1>uc, <2>1, <2>2
<1>14. CASE UNCHANGED vars
  BY <1>14, <1>p, <1>ud, <1>um, <1>us, <1>ut, <1>uc, <1>ub DEF vars
<1>15. CASE \E p \in Paths : RemoveFile(p) \/ \E i \in Ids : CreateFile(p, i)
  <2>1. PICK p \in Paths : RemoveFile(p) \/ \E i \in Ids : CreateFile(p, i)
    BY <1>15
  <2>2. DiskTyped'
    BY <1>d, <2>1 DEF RemoveFile, CreateFile, DiskTyped
  <2> QED
    BY <1>1, <1>p, <2>1, <2>2 DEF RemoveFile, CreateFile
<1>16. CASE \E p, q \in Paths : MoveFile(p, q) \/ LinkFile(p, q)
  <2>1. PICK p \in Paths, q \in Paths : MoveFile(p, q) \/ LinkFile(p, q)
    BY <1>16
  <2>2. DiskTyped'
    BY <1>d, <2>1 DEF MoveFile, LinkFile, DiskTyped
  <2> QED
    BY <1>1, <1>p, <2>1, <2>2 DEF MoveFile, LinkFile
<1>17. CASE Remount
  BY <1>17, <1>1, <1>p, <1>d DEF Remount, DiskTyped
<1> QED
  BY <1>3, <1>4, <1>5, <1>6, <1>7, <1>8, <1>9, <1>10, <1>11, <1>12, <1>13, <1>14, <1>15,
     <1>16, <1>17
  DEF Next, ScanStep, Requests

\* The service never holds an owner, a request or a partial scan of another
\* shape; an owner that a renamed file inherits was the owner of a path.
THEOREM TypeCorrect == Spec => []TypeOK
<1>1. Init => TypeOK
  <2> SUFFICES ASSUME Init PROVE TypeOK
    OBVIOUS
  <2>1. DiskTyped /\ ScreenTyped /\ BoundTyped
    BY DEF Init, DiskTyped, ScreenTyped, AnyOutput, BoundTyped
  <2>2. IsOwned(Nothing) /\ IsFound(Nothing)
    BY DEF IsOwned, IsFound, Nothing
  <2>3. MemoryTyped /\ ScanTyped
    BY <2>2 DEF Init, MemoryTyped, ScanTyped
  <2>4. ThreadTyped
    BY DEF Init, ThreadTyped, Labels, Requests
  <2> QED
    BY <2>1, <2>3, <2>4, TypeParts
<1>2. TypeOK /\ IInv /\ [Next]_vars => TypeOK'
  BY TypeStep DEF IInv
<1> QED
  BY <1>1, <1>2, InitIInv, NextIInv, PTL DEF Spec

\* While the service runs, only a placement moves an icon that has an owner,
\* and a new icon takes no owner but that of a file that has moved.
THEOREM OnlyPlacementsMoveIcons == Spec => OwnersChangeByPlacement
<1>1. TypeOK /\ IInv /\ [Next]_vars =>
        [crashes' = crashes =>
           \A p \in DOMAIN entries' :
             IF p \in DOMAIN entries THEN Kept(p) ELSE Inherited(p)]_vars
  <2>1. TypeOK => DOMAIN seen \subseteq Paths
    BY TypeParts DEF ScanTyped, IsFound
  <2> QED
    BY <2>1, StepKeepsOwners
<1> QED
  BY <1>1, TypeCorrect, InitIInv, NextIInv, PTL DEF Spec, OwnersChangeByPlacement
-----------------------------------------------------------------------------
(* A scan that one rename raced finds every file.                          *)

\* A name vanished before its lstat: the scan will fail.
Vanished == \E p \in todo : dir[p] = NoFile

\* Every file of the directory was found at some name, or will be.
Accounted ==
  \A r \in Paths : dir[r] # NoFile =>
    \/ \E q \in DOMAIN seen : seen[q] = dir[r]
    \/ \E q \in todo \cup unread : dir[q] = dir[r]

\* What is listed is what the directory was; one edit leaves every file
\* accounted for, or a name that vanished.
RaceInv ==
  /\ \A t \in Threads : pc[t] = "info" => unread = {}
  /\ todo \cap DOMAIN seen = {} /\ unread \cap (todo \cup DOMAIN seen) = {}
  /\ raced = 0 => /\ \A p \in Paths \ unread : dir[p] # NoFile <=> p \in todo \cup DOMAIN seen
                  /\ \A p \in DOMAIN seen : seen[p] = dir[p]
  /\ raced <= 1 => Vanished \/ Accounted

\* An edit of a scan under way: only the first one needs a look, and that
\* only if it weighs one.
LEMMA OneEdit ==
  ASSUME TypeOK, RaceInv, NEW w \in {1, 2}, Edit(w),
         unread # Paths /\ raced = 0 /\ w = 1 => (Vanished \/ Accounted)'
  PROVE  RaceInv'
<1>1. /\ raced \in 0..2 /\ todo' = todo /\ seen' = seen /\ unread' = unread /\ pc' = pc
      /\ raced' = IF unread = Paths THEN 0 ELSE IF raced + w > 2 THEN 2 ELSE raced + w
      /\ todo \subseteq Paths /\ DOMAIN seen \subseteq Paths
  BY TypeParts DEF Edit, ScanTyped, IsFound, thread
<1>2. /\ (\A t \in Threads : pc[t] = "info" => unread = {})'
      /\ (todo \cap DOMAIN seen = {})' /\ (unread \cap (todo \cup DOMAIN seen) = {})'
  BY <1>1 DEF RaceInv
<1>3. CASE unread = Paths
  <2>1. todo' = {} /\ DOMAIN seen' = {} /\ unread' = Paths
    BY <1>1, <1>3 DEF RaceInv
  <2>2. Accounted'
    BY <2>1 DEF Accounted
  <2> QED
    BY <1>2, <2>1, <2>2 DEF RaceInv
<1>4. CASE unread # Paths
  <2>1. raced' # 0 /\ (raced' <= 1 => raced = 0 /\ w = 1)
    BY <1>1, <1>4
  <2> QED
    BY <1>2, <1>4, <2>1 DEF RaceInv
<1> QED
  BY <1>3, <1>4

\* Before the first edit, what is in the directory is found or to be found.
LEMMA Undisturbed ==
  ASSUME TypeOK, RaceInv, raced = 0, NEW r \in Paths, dir[r] # NoFile
  PROVE  (r \in DOMAIN seen /\ seen[r] = dir[r]) \/ r \in todo \cup unread
BY DEF RaceInv

\* A file removed while nothing else changed: what is left was there.
LEMMA RemovedIsRaced ==
  ASSUME TypeOK, RaceInv, NEW p \in Paths, RemoveFile(p)
  PROVE  RaceInv'
<1>1. /\ Edit(1) /\ dir' = [dir EXCEPT ![p] = NoFile]
      /\ todo' = todo /\ seen' = seen /\ unread' = unread
  BY DEF RemoveFile, Edit
<1>2. dir \in [Paths -> Ids \cup {NoFile}]
  BY TypeParts DEF DiskTyped
<1>3. \A r \in Paths : dir'[r] # NoFile => dir[r] # NoFile /\ dir'[r] = dir[r]
  BY <1>1, <1>2
<1>4. raced = 0 => Accounted'
  BY <1>1, <1>3, Undisturbed DEF Accounted
<1> QED
  BY <1>1, <1>4, OneEdit

\* A file renamed from p to q when all names are listed: it was found at p,
\* or its name p vanished.
LEMMA MovedIsRaced ==
  ASSUME TypeOK, RaceInv, NEW p \in Paths, NEW q \in Paths, MoveFile(p, q)
  PROVE  RaceInv'
<1> DEFINE w == IF unread = {} THEN 1 ELSE 2
<1>1. /\ Edit(w) /\ dir' = [dir EXCEPT ![q] = dir[p], ![p] = NoFile]
      /\ todo' = todo /\ seen' = seen /\ unread' = unread /\ dir[p] # NoFile /\ p # q
  BY DEF MoveFile, Edit
<1>2. dir \in [Paths -> Ids \cup {NoFile}]
  BY TypeParts DEF DiskTyped
<1>3. /\ dir'[p] = NoFile /\ dir'[q] = dir[p]
      /\ \A r \in Paths \ {p, q} : dir'[r] = dir[r]
  BY <1>1, <1>2
<1>4. ASSUME raced = 0, unread = {}
      PROVE  (Vanished \/ Accounted)'
  <2>1. CASE p \in todo
    BY <1>1, <1>3, <2>1 DEF Vanished
  <2>2. CASE p \notin todo
    <3>1. p \in DOMAIN seen /\ seen[p] = dir[p]
      BY <1>1, <1>4, <2>2, Undisturbed
    <3>2. ASSUME NEW r \in Paths, dir'[r] # NoFile
          PROVE  (\E s \in DOMAIN seen : seen[s] = dir'[r]) \/ (\E s \in todo : dir'[s] = dir'[r])
      <4>1. CASE r = q
        BY <1>3, <3>1, <4>1
      <4>2. CASE r # q
        <5>1. r # p /\ dir'[r] = dir[r]
          BY <1>3, <3>2, <4>2
        <5> QED
          BY <1>4, <3>2, <5>1, Undisturbed
      <4> QED
        BY <4>1, <4>2
    <3> QED
      BY <1>1, <3>2 DEF Accounted
  <2> QED
    BY <2>1, <2>2
<1>5. w \in {1, 2} /\ (w = 1 => unread = {})
  OBVIOUS
<1> HIDE DEF w
<1> QED
  BY <1>1, <1>4, <1>5, OneEdit

\* A second name for a file that the scan found, or will find.
LEMMA LinkedIsRaced ==
  ASSUME TypeOK, RaceInv, NEW p \in Paths, NEW q \in Paths, LinkFile(p, q)
  PROVE  RaceInv'
<1>1. /\ Edit(1) /\ dir' = [dir EXCEPT ![q] = dir[p]] /\ dir[q] = NoFile
      /\ todo' = todo /\ seen' = seen /\ unread' = unread /\ dir[p] # NoFile
  BY DEF LinkFile, Edit
<1>2. dir \in [Paths -> Ids \cup {NoFile}]
  BY TypeParts DEF DiskTyped
<1>3. dir'[q] = dir[p] /\ \A r \in Paths : dir[r] # NoFile => dir'[r] = dir[r]
  BY <1>1, <1>2
<1>4. ASSUME raced = 0
      PROVE  Accounted'
  <2>1. ASSUME NEW r \in Paths, dir'[r] # NoFile
        PROVE  \/ \E s \in DOMAIN seen : seen[s] = dir'[r]
               \/ \E s \in todo \cup unread : dir'[s] = dir'[r]
    <3>1. PICK s \in Paths : dir[s] # NoFile /\ dir[s] = dir'[r]
      BY <1>1, <1>2, <1>3, <2>1
    <3>2. (s \in DOMAIN seen /\ seen[s] = dir[s]) \/ s \in todo \cup unread
      BY <1>4, <3>1, Undisturbed
    <3> QED
      BY <1>3, <3>1, <3>2
  <2> QED
    BY <1>1, <2>1 DEF Accounted
<1> QED
  BY <1>1, <1>4, OneEdit

\* The names of one more block of the directory.
LEMMA ListedIsRaced ==
  ASSUME TypeOK, RaceInv, NEW t \in Threads, ReadNames(t)
  PROVE  RaceInv'
<1>1. PICK block \in (SUBSET unread) \ {{}} :
        /\ unread' = unread \ block
        /\ todo' = todo \cup {p \in block : dir[p] # NoFile}
  BY DEF ReadNames
<1>2. dir' = dir /\ seen' = seen /\ raced' = raced
  BY DEF ReadNames, disk
<1>3. unread \subseteq Paths /\ pc \in [Threads -> Labels]
  BY TypeParts DEF ScanTyped, ThreadTyped
<1>4. (\A u \in Threads : pc[u] = "info" => unread = {})'
  <2>1. \A u \in Threads : pc[u] # "info"
    BY <1>1 DEF RaceInv
  <2> QED
    BY <1>3, <2>1 DEF ReadNames
<1>5. (todo \cap DOMAIN seen = {})' /\ (unread \cap (todo \cup DOMAIN seen) = {})'
  BY <1>1, <1>2 DEF RaceInv
<1>6. ASSUME raced = 0
      PROVE  /\ \A p \in Paths \ unread' : dir[p] # NoFile <=> p \in todo' \cup DOMAIN seen
             /\ \A p \in DOMAIN seen : seen[p] = dir[p]
  BY <1>1, <1>6 DEF RaceInv
<1>7. Vanished => Vanished'
  BY <1>1, <1>2 DEF Vanished
<1>8. Accounted => Accounted'
  <2>1. \A q \in todo \cup unread : dir[q] # NoFile => q \in todo' \cup unread'
    BY <1>1
  <2> QED
    BY <1>2, <2>1 DEF Accounted
<1> QED
  BY <1>2, <1>4, <1>5, <1>6, <1>7, <1>8 DEF RaceInv

LEMMA RaceStep ==
  ASSUME TypeOK, LockInv, RaceInv, [Next]_vars
  PROVE  RaceInv'
<1>t. /\ dir \in [Paths -> Ids \cup {NoFile}] /\ todo \subseteq Paths /\ raced \in 0..2
      /\ pc \in [Threads -> Labels]
  BY TypeParts DEF DiskTyped, ScanTyped, ThreadTyped
\* A step that leaves the scan under way alone.
<1>k. ASSUME UNCHANGED <<dir, scan>>, \A u \in Threads : pc'[u] = "info" => pc[u] = "info"
      PROVE  RaceInv'
  BY <1>k DEF RaceInv, Vanished, Accounted, scan
\* No scan is under way.
<1>e. ASSUME unread' = Paths, todo' = {}, seen' = Nothing, \A u \in Threads : pc'[u] # "info"
      PROVE  RaceInv'
  <2>1. DOMAIN seen' = {}
    BY <1>e DEF Nothing
  <2>2. Accounted'
    BY <1>e DEF Accounted
  <2> QED
    BY <1>e, <2>1, <2>2 DEF RaceInv
<1>a. ASSUME NEW t \in Threads, NEW c, pc[t] \in {"names", "info"}, AfterScan(t, c)
      PROVE  RaceInv'
  <2>1. pc'[t] # "info" /\ \A u \in Threads : u # t => pc'[u] = pc[u] /\ pc[u] # "info"
    BY <1>a, <1>t DEF AfterScan, LockInv, Inside
  <2>2. unread' = Paths /\ todo' = {} /\ seen' = Nothing
    BY <1>a DEF AfterScan
  <2> QED
    BY <1>e, <2>1, <2>2
<1>1. ASSUME NEW p \in Paths, NEW i \in Ids, CreateFile(p, i)
      PROVE  RaceInv'
  BY <1>1, OneEdit DEF CreateFile
<1>2. CASE Remount
  <2>1. CASE Edit(1) /\ UNCHANGED <<dir, under>>
    <3>1. dir' = dir /\ todo' = todo /\ seen' = seen /\ unread' = unread
      BY <2>1 DEF Edit
    <3>2. raced = 0 => (Vanished \/ Accounted)'
      BY <3>1 DEF RaceInv, Vanished, Accounted
    <3> QED
      BY <2>1, <3>2, OneEdit
  <2>2. CASE Edit(2)
    BY <2>2, OneEdit
  <2> QED
    BY <1>2, <2>1, <2>2 DEF Remount
<1>3. CASE SaveTick
  BY <1>3, <1>k DEF SaveTick, thread, disk
<1>4. CASE Crash
  <2>1. \A u \in Threads : pc'[u] # "info"
    BY <1>4 DEF Crash
  <2> QED
    BY <1>4, <1>e, <2>1 DEF Crash
<1>5. ASSUME NEW t \in Threads, NEW r, Request(t, r)
      PROVE  RaceInv'
  BY <1>5, <1>k, <1>t DEF Request, disk
<1>6. ASSUME NEW t \in Threads, Lock(t) \/ Assign(t) \/ Save(t) \/ Respond(t)
      PROVE  RaceInv'
  <2>1. pc'[t] # "info" /\ \A u \in Threads : u # t => pc'[u] = pc[u]
    BY <1>6, <1>t DEF Lock, Assign, Save, Respond
  <2>2. UNCHANGED <<dir, scan>>
    BY <1>6 DEF Lock, Assign, Save, Respond, disk
  <2> QED
    BY <1>k, <2>1, <2>2
<1>8. ASSUME NEW t \in Threads, ReadInfo(t)
      PROVE  RaceInv'
  <2>1. PICK p \in todo :
          /\ dir[p] # NoFile /\ todo' = todo \ {p}
          /\ seen' = [q \in DOMAIN seen \cup {p} |-> IF q = p THEN dir[p] ELSE seen[q]]
    BY <1>8 DEF ReadInfo
  <2>2. raced' = raced /\ dir' = dir /\ unread' = unread /\ pc' = pc
    BY <1>8 DEF ReadInfo, disk, thread
  <2>3. todo \cap DOMAIN seen = {} /\ unread \cap (todo \cup DOMAIN seen) = {}
    BY DEF RaceInv
  <2>4. /\ DOMAIN seen' = DOMAIN seen \cup {p} /\ seen'[p] = dir[p]
        /\ \A q \in DOMAIN seen : q # p /\ seen'[q] = seen[q]
    BY <2>1, <2>3
  <2>5. (todo \cap DOMAIN seen = {})' /\ (unread \cap (todo \cup DOMAIN seen) = {})'
    BY <2>1, <2>2, <2>3, <2>4
  <2>6. ASSUME raced = 0
        PROVE  /\ \A q \in Paths \ unread' : dir'[q] # NoFile <=> q \in todo' \cup DOMAIN seen'
               /\ \A q \in DOMAIN seen' : seen'[q] = dir'[q]
    <3>1. /\ \A q \in Paths \ unread : dir[q] # NoFile <=> q \in todo \cup DOMAIN seen
          /\ \A q \in DOMAIN seen : seen[q] = dir[q]
      BY <2>6 DEF RaceInv
    <3>2. todo' \cup DOMAIN seen' = todo \cup DOMAIN seen
      BY <2>1, <2>4
    <3> QED
      BY <2>2, <2>4, <3>1, <3>2
  <2>7. Vanished => Vanished'
    BY <2>1, <2>2 DEF Vanished
  <2>8. ASSUME Accounted
        PROVE  Accounted'
    <3> SUFFICES ASSUME NEW r \in Paths, dir'[r] # NoFile
                 PROVE  \/ \E q \in DOMAIN seen' : seen'[q] = dir'[r]
                        \/ \E q \in todo' \cup unread' : dir'[q] = dir'[r]
      BY DEF Accounted
    <3>1. CASE \E q \in DOMAIN seen : seen[q] = dir[r]
      BY <2>2, <2>4, <3>1
    <3>2. CASE \E q \in todo \cup unread : dir[q] = dir[r]
      BY <2>1, <2>2, <2>4, <3>2
    <3> QED
      BY <2>2, <2>8, <3>1, <3>2 DEF Accounted
  <2>9. raced' <= 1 => (Vanished \/ Accounted)'
    BY <2>2, <2>7, <2>8 DEF RaceInv
  <2>10. (\A u \in Threads : pc[u] = "info" => unread = {})'
    BY <2>2 DEF RaceInv
  <2> QED
    BY <2>2, <2>5, <2>6, <2>9, <2>10 DEF RaceInv
<1>9. ASSUME NEW t \in Threads, FailScan(t)
      PROVE  RaceInv'
  <2>1. pc[t] \in {"names", "info"} /\ \E c : AfterScan(t, c)
    BY <1>9 DEF FailScan
  <2> QED
    BY <1>a, <2>1
<1>10. ASSUME NEW t \in Threads, CommitScan(t)
       PROVE  RaceInv'
  <2>1. pc[t] \in {"names", "info"} /\ \E c : AfterScan(t, c)
    BY <1>10 DEF CommitScan
  <2> QED
    BY <1>a, <2>1
<1>11. CASE UNCHANGED vars
  BY <1>11, <1>k DEF vars, thread, disk
<1> QED
  BY <1>1, <1>2, <1>3, <1>4, <1>5, <1>6, <1>8, <1>9, <1>10, <1>11,
     RemovedIsRaced, MovedIsRaced, LinkedIsRaced, ListedIsRaced
  DEF Next, ScanStep

\* A file with one name before and one now: its new path has the old owner.
LEMMA FollowedOnce ==
  ASSUME NEW p \in DOMAIN placements, NEW q \in DOMAIN seen,
         p \notin DOMAIN seen, q \notin DOMAIN placements, seen[q] = placements[p].id,
         \A r \in DOMAIN placements : placements[r].id = placements[p].id => r = p,
         \A r \in DOMAIN seen : seen[r] = seen[q] => r = q
  PROVE  PreviousOwner(q, seen, placements) = placements[p].output
<1>1. Cardinality(Named(seen, seen[q])) = 1
  BY OneName
<1>2. Named(IdOf(placements), seen[q]) = {p}
  BY DEF Named, IdOf
<1>3. Cardinality(Named(IdOf(placements), seen[q])) = 1
  BY <1>2, FS_Singleton
<1>4. RenamedFrom(q, seen, placements) = {p}
  BY <1>1, <1>2, <1>3 DEF RenamedFrom
<1> QED
  BY <1>4 DEF PreviousOwner

\* An old identity and its owner survive a scan that one rename raced.
LEMMA StepForgetsNone ==
  ASSUME TypeOK, RaceInv, [Next]_vars, raced < 2, crashes' = crashes,
         NEW p \in DOMAIN placements \ DOMAIN placements', placements[p].id \in Range(dir)
  PROVE  \E q \in DOMAIN placements' : Follows(q, p)
<1>1. PICK t \in Threads : CommitScan(t)
  <2>1. ~Crash
    <3>1. crashes \in Nat
      BY TypeParts DEF BoundTyped
    <3>2. Crash => crashes' = crashes + 1
      BY DEF Crash
    <3> QED
      BY <3>1, <3>2
  <2>2. \A t \in Threads : Assign(t) => DOMAIN placements \subseteq DOMAIN placements'
    BY DEF Assign
  <2>3. \/ \E t \in Threads : CommitScan(t) \/ Assign(t)
        \/ Crash \/ UNCHANGED placements
    BY DEF Next, ScanStep, vars, memory, Edit, RemoveFile, CreateFile, MoveFile,
           LinkFile, Remount, SaveTick, Request, Lock, ReadNames, ReadInfo,
           FailScan, Save, Respond
  <2> QED
    BY <2>1, <2>2, <2>3
<1>2. placements' = Reconcile(seen, placements) /\ todo = {} /\ unread = {}
  BY <1>1 DEF CommitScan, RaceInv
<1>3. /\ DOMAIN placements' = DOMAIN seen
      /\ \A q \in DOMAIN seen :
           /\ placements'[q].id = seen[q]
           /\ PreviousOwner(q, seen, placements) # NoOutput =>
                placements'[q].output = PreviousOwner(q, seen, placements)
  BY <1>2 DEF Reconcile
<1>4. raced \in 0..2 /\ DOMAIN dir = Paths /\ placements[p].id \in AnyId
  BY TypeParts DEF ScanTyped, DiskTyped, MemoryTyped, IsOwned, Owner
<1>5. Accounted
  <2>1. raced <= 1
    BY <1>4
  <2> QED
    BY <1>2, <2>1 DEF RaceInv, Vanished
<1>6. PICK r \in Paths : dir[r] = placements[p].id
  BY <1>4 DEF Range
<1>7. dir[r] # NoFile
  BY <1>4, <1>6, NameAssumption DEF AnyId
<1>8. PICK q \in DOMAIN seen : seen[q] = placements[p].id
  BY <1>2, <1>5, <1>6, <1>7 DEF Accounted
<1>9. CASE \/ q \in DOMAIN placements
           \/ \E s \in DOMAIN placements : s # p /\ placements[s].id = placements[p].id
           \/ \E s \in DOMAIN seen : s # q /\ seen[s] = seen[q]
  BY <1>3, <1>8, <1>9 DEF Follows
<1>10. CASE /\ q \notin DOMAIN placements
            /\ \A s \in DOMAIN placements : placements[s].id = placements[p].id => s = p
            /\ \A s \in DOMAIN seen : seen[s] = seen[q] => s = q
  <2>1. PreviousOwner(q, seen, placements) = placements[p].output
    BY <1>3, <1>8, <1>10, FollowedOnce
  <2> QED
    BY <1>3, <1>8, <2>1 DEF Follows
<1> QED
  BY <1>9, <1>10

\* A scan during which one file moved, was linked or was removed, or the
\* storage went away, keeps the owner of every file that is still in the
\* directory: it finds the file at one of its names, or fails at the name
\* that vanished.
THEOREM RenamesKeepOwners == Spec => RacingRenameForgetsNoOwner
<1>1. TypeOK /\ RaceInv /\ [Next]_vars =>
        [raced < 2 /\ crashes' = crashes =>
           \A p \in DOMAIN placements \ DOMAIN placements' :
             placements[p].id \in Range(dir) => \E q \in DOMAIN placements' : Follows(q, p)]_vars
  BY StepForgetsNone
<1>2. Init => RaceInv
  <2> SUFFICES ASSUME Init PROVE RaceInv
    OBVIOUS
  <2>1. /\ unread = Paths /\ todo = {} /\ DOMAIN seen = {} /\ \A t \in Threads : pc[t] # "info"
    BY DEF Init, Nothing
  <2>2. Accounted
    BY <2>1 DEF Accounted
  <2> QED
    BY <2>1, <2>2 DEF RaceInv
<1>3. TypeOK /\ IInv /\ RaceInv /\ [Next]_vars => RaceInv'
  BY RaceStep DEF IInv
<1> QED
  BY <1>1, <1>2, <1>3, TypeCorrect, InitIInv, NextIInv, PTL
  DEF Spec, RacingRenameForgetsNoOwner
=============================================================================
