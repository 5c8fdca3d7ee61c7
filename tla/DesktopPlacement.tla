-------------------------- MODULE DesktopPlacement --------------------------
(***************************************************************************)
(* Which screen a desktop icon belongs to (desktop.go,                     *)
(* desktop_placement.go).                                                  *)
(*                                                                         *)
(* A path of the desktop directory holds a file, abstracted to its         *)
(* identity (device and inode).  The service keeps two maps from paths:    *)
(* entries, what the shell draws, and placements, the owners it remembers. *)
(* Directory scans are not atomic: names are read first, a block at a      *)
(* time, then one lstat per name, while the user goes on moving files.     *)
(* desktopMu serializes scans with output changes and placements.          *)
(***************************************************************************)
EXTENDS Naturals, FiniteSets, Functions

CONSTANTS
  Paths, Ids, Outputs, Threads,
  Main,        \* goroutine of main() and of the reconciliation ticker
  NoFile,      \* nothing at this path
  NoId,        \* an empty file identity
  NoOutput,    \* the empty output name
  NoThread,    \* desktopMu is free
  MaxEdits,    \* bound: changes of the directory by the user
  MaxRequests, \* bound: requests other than a refresh
  MaxCrashes   \* bound: crashes of the service

ASSUME ThreadAssumption == Main \in Threads /\ NoThread \notin Threads
ASSUME NameAssumption   == /\ NoFile \notin Ids /\ NoId \notin Ids \cup {NoFile}
                           /\ NoOutput \notin Outputs
ASSUME PathAssumption   == IsFiniteSet(Paths)
ASSUME BoundAssumption  == MaxEdits \in Nat /\ MaxRequests \in Nat /\ MaxCrashes \in Nat

VARIABLES
  dir,        \* Paths -> Ids or NoFile: the desktop directory
  mounted,    \* can the directory be read?
  under,      \* what a mount hides, or will: an empty mount point at first
  entries,    \* s.state.Desktop.Entries, by path
  placements, \* s.state.DesktopPlacements
  saved,      \* entries and placements of state.json
  outputs, defaultOutput,  \* as the shell last reported them; not saved
  desktopMu, pc, req, changed,
  unread,     \* the scan of the holder of desktopMu: positions not listed yet,
  todo, seen, \* names without their lstat, files found
  raced,      \* history: edits since the listing began, at most 2
  serving,    \* main() has published the start-up snapshot
  edits, requests, crashes

memory  == <<entries, placements, saved>>
screens == <<outputs, defaultOutput>>
thread  == <<desktopMu, pc, req, changed>>
scan    == <<unread, todo, seen, raced>>
disk    == <<dir, mounted, under>>
bounds  == <<edits, requests, crashes>>
vars == <<disk, memory, screens, thread, scan, serving, bounds>>

AnyOutput == Outputs \cup {NoOutput}
AnyId     == Ids \cup {NoId}
Refresh   == [op |-> "refresh"]
OutputReq == {r \in [op : {"outputs"}, outputs : SUBSET Outputs, default : AnyOutput] :
                IF r.outputs = {} THEN r.default = NoOutput ELSE r.default \in r.outputs}
PlaceReq  == [op : {"place"}, paths : (SUBSET Paths) \ {{}}, output : Outputs]
Labels    == {"idle", "lock", "names", "info", "assign", "save", "respond"}
Owned     == UNION {[S -> [output : AnyOutput, id : AnyId]] : S \in SUBSET Paths}

TypeOK ==
  /\ dir \in [Paths -> Ids \cup {NoFile}]
  /\ under \in [Paths -> Ids \cup {NoFile}]
  /\ mounted \in BOOLEAN /\ serving \in BOOLEAN
  /\ entries \in Owned /\ placements \in Owned
  /\ saved \in [entries : Owned, placements : Owned]
  /\ outputs \in SUBSET Outputs /\ defaultOutput \in AnyOutput
  /\ desktopMu \in Threads \cup {NoThread}
  /\ pc \in [Threads -> Labels]
  /\ req \in [Threads -> {Refresh} \cup OutputReq \cup PlaceReq]
  /\ changed \in [Threads -> BOOLEAN]
  /\ unread \in SUBSET Paths /\ todo \in SUBSET Paths
  /\ seen \in UNION {[S -> Ids] : S \in SUBSET Paths}
  /\ raced \in 0..2
  /\ edits \in Nat /\ requests \in Nat /\ crashes \in Nat

Nothing == [p \in {} |-> 0]

\* The service starts on whatever directory is there, with nothing saved.
Init ==
  /\ dir \in [Paths -> Ids \cup {NoFile}]
  /\ mounted = TRUE /\ under = [p \in Paths |-> NoFile]
  /\ entries = Nothing /\ placements = Nothing
  /\ saved = [entries |-> Nothing, placements |-> Nothing]
  /\ outputs = {} /\ defaultOutput = NoOutput
  /\ desktopMu = NoThread
  /\ pc = [t \in Threads |-> IF t = Main THEN "lock" ELSE "idle"]
  /\ req = [t \in Threads |-> Refresh]
  /\ changed = [t \in Threads |-> t = Main]
  /\ unread = Paths /\ todo = {} /\ seen = Nothing /\ raced = 0
  /\ serving = FALSE
  /\ edits = 0 /\ requests = 0 /\ crashes = 0

-----------------------------------------------------------------------------
(* The user and other programs.                                            *)

\* A scan under way is raced by it.  Some edits count as two: a creation, a
\* mount, and a rename while names are listed, which may be seen at both
\* names or at none.
Edit(weight) ==
  /\ edits < MaxEdits
  /\ edits' = edits + 1
  /\ raced' = IF unread = Paths THEN 0
              ELSE IF raced + weight > 2 THEN 2 ELSE raced + weight
  /\ UNCHANGED <<memory, screens, thread, unread, todo, seen, serving, requests, crashes>>

\* An identity that is no longer in use may be given to a new file.
CreateFile(p, i) ==
  /\ Edit(2) /\ mounted /\ dir[p] = NoFile /\ i \notin Range(dir) \cup Range(under)
  /\ dir' = [dir EXCEPT ![p] = i] /\ UNCHANGED <<mounted, under>>

RemoveFile(p) ==
  /\ Edit(1) /\ mounted /\ dir[p] # NoFile
  /\ dir' = [dir EXCEPT ![p] = NoFile] /\ UNCHANGED <<mounted, under>>

\* rename(2): replaces what is at q, as an editor's atomic save does.
MoveFile(p, q) ==
  /\ Edit(IF unread = {} THEN 1 ELSE 2)
  /\ mounted /\ dir[p] # NoFile /\ dir[q] # dir[p]
  /\ dir' = [dir EXCEPT ![q] = dir[p], ![p] = NoFile] /\ UNCHANGED <<mounted, under>>

LinkFile(p, q) ==
  /\ Edit(1) /\ mounted /\ dir[p] # NoFile /\ dir[q] = NoFile
  /\ dir' = [dir EXCEPT ![q] = dir[p]] /\ UNCHANGED <<mounted, under>>

\* The storage behind the directory goes away or comes back: the directory
\* cannot be read meanwhile, or it is a mount point and another one shows.
Remount ==
  \/ Edit(1) /\ mounted' = ~mounted /\ UNCHANGED <<dir, under>>
  \/ Edit(2) /\ mounted /\ dir' = under /\ under' = dir /\ mounted' = mounted

-----------------------------------------------------------------------------
(* reconcileDesktopPlacements.                                             *)

Named(f, i) == {p \in DOMAIN f : f[p] = i}
IdOf(owned) == [p \in DOMAIN owned |-> owned[p].id]

\* Faulty variant: a second name of a file borrows the owner of the first.
RenamedFromLinked(p, found, previous) ==
  IF Cardinality(Named(IdOf(previous), found[p])) = 1
  THEN Named(IdOf(previous), found[p])
  ELSE {}

\* The old path whose owner a new path inherits: the only one that had this
\* identity, if it is gone and the identity is found once now.
RenamedFrom(p, found, previous) ==
  IF Cardinality(Named(found, found[p])) = 1
     /\ Cardinality(Named(IdOf(previous), found[p])) = 1
  THEN Named(IdOf(previous), found[p]) \ DOMAIN found
  ELSE {}

\* Faulty variant: owners are looked up by path only.
PreviousOwnerByPath(p, found, previous) ==
  IF p \in DOMAIN previous THEN previous[p].output ELSE NoOutput

PreviousOwner(p, found, previous) ==
  LET from == RenamedFrom(p, found, previous)
  IN  IF p \in DOMAIN previous THEN previous[p].output
      ELSE IF from # {} THEN previous[CHOOSE q \in from : TRUE].output
      ELSE NoOutput

Reconcile(found, previous) ==
  [p \in DOMAIN found |->
    LET owner == PreviousOwner(p, found, previous)
    IN  [output |-> IF owner = NoOutput THEN defaultOutput ELSE owner,
         id |-> found[p]]]

-----------------------------------------------------------------------------
(* The service.                                                            *)

\* Faulty variant: a request's outputs take effect before desktopMu is held.
RequestEarly(t, r) ==
  /\ serving /\ pc[t] = "idle"
  /\ r # Refresh => requests < MaxRequests /\ t # Main
  /\ requests' = IF r = Refresh THEN requests ELSE requests + 1
  /\ req' = [req EXCEPT ![t] = r]
  /\ changed' = [changed EXCEPT ![t] = FALSE]
  /\ pc' = [pc EXCEPT ![t] = "lock"]
  /\ outputs' = IF r.op = "outputs" THEN r.outputs ELSE outputs
  /\ UNCHANGED <<disk, memory, defaultOutput, desktopMu, scan, serving, edits, crashes>>

Request(t, r) ==
  /\ serving /\ pc[t] = "idle"
  /\ r # Refresh => requests < MaxRequests /\ t # Main
  /\ requests' = IF r = Refresh THEN requests ELSE requests + 1
  /\ req' = [req EXCEPT ![t] = r]
  /\ changed' = [changed EXCEPT ![t] = FALSE]
  /\ pc' = [pc EXCEPT ![t] = "lock"]
  /\ UNCHANGED <<disk, memory, screens, desktopMu, scan, serving, edits, crashes>>

\* desktopMu.Lock(); a placement on a missing output or file is an error.
Lock(t) ==
  /\ pc[t] = "lock" /\ desktopMu = NoThread
  /\ LET r == req[t]
         rejected == r.op = "place" /\ \/ r.output \notin outputs
                                       \/ ~mounted
                                       \/ \E p \in r.paths : dir[p] = NoFile
     IN  /\ desktopMu' = IF rejected THEN NoThread ELSE t
         /\ pc' = [pc EXCEPT ![t] = IF rejected THEN "idle" ELSE "names"]
         /\ outputs' = IF r.op = "outputs" THEN r.outputs ELSE outputs
         /\ defaultOutput' = IF r.op = "outputs" THEN r.default ELSE defaultOutput
  /\ UNCHANGED <<disk, memory, req, changed, scan, serving, bounds>>

\* Faulty variant: an unchanged scan returns without unlocking.
AfterScanLocked(t, hasChanged) ==
  /\ changed' = [changed EXCEPT ![t] = changed[t] \/ hasChanged]
  /\ pc' = [pc EXCEPT ![t] = IF req[t].op = "place" THEN "assign"
                             ELSE IF changed'[t] THEN "save" ELSE "respond"]
  /\ desktopMu' = IF req[t].op = "place" \/ ~hasChanged THEN t ELSE NoThread
  /\ unread' = Paths /\ todo' = {} /\ seen' = Nothing /\ raced' = 0
  /\ UNCHANGED <<disk, saved, screens, req, serving, bounds>>

\* Where a handler goes when its scan is over: a placement goes on under
\* desktopMu, the others unlock, and save and publish what has changed.
AfterScan(t, hasChanged) ==
  /\ changed' = [changed EXCEPT ![t] = changed[t] \/ hasChanged]
  /\ pc' = [pc EXCEPT ![t] = IF req[t].op = "place" THEN "assign"
                             ELSE IF changed'[t] THEN "save" ELSE "respond"]
  /\ desktopMu' = IF req[t].op = "place" THEN t ELSE NoThread
  /\ unread' = Paths /\ todo' = {} /\ seen' = Nothing /\ raced' = 0
  /\ UNCHANGED <<disk, saved, screens, req, serving, bounds>>

\* One getdents(2) of os.ReadDir: the names of a block of positions, one
\* position per path; a small directory is one block.
ReadNames(t) ==
  /\ pc[t] = "names" /\ mounted
  /\ \E block \in (SUBSET unread) \ {{}} :
       /\ unread' = unread \ block
       /\ todo' = todo \cup {p \in block : dir[p] # NoFile}
  /\ pc' = [pc EXCEPT ![t] = IF unread' = {} THEN "info" ELSE "names"]
  /\ UNCHANGED <<disk, memory, screens, desktopMu, req, changed, seen, raced, serving, bounds>>

\* Faulty variant: lstat's error is not looked at.
ReadInfoUnchecked(t) ==
  /\ pc[t] = "info" /\ mounted
  /\ \E p \in todo :
       /\ todo' = todo \ {p}
       /\ seen' = [q \in DOMAIN seen \cup {p} |-> IF q = p THEN dir[p] ELSE seen[q]]
  /\ UNCHANGED <<unread, raced, disk, memory, screens, thread, serving, bounds>>

ReadInfo(t) ==
  /\ pc[t] = "info" /\ mounted
  /\ \E p \in todo :
       /\ dir[p] # NoFile
       /\ todo' = todo \ {p}
       /\ seen' = [q \in DOMAIN seen \cup {p} |-> IF q = p THEN dir[p] ELSE seen[q]]
  /\ UNCHANGED <<unread, raced, disk, memory, screens, thread, serving, bounds>>

\* The directory cannot be read, or a name vanished before its lstat: the
\* partial scan is discarded and everything stays as it was.
FailScan(t) ==
  /\ \/ pc[t] = "names" /\ ~mounted
     \/ pc[t] = "info" /\ todo # {} /\ (~mounted \/ \E p \in todo : dir[p] = NoFile)
  /\ AfterScan(t, FALSE)
  /\ UNCHANGED <<entries, placements>>

CommitScan(t) ==
  /\ pc[t] = "info" /\ todo = {}
  /\ LET next == Reconcile(seen, placements)
     IN  /\ entries' = next /\ placements' = next
         /\ AfterScan(t, next # entries \/ next # placements)

\* Faulty variant: a placement is recorded for the next scan only.
AssignPlacementOnly(t) ==
  /\ pc[t] = "assign"
  /\ placements' = [p \in DOMAIN placements \cup (req[t].paths \cap DOMAIN entries) |->
       IF p \in req[t].paths THEN [output |-> req[t].output, id |-> NoId] ELSE placements[p]]
  /\ changed' = [changed EXCEPT ![t] = TRUE]
  /\ desktopMu' = NoThread
  /\ pc' = [pc EXCEPT ![t] = "save"]
  /\ UNCHANGED <<disk, entries, saved, screens, req, scan, serving, bounds>>

\* placeDesktopEntries after the scan: all the paths are entries, and those
\* that move do so in both maps; or nothing moves and the reply is an error.
Assign(t) ==
  /\ pc[t] = "assign"
  /\ LET r == req[t]
         moving == {p \in r.paths \cap DOMAIN entries : entries[p].output # r.output}
         found == r.paths \subseteq DOMAIN entries
         placed(p) == [output |-> r.output, id |-> entries[p].id]
     IN  /\ entries' = IF found THEN [p \in DOMAIN entries |->
                          IF p \in moving THEN placed(p) ELSE entries[p]] ELSE entries
         /\ placements' = IF found THEN [p \in DOMAIN placements \cup moving |->
                          IF p \in moving THEN placed(p) ELSE placements[p]] ELSE placements
         /\ changed' = [changed EXCEPT ![t] = changed[t] \/ (found /\ moving # {})]
         /\ pc' = [pc EXCEPT ![t] = IF changed'[t] THEN "save"
                                    ELSE IF found THEN "respond" ELSE "idle"]
         /\ req' = [req EXCEPT ![t] = IF found THEN r ELSE Refresh]
  /\ desktopMu' = NoThread
  /\ UNCHANGED <<disk, saved, screens, scan, serving, bounds>>

\* persist() as DurableDocument promises it: what memory holds is saved.
SaveMemory == saved' = [entries |-> entries, placements |-> placements]

Save(t) ==
  /\ pc[t] = "save"
  /\ SaveMemory
  /\ pc' = [pc EXCEPT ![t] = "respond"]
  /\ UNCHANGED <<disk, entries, placements, screens, desktopMu, req, changed, scan, serving, bounds>>

\* publishDesktop and the reply; at start-up, the socket opens.
Respond(t) ==
  /\ pc[t] = "respond"
  /\ pc' = [pc EXCEPT ![t] = "idle"]
  /\ serving' = TRUE
  /\ UNCHANGED <<disk, memory, screens, desktopMu, req, changed, scan, bounds>>

\* Any other caller of persist(), the ten-second ticker first of all.
SaveTick ==
  /\ serving /\ SaveMemory
  /\ UNCHANGED <<disk, entries, placements, screens, thread, scan, serving, bounds>>

\* A crash and the start of the next process: outputs are unknown, file
\* identities of entries are not part of state.json, main() scans first.
Crash ==
  /\ crashes < MaxCrashes
  /\ crashes' = crashes + 1
  /\ entries' = [p \in DOMAIN saved.entries |-> [saved.entries[p] EXCEPT !.id = NoId]]
  /\ placements' = saved.placements
  /\ outputs' = {} /\ defaultOutput' = NoOutput
  /\ desktopMu' = NoThread
  /\ pc' = [t \in Threads |-> IF t = Main THEN "lock" ELSE "idle"]
  /\ req' = [t \in Threads |-> Refresh]
  /\ changed' = [t \in Threads |-> t = Main]
  /\ unread' = Paths /\ todo' = {} /\ seen' = Nothing /\ raced' = 0
  /\ serving' = FALSE
  /\ UNCHANGED <<disk, saved, edits, requests>>

ScanStep(t) ==
  \/ Lock(t) \/ ReadNames(t) \/ ReadInfo(t) \/ FailScan(t) \/ CommitScan(t)
  \/ Assign(t) \/ Save(t) \/ Respond(t)

Next ==
  \/ \E p \in Paths : RemoveFile(p) \/ \E i \in Ids : CreateFile(p, i)
  \/ \E p, q \in Paths : MoveFile(p, q) \/ LinkFile(p, q)
  \/ Remount \/ SaveTick \/ Crash
  \/ \E t \in Threads : \/ ScanStep(t)
                        \/ \E r \in {Refresh} \cup OutputReq \cup PlaceReq : Request(t, r)

\* The five-second ticker keeps refreshing; goroutines are scheduled; a Go
\* mutex is handed to a starving waiter.
Fairness ==
  /\ WF_vars(Request(Main, Refresh))
  /\ \A t \in Threads : WF_vars(ScanStep(t)) /\ SF_vars(Lock(t))

Spec == Init /\ [][Next]_vars
FairSpec == Spec /\ Fairness

-----------------------------------------------------------------------------
(* Properties.                                                             *)

\* What the shell draws and what the service remembers name the same owner
\* for the same icons, in memory and in state.json, whoever scans, places or
\* crashes in between (desktop.go 155-156, desktop_placement.go 150-161).
SameOwners(drawn, remembered) ==
  /\ DOMAIN drawn = DOMAIN remembered
  /\ \A p \in DOMAIN drawn : drawn[p].output = remembered[p].output
EntriesMatchPlacements ==
  SameOwners(entries, placements) /\ SameOwners(saved.entries, saved.placements)

\* "An older watcher scan cannot overwrite a placement made just after"
\* (desktop.go 134): while the service runs, an icon with an owner keeps it
\* until a placement moves it; unplugging a screen does not.  "Hard links
\* must not borrow another still-existing icon's screen assignment"
\* (desktop_placement.go 37): a new icon is on the default screen, or it is
\* the only one of its file and on the screen of the path that is gone.
Kept(p) ==
  \/ entries'[p].output = entries[p].output \/ entries[p].output = NoOutput
  \/ \E t \in Threads : /\ pc[t] = "assign" /\ p \in req[t].paths
                        /\ entries'[p].output = req[t].output
Inherited(p) ==
  \/ entries'[p].output = defaultOutput
  \/ \E q \in DOMAIN placements \ DOMAIN entries' :
       /\ placements[q].id = entries'[p].id
       /\ placements[q].output = entries'[p].output
       /\ \A r \in DOMAIN entries' : entries'[r].id = entries'[p].id => r = p
OwnersChangeByPlacement ==
  [][crashes' = crashes =>
       \A p \in DOMAIN entries' : IF p \in DOMAIN entries THEN Kept(p) ELSE Inherited(p)]_vars

\* A placement is carried out on a screen that is connected at that moment,
\* although the check and the assignment are separated by a directory scan.
PlacedOnConnectedOutput ==
  \A t \in Threads : pc[t] = "assign" => req[t].output \in outputs

\* "A rename racing the scan ... its old identity survives" (desktop.go 97):
\* a scan during which one file moved keeps, for each path that is gone, the
\* screen of its file if the directory still has it.  The file is remembered
\* at another path, with the old owner unless that path had one of its own
\* (an atomic save replaced it) or the file has several names, before or now.
Follows(q, p) ==
  LET old == placements[p]
  IN  /\ placements'[q].id = old.id
      /\ \/ old.output \in {NoOutput, placements'[q].output}
         \/ q \in DOMAIN placements
         \/ \E r \in DOMAIN placements : r # p /\ placements[r].id = old.id
         \/ \E r \in DOMAIN placements' : r # q /\ placements'[r].id = old.id
RacingRenameForgetsNoOwner ==
  [][raced < 2 /\ crashes' = crashes =>
       \A p \in DOMAIN placements \ DOMAIN placements' :
         placements[p].id \in Range(dir) => \E q \in DOMAIN placements' : Follows(q, p)]_vars

\* "This bounded reconciliation repairs a missed event" (main.go 78): once
\* the directory is quiet and readable, the icons are its files, and each
\* has an owner as soon as there is a default screen.
DesktopConverges ==
  <>[](mounted => /\ IdOf(entries) = Restrict(dir, {p \in Paths : dir[p] # NoFile})
                  /\ defaultOutput # NoOutput => \A p \in DOMAIN entries : entries[p].output # NoOutput)
=============================================================================
