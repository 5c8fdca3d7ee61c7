---------------------------- MODULE FileTransfer ----------------------------
(***************************************************************************)
(* File operations of the desktop (platform/src/daemon/                    *)
(* PlatformServerFiles.cpp): transfers and copies on a pool of threads,    *)
(* renames and new files on the event loop, and other programs beside      *)
(* them, all on one disk without a lock.                                   *)
(*                                                                         *)
(* The sources lie in different folders and have the same name; they are   *)
(* moved or copied into one folder, where that name or one of its          *)
(* numbered variants, a slot, is chosen before it is taken.  What a file   *)
(* or folder contains is a set of things.                                  *)
(***************************************************************************)
EXTENDS Naturals, Sequences, FiniteSets

CONSTANTS
  Sources,       \* paths of what is transferred
  LastSlot,      \* bound: 9999 in uniquePath
  Things,        \* contents
  Initially,     \* the things that each source consists of at first
  Jobs,          \* bound: file.transfer and file.copy requests
  Threads,       \* threads of m_copyPool
  MaxOthers      \* bound: new files, renames and writes beside the jobs

Slots == 0 .. LastSlot
Paths == Sources \cup Slots

ASSUME TransferAssumption ==
  /\ Sources \cap Slots = {} /\ IsFiniteSet(Sources) /\ IsFiniteSet(Jobs)
  /\ LastSlot \in Nat /\ Threads \in Nat \ {0}
  /\ Initially \in [Sources -> SUBSET Things] /\ MaxOthers \in Nat

VARIABLES
  disk,        \* what stands at each path
  job,         \* the jobs
  creating,    \* the slot that file.create-file or -folder has chosen
  made,        \* history: things that were ever on the disk
  late,        \* history: things that came to a source that had been copied
  blanked,     \* history: things in a file that file.create-file opened
  replaced,    \* history: things in a file that file.copy replaced
  others       \* counter of the bound

fileVars == <<disk, job, creating, made, late, blanked, replaced, others>>

Nothing   == [kind |-> "none", has |-> {}]
NoSlot    == LastSlot + 1
Free      == {n \in Slots : disk[n] = Nothing}
Path(s, m, q, n) ==
  [state |-> s, mode |-> m, todo |-> q, to |-> n, copied |-> {}, listed |-> {}]
Unstarted == Path("new", "copy", <<>>, NoSlot)
Working(j) == job[j].state \notin {"new", "done", "failed"}

FileInit ==
  /\ \E kinds \in [Sources -> {"file", "folder"}] :
       disk = [p \in Paths |-> IF p \in Sources THEN [kind |-> kinds[p], has |-> Initially[p]]
                               ELSE Nothing]
  /\ made = UNION {Initially[p] : p \in Sources}
  /\ job = [j \in Jobs |-> Unstarted] /\ creating = NoSlot
  /\ late = {} /\ blanked = {} /\ replaced = {} /\ others = 0

-----------------------------------------------------------------------------
(* Steps of a job.  r is the record of job j.                              *)

Set(j, r)  == job' = [job EXCEPT ![j] = r]
Fails(j)   == Set(j, [job[j] EXCEPT !.state = "failed"])
From(j)    == Head(job[j].todo)

\* The next path of the request, or its end.
NextPath(r) ==
  Path(IF Len(r.todo) = 1 THEN "done" ELSE "choosing", r.mode, Tail(r.todo), NoSlot)

\* A thread takes a request: a transfer of some sources, or a copy of one
\* onto a slot of the request's choice.  A request that waits in the queue of
\* the pool, or is refused because the queue is full, touches nothing.
Take(j) ==
  /\ job[j].state = "new" /\ Cardinality({k \in Jobs : Working(k)}) < Threads
  /\ \/ \E mode \in {"copy", "move"}, p, q \in Sources :
          Set(j, Path("choosing", mode, IF p = q THEN <<p>> ELSE <<p, q>>, NoSlot))
     \/ \E p \in Sources, n \in Slots :
          Set(j, Path("reading", "replace", <<p>>, n))
  /\ UNCHANGED <<disk, creating, made, late, blanked, replaced, others>>

\* The first slot that does not exist; none: no path.
FirstFree(n) == n \in Free /\ \A m \in Free : n <= m

\* uniquePath.
Choose(j) ==
  /\ job[j].state = "choosing"
  /\ \/ Free = {} /\ Fails(j)
     \/ \E n \in Slots :
          /\ FirstFree(n)
          /\ Set(j, [job[j] EXCEPT !.to = n, !.state = "placing"])
  /\ UNCHANGED <<disk, creating, made, late, blanked, replaced, others>>

\* Faulty variant: a target that exists is replaced.
VacantAlways(n) == TRUE

\* The target of a rename, a copy or a mkdir is not there yet.  The system
\* tests this and takes it in one step.
Vacant(n) == disk[n] = Nothing

\* moveOrCopy.  A rename fails between file systems.  A file is copied at
\* once, a folder entry by entry.
Rename(j) ==
  /\ job[j].state = "placing" /\ job[j].mode = "move"
  /\ disk[From(j)] # Nothing /\ Vacant(job[j].to)
  /\ disk' = [disk EXCEPT ![From(j)] = Nothing, ![job[j].to] = disk[From(j)]]
  /\ Set(j, NextPath(job[j]))
  /\ UNCHANGED <<creating, made, late, blanked, replaced, others>>

CopyFile(j) ==
  /\ job[j].state = "placing" /\ disk[From(j)].kind = "file" /\ Vacant(job[j].to)
  /\ disk' = [disk EXCEPT ![job[j].to] = disk[From(j)]]
  /\ Set(j, IF job[j].mode = "move"
            THEN [job[j] EXCEPT !.state = "removing", !.copied = disk[From(j)].has]
            ELSE NextPath(job[j]))
  /\ UNCHANGED <<creating, made, late, blanked, replaced, others>>

MakeFolder(j) ==
  /\ job[j].state = "placing" /\ disk[From(j)].kind = "folder" /\ Vacant(job[j].to)
  /\ disk' = [disk EXCEPT ![job[j].to] = [kind |-> "folder", has |-> {}]]
  /\ Set(j, [job[j] EXCEPT !.state = "copying", !.listed = disk[From(j)].has])
  /\ UNCHANGED <<creating, made, late, blanked, replaced, others>>

\* One entry of the folder, refused if the target has it.  The iterator may or
\* may not return one that came after it started.
CopyEntry(j) ==
  /\ job[j].state = "copying" /\ disk[job[j].to].kind = "folder"
  /\ \E t \in disk[From(j)].has \ (job[j].copied \cup disk[job[j].to].has) :
       /\ disk' = [disk EXCEPT ![job[j].to].has = @ \cup {t}]
       /\ Set(j, [job[j] EXCEPT !.copied = @ \cup {t}])
  /\ UNCHANGED <<creating, made, late, blanked, replaced, others>>

\* Every entry that was there all the time has been returned.
EndCopy(j) ==
  /\ job[j].state = "copying"
  /\ job[j].listed \cap disk[From(j)].has \subseteq job[j].copied
  /\ Set(j, IF job[j].mode = "move"
            THEN [job[j] EXCEPT !.state = "removing", !.listed = @ \cap disk[From(j)].has]
            ELSE NextPath(job[j]))
  /\ UNCHANGED <<disk, creating, made, late, blanked, replaced, others>>

\* What stands at the source and was neither there nor copied before.
Strangers(j) == disk[From(j)].has \ (job[j].copied \cup job[j].listed)

\* QFile::remove or removeRecursively: whatever stands there now.
RemoveSource(j) ==
  /\ job[j].state = "removing"
  /\ disk' = [disk EXCEPT ![From(j)] = Nothing]
  /\ late' = late \cup Strangers(j)
  /\ Set(j, NextPath(job[j]))
  /\ UNCHANGED <<creating, made, blanked, replaced, others>>

\* copyFileChunked reads the source ...
ReadSource(j) ==
  /\ job[j].state = "reading" /\ disk[From(j)].kind = "file"
  /\ Set(j, [job[j] EXCEPT !.state = "writing", !.copied = disk[From(j)].has])
  /\ UNCHANGED <<disk, creating, made, late, blanked, replaced, others>>

\* ... and puts the whole copy in the place of the destination.
Commit(j) ==
  /\ job[j].state = "writing" /\ disk[job[j].to].kind # "folder"
  /\ disk' = [disk EXCEPT ![job[j].to] = [kind |-> "file", has |-> job[j].copied]]
  /\ replaced' = replaced \cup (disk[job[j].to].has \ job[j].copied)
  /\ Set(j, NextPath(job[j]))
  /\ UNCHANGED <<creating, made, late, blanked, others>>

\* The source is gone, the target taken, or the disk does not let it: the
\* job ends.  What it has done stays, and a removal may have begun.
Fail(j) ==
  /\ Working(j) /\ job[j].state # "choosing"
  /\ Fails(j)
  /\ IF job[j].state = "removing"
     THEN \E left \in SUBSET disk[From(j)].has :
            /\ disk' = [disk EXCEPT ![From(j)].has = left]
            /\ late' = late \cup (Strangers(j) \ left)
     ELSE UNCHANGED <<disk, late>>
  /\ UNCHANGED <<creating, made, blanked, replaced, others>>

Step(j) ==
  \/ Take(j) \/ Choose(j) \/ Rename(j) \/ CopyFile(j) \/ MakeFolder(j) \/ CopyEntry(j)
  \/ EndCopy(j) \/ RemoveSource(j) \/ ReadSource(j) \/ Commit(j) \/ Fail(j)

-----------------------------------------------------------------------------
(* The event loop, and other programs.                                     *)

\* file.create-file and file.create-folder: uniquePath ...
CreateChoose ==
  /\ others < MaxOthers /\ others' = others + 1
  /\ creating = NoSlot
  /\ \E n \in Slots : FirstFree(n) /\ creating' = n
  /\ UNCHANGED <<disk, job, made, late, blanked, replaced>>

\* ... then open(WriteOnly), which truncates, or mkpath, which accepts a
\* folder that is there.
Create ==
  /\ creating # NoSlot
  /\ creating' = NoSlot
  /\ \/ /\ disk[creating].kind # "folder"
        /\ disk' = [disk EXCEPT ![creating] = [kind |-> "file", has |-> {}]]
        /\ blanked' = blanked \cup disk[creating].has
     \/ /\ disk[creating] = Nothing
        /\ disk' = [disk EXCEPT ![creating] = [kind |-> "folder", has |-> {}]]
        /\ UNCHANGED blanked
     \/ UNCHANGED <<disk, blanked>>
  /\ UNCHANGED <<job, made, late, replaced, others>>

\* file.rename.
RenameFile ==
  /\ others < MaxOthers /\ others' = others + 1
  /\ creating = NoSlot
  /\ \E p, q \in Paths :
       /\ disk[p] # Nothing /\ disk[q] = Nothing
       /\ disk' = [disk EXCEPT ![p] = Nothing, ![q] = disk[p]]
  /\ UNCHANGED <<job, creating, made, late, blanked, replaced>>

\* Another program writes to a file or puts something into a folder.
OtherWrites ==
  /\ others < MaxOthers /\ others' = others + 1
  /\ \E t \in Things \ made, p \in Paths :
       /\ disk[p] # Nothing
       /\ disk' = [disk EXCEPT ![p].has = @ \cup {t}]
       /\ made' = made \cup {t}
  /\ UNCHANGED <<job, creating, late, blanked, replaced>>

\* The daemon is killed; what the jobs have done stays.
FileCrash ==
  /\ \E j \in Jobs : Working(j)
  /\ job' = [j \in Jobs |-> IF Working(j) THEN [job[j] EXCEPT !.state = "failed"] ELSE job[j]]
  /\ creating' = NoSlot
  /\ UNCHANGED <<disk, made, late, blanked, replaced, others>>

FileNext ==
  \/ \E j \in Jobs : Step(j)
  \/ CreateChoose \/ Create \/ RenameFile \/ OtherWrites \/ FileCrash

-----------------------------------------------------------------------------
(* Properties.                                                             *)

FileTypeOK ==
  /\ disk \in [Paths -> [kind : {"none", "file", "folder"}, has : SUBSET Things]]
  /\ \A p \in Paths : disk[p].kind = "none" => disk[p].has = {}
  /\ job \in [Jobs -> [state : {"new", "choosing", "placing", "copying", "removing",
                                "reading", "writing", "done", "failed"},
                       mode : {"copy", "move", "replace"}, todo : Seq(Sources),
                       to : Slots \cup {NoSlot}, copied : SUBSET Things, listed : SUBSET Things]]
  /\ creating \in Slots \cup {NoSlot}
  /\ made \subseteq Things /\ late \subseteq Things
  /\ blanked \subseteq Things /\ replaced \subseteq Things
  /\ others \in 0 .. MaxOthers

\* However transfers, renames, new files and other programs meet, and
\* wherever a job fails or the daemon is killed, what was on the disk is
\* still somewhere, but for three cases: it came to a source between its copy
\* and its removal, file.create-file truncated a file that took the chosen
\* name first, or file.copy was asked to replace it.
NothingLost ==
  \A t \in made : \/ \E p \in Paths : t \in disk[p].has
                  \/ t \in late \cup blanked \cup replaced
=============================================================================
