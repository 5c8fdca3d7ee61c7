--------------------------- MODULE PlatformDaemon ---------------------------
(***************************************************************************)
(* Three parts of kos-platform that keep state of their own: keep-awake    *)
(* leases, pinned clipboard entries and file operations.  They share no    *)
(* variable, so what holds of each in a behaviour of its own holds of it   *)
(* in a behaviour of all three; part says which one a behaviour exercises. *)
(***************************************************************************)
EXTENDS KeepAwake, ClipboardPins, FileTransfer

VARIABLE part

vars == <<part, awakeVars, pinVars, fileVars>>

Init ==
  /\ part \in {"keepawake", "pins", "files"}
  /\ AwakeInit /\ PinInit /\ FileInit
  /\ part # "files" => \A p \in Sources : disk[p].kind = "file"

Next ==
  /\ UNCHANGED part
  /\ \/ part = "keepawake" /\ AwakeNext /\ UNCHANGED <<pinVars, fileVars>>
     \/ part = "pins" /\ PinNext /\ UNCHANGED <<awakeVars, fileVars>>
     \/ part = "files" /\ FileNext /\ UNCHANGED <<awakeVars, pinVars>>

\* The event loop handles what arrived and deletes what is to be deleted, a
\* call times out, a service serves and is started again, and the threads of
\* the pool go on.  Nothing is assumed of clients, programs and crashes.
Spec ==
  /\ Init /\ [][Next]_vars
  /\ \A l \in Leases : WF_vars(part = "keepawake" /\ UNCHANGED <<part, pinVars, fileVars>>
                               /\ (Handle(l) \/ CallTimeout(l) \/ Delete(l)))
  /\ \A s \in Services : WF_vars(part = "keepawake" /\ UNCHANGED <<part, pinVars, fileVars>>
                                 /\ (Serve(s) \/ ServiceStarts(s)))

\* The types of the variables of the three parts.
TypeOK == AwakeTypeOK /\ PinTypeOK /\ FileTypeOK
=============================================================================
