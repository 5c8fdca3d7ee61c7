---------------------------- MODULE ClipboardPins ----------------------------
(***************************************************************************)
(* Pinned clipboard entries: three files for each content, named by its    *)
(* hash (platform/src/daemon/PlatformServerClipboardPins.cpp).  A request  *)
(* is served on the event loop from its first file to its last; a write    *)
(* can fail, and a crash can come between any two files.                   *)
(***************************************************************************)
EXTENDS Naturals, FiniteSets

CONSTANTS
  Contents,    \* decoded clipboard contents
  Images       \* those that are images

ASSUME PinAssumption == Images \subseteq Contents

VARIABLES
  data, meta, thumb,   \* contents that have a .data, .json, .png file
  task,                \* the request that is being served
  half                 \* history: pins cut short, see PinsWhole

pinVars == <<data, meta, thumb, task, half>>

Idle == [op |-> "idle", step |-> 0]
Task(o, c, n) == [op |-> o, pin |-> c, step |-> n]
Serving(o, c, n) == task = Task(o, c, n)

PinInit ==
  /\ data = {} /\ meta = {} /\ thumb = {} /\ half = {}
  /\ task = Idle

\* runClipboardPinnedAdd, once cliphist has decoded the entry, or
\* runClipboardPinnedRemove.  Lists and copies only read.
Request(c) ==
  /\ task = Idle
  /\ \E o \in {"add", "remove"} : task' = Task(o, c, 1)
  /\ UNCHANGED <<data, meta, thumb, half>>

\* The data; without them the request fails.
AddData(c) ==
  /\ Serving("add", c, 1)
  /\ \/ data' = data \cup {c} /\ task' = Task("add", c, 2)
     \/ UNCHANGED data /\ task' = Idle
  /\ UNCHANGED <<meta, thumb, half>>

\* Faulty variant: a text gets a thumbnail.
AddThumbAlways(c) ==
  /\ Serving("add", c, 2)
  /\ thumb' \in {thumb, thumb \cup {c}}
  /\ task' = Task("add", c, 3)
  /\ UNCHANGED <<data, meta, half>>

\* The thumbnail of an image; whether it was written is not looked at.
AddThumb(c) ==
  /\ Serving("add", c, 2)
  /\ thumb' \in IF c \in Images THEN {thumb, thumb \cup {c}} ELSE {thumb}
  /\ task' = Task("add", c, 3)
  /\ UNCHANGED <<data, meta, half>>

\* The description, and if that fails the removal of the other two files.
\* The description of an earlier pin of the same content stays.
AddMeta(c) ==
  /\ Serving("add", c, 3)
  /\ task' = Idle
  /\ \/ /\ meta' = meta \cup {c} /\ half' = half \ {c}
        /\ UNCHANGED <<data, thumb>>
     \/ /\ data' = data \ {c} /\ thumb' = thumb \ {c}
        /\ half' = half \cup (meta \cap {c})
        /\ UNCHANGED meta

\* Faulty variant: the description is written first, the data last.
AddStepMetaFirst(c) ==
  \/ /\ Serving("add", c, 1)
     /\ meta' = meta \cup {c} /\ task' = Task("add", c, 2)
     /\ UNCHANGED <<data, thumb, half>>
  \/ AddThumb(c)
  \/ /\ Serving("add", c, 3)
     /\ data' = data \cup {c} /\ task' = Idle
     /\ UNCHANGED <<meta, thumb, half>>

\* One step of the request to pin c.
AddStep(c) == AddData(c) \/ AddThumb(c) \/ AddMeta(c)

\* One file after the other; a failure does not stop the next.
RemoveStep(c) ==
  \/ /\ Serving("remove", c, 1)
     /\ data' \in {data, data \ {c}} /\ task' = Task("remove", c, 2)
     /\ UNCHANGED <<meta, thumb, half>>
  \/ /\ Serving("remove", c, 2)
     /\ meta' \in {meta, meta \ {c}} /\ task' = Task("remove", c, 3)
     /\ half' = (half \ {c}) \cup ((meta' \ data) \cap {c})
     /\ UNCHANGED <<data, thumb>>
  \/ /\ Serving("remove", c, 3)
     /\ thumb' \in {thumb, thumb \ {c}} /\ task' = Idle
     /\ UNCHANGED <<data, meta, half>>

\* A crash; the files stay as they are.
PinCrash ==
  /\ task # Idle
  /\ half' = IF task.op = "remove" /\ task.step = 2
             THEN half \cup ((meta \ data) \cap {task.pin}) ELSE half
  /\ task' = Idle
  /\ UNCHANGED <<data, meta, thumb>>

PinNext == PinCrash \/ \E c \in Contents : Request(c) \/ AddStep(c) \/ RemoveStep(c)

-----------------------------------------------------------------------------
(* Properties.                                                             *)

PinTypeOK ==
  /\ data \subseteq Contents /\ meta \subseteq Contents
  /\ thumb \subseteq Images /\ half \subseteq Contents
  /\ task \in {Idle} \cup {Task(o, c, n) : o \in {"add", "remove"}, c \in Contents, n \in 1 .. 3}

\* A pin that the list shows can be copied: it has its data.  Three things
\* break this, and nothing else: a second pin of a content whose description
\* could not be written, a removal whose description could not be removed,
\* and a crash between the two files of a removal.
PinsWhole ==
  task = Idle => \A c \in meta : c \in data \/ c \in half
=============================================================================
