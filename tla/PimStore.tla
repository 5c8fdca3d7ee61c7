------------------------------ MODULE PimStore ------------------------------
(* kos-pim-service: one calendar of events and todos with KOS's own links,  *)
(* the task lists, and a revision, kept in memory and saved by a debounced  *)
(* write of two files and a widget snapshot (services/pim-service/src).     *)
(*                                                                          *)
(* An item is its uid; titles, dates and recurrence are left out.  A        *)
(* request that the service refuses changes nothing and is no action here.  *)
(* The service runs one event at a time, so an accepted request is one      *)
(* step; the three writes of a save are steps of their own because the      *)
(* process may die between them.                                            *)
EXTENDS Integers, FiniteSets

CONSTANTS
  Events, Todos,  \* uids; a new item gets a uid that was never used
  Lists,          \* ids of the lists beside the inbox
  Defaults,       \* the lists of a store without metadata
  Inbox, None,    \* the list that always exists; no item
  ImportFiles,    \* calendars that may be imported
  Unreadable,     \* what a calendar file that cannot be parsed holds
  MaxEdits,       \* bound on accepted requests
  MaxFaults       \* bound on ends of the process, failed writes, damage

Calendars ==
  [events : SUBSET Events, todos : SUBSET Todos,
   todoOf : [Events -> Todos \cup {None}],    \* X-KOS-LINKED-TODO-ID
   eventOf : [Todos -> Events \cup {None}],   \* X-KOS-LINKED-EVENT-ID, RELATED-TO
   list : [Todos -> Lists \cup {Inbox}],
   parent : [Todos -> Todos \cup {None}],
   alarms : SUBSET (Events \cup Todos)]       \* the items with a reminder

ASSUME ItemsAssumption ==
  /\ Events \cap Todos = {} /\ None \notin Events \cup Todos
  /\ Inbox \notin Lists /\ Defaults \subseteq Lists
ASSUME FilesAssumption == ImportFiles \subseteq Calendars /\ Unreadable \notin Calendars
ASSUME BoundsAssumption == MaxEdits \in Nat /\ MaxFaults \in Nat

VARIABLES
  cal, lists, revision,  \* what the service holds in memory
  writable,              \* the calendar file could be loaded
  dirty, timer,          \* unsaved edits; the save timer is running
  phase,                 \* "down", "up", or the write that comes next
  quitting,              \* the process is in its final flush
  calFile,               \* calendar.ics, with the revision it was made at
  metaFile,              \* metadata.json: the revision and the lists
  widget,                \* widget-snapshot.json
  issued,                \* history: every uid and list id ever used
  split,                 \* history: the imports that split a linked pair
  strays,                \* history: todos that came into a list that is gone
  edits, faults

memory == <<cal, lists, revision, writable>>
saving == <<dirty, timer, phase, quitting>>
files == <<calFile, metaFile, widget>>
excuses == <<split, strays>>
storeVars == <<memory, saving, files, issued, excuses, edits, faults>>

NoItems ==
  [events |-> {}, todos |-> {}, todoOf |-> [e \in Events |-> None],
   eventOf |-> [t \in Todos |-> None], list |-> [t \in Todos |-> Inbox],
   parent |-> [t \in Todos |-> None], alarms |-> {}]

Known(ls) == ls \cup {Inbox}

-----------------------------------------------------------------------------
(* Operations on a calendar.                                                *)

\* A reminder is set or cleared (applyReminder).
Remind(c, x, on) == [c EXCEPT !.alarms = IF on THEN @ \cup {x} ELSE @ \ {x}]

\* The todo of an event: by the event's own property if that todo exists,
\* else any todo that refers to the event; {None} if there is none.
LinkedTodo(c, e) ==
  IF c.todoOf[e] \in c.todos THEN {c.todoOf[e]}
  ELSE LET back == {t \in c.todos : c.eventOf[t] = e}
       IN IF back = {} THEN {None} ELSE back

Link(c, e, t) == [c EXCEPT !.todoOf[e] = t, !.eventOf[t] = e]

\* The todo mirrors its event; "the event owns the alarm".
SyncTodo(c, e, t, l) ==
  [Link(c, e, t) EXCEPT !.todos = @ \cup {t}, !.list[t] = l, !.alarms = @ \ {t}]

\* The event mirrors its todo.
SyncEvent(c, e, t) == Link(c, e, t)

\* Faulty variant: only the event's side is cleared.
UnlinkHalf(c, e, t) == [c EXCEPT !.todoOf[e] = None]

\* The todo inherits the event's reminder if it has none of its own.
Unlink(c, e, t) ==
  [c EXCEPT !.todoOf[e] = None, !.eventOf[t] = None,
            !.alarms = IF e \in @ THEN @ \cup {t} ELSE @]

AddEvent(c, e) == [c EXCEPT !.events = @ \cup {e}, !.todoOf[e] = None]

DropEvent(c, e) ==
  [c EXCEPT !.events = @ \ {e}, !.todoOf[e] = None, !.alarms = @ \ {e}]

AddTodo(c, t, l, p) ==
  [c EXCEPT !.todos = @ \cup {t}, !.eventOf[t] = None, !.list[t] = l, !.parent[t] = p]

DropTodo(c, t) ==
  [c EXCEPT !.todos = @ \ {t}, !.eventOf[t] = None, !.list[t] = Inbox,
            !.parent = [u \in Todos |-> IF u = t \/ @[u] = t THEN None ELSE @[u]],
            !.alarms = @ \ {t}]

\* Items whose uid is already present are skipped.
Merge(c, f) ==
  [events |-> c.events \cup f.events, todos |-> c.todos \cup f.todos,
   todoOf |-> [e \in Events |-> IF e \in c.events THEN c.todoOf[e] ELSE f.todoOf[e]],
   eventOf |-> [t \in Todos |-> IF t \in c.todos THEN c.eventOf[t] ELSE f.eventOf[t]],
   list |-> [t \in Todos |-> IF t \in c.todos THEN c.list[t] ELSE f.list[t]],
   parent |-> [t \in Todos |-> IF t \in c.todos THEN c.parent[t] ELSE f.parent[t]],
   alarms |-> c.alarms \cup (f.alarms \ (c.events \cup c.todos))]

\* Both sides of every link agree, and only the event of a pair has a
\* reminder.
PairsAgree(c) ==
  /\ \A e \in c.events : c.todoOf[e] # None =>
       c.todoOf[e] \in c.todos /\ c.eventOf[c.todoOf[e]] = e
  /\ \A t \in c.todos : c.eventOf[t] # None =>
       /\ c.eventOf[t] \in c.events /\ c.todoOf[c.eventOf[t]] = t
       /\ t \notin c.alarms

\* The todos in lists that do not exist.
Stray(c, ls) == {t \in c.todos : c.list[t] \notin Known(ls)}

-----------------------------------------------------------------------------
(* Requests.                                                                *)

\* Faulty variant: nobody asks whether the calendar could be loaded.
AcceptUnread(c, ls, new) ==
  /\ phase = "up" /\ edits < MaxEdits
  /\ cal' = c /\ lists' = ls /\ revision' = revision + 1
  /\ dirty' = TRUE /\ timer' = TRUE
  /\ issued' = issued \cup new /\ edits' = edits + 1
  /\ UNCHANGED <<writable, phase, quitting, files, faults>>

\* The common tail of every accepted request: a new revision, and the save
\* timer (re)started (scheduleSave).
Accept(c, ls, new) ==
  /\ phase = "up" /\ writable /\ edits < MaxEdits
  /\ cal' = c /\ lists' = ls /\ revision' = revision + 1
  /\ dirty' = TRUE /\ timer' = TRUE
  /\ issued' = issued \cup new /\ edits' = edits + 1
  /\ UNCHANGED <<writable, phase, quitting, files, faults>>

CreateEvent(e, on) ==
  /\ e \notin issued
  /\ LET c == Remind(AddEvent(cal, e), e, on) IN
     \/ Accept(c, lists, {e})
     \/ \E t \in Todos \ issued, l \in Known(lists) : Accept(SyncTodo(c, e, t, l), lists, {e, t})
  /\ UNCHANGED excuses

UpdateEvent(e, on) ==
  /\ e \in cal.events
  /\ LET c == Remind(cal, e, on) IN
     \E t \in LinkedTodo(cal, e) :
       \/ \E l \in Known(lists) : t # None /\ Accept(SyncTodo(c, e, t, l), lists, {})
       \/ \E u \in Todos \ issued, l \in Known(lists) :
            t = None /\ Accept(SyncTodo(c, e, u, l), lists, {u})
       \/ t # None /\ Accept(Unlink(c, e, t), lists, {})
       \/ t = None /\ Accept([c EXCEPT !.todoOf[e] = None], lists, {})
  /\ UNCHANGED excuses

RemoveEvent(e) ==
  /\ e \in cal.events
  /\ \E t \in LinkedTodo(cal, e) :
       Accept(DropEvent(IF t = None THEN cal ELSE Unlink(cal, e, t), e), lists, {})
  /\ UNCHANGED excuses

\* The parent is taken as it comes; here it is a todo, present or not.
CreateTodo(t, l, p, on) ==
  /\ t \notin issued /\ t # p
  /\ Accept(Remind(AddTodo(cal, t, l, p), t, on), lists, {t})
  /\ UNCHANGED excuses

\* An update without a list or a parent keeps the old one.
UpdateTodo(t, l, p, on) ==
  /\ t \in cal.todos
  /\ l \in Known(lists) \cup {cal.list[t]}
  /\ p \in (cal.todos \ {t}) \cup {None, cal.parent[t]}
  /\ LET e == cal.eventOf[t]
         c == Remind([cal EXCEPT !.list[t] = l, !.parent[t] = p], t, on)
     IN Accept(IF e \in cal.events THEN SyncEvent(Remind(c, t, FALSE), e, t)
               ELSE [c EXCEPT !.eventOf[t] = None], lists, {})
  /\ UNCHANGED excuses

RemoveTodo(t) ==
  /\ t \in cal.todos
  /\ LET e == cal.eventOf[t]
     IN Accept(DropTodo(IF e \in cal.events THEN [cal EXCEPT !.todoOf[e] = None] ELSE cal, t),
               lists, {})
  /\ UNCHANGED excuses

CreateList(l) == l \notin issued /\ Accept(cal, lists \cup {l}, {l}) /\ UNCHANGED excuses

\* A new name, colour or position.
UpdateList == Accept(cal, lists, {}) /\ UNCHANGED excuses

\* Faulty variant: the todos of the list are left in no list.
RemoveListOnly(l) ==
  /\ l \in lists
  /\ Accept([cal EXCEPT !.list = [t \in Todos |-> IF @[t] = l THEN None ELSE @[t]]],
            lists \ {l}, {})
  /\ UNCHANGED excuses

RemoveList(l) ==
  /\ l \in lists
  /\ Accept([cal EXCEPT !.list = [t \in Todos |-> IF @[t] = l THEN Inbox ELSE @[t]]],
            lists \ {l}, {})
  /\ UNCHANGED excuses

\* A merge that finds one half of a linked pair already present splits it, a
\* file may name lists that are gone: nothing checks either.
ImportIcalendar(f, replaceExisting) ==
  LET c == IF replaceExisting THEN f ELSE Merge(cal, f) IN
  /\ Accept(c, lists, f.events \cup f.todos)
  /\ split' = split \cup (IF PairsAgree(c) THEN {} ELSE {f})
  /\ strays' = strays \cup (Stray(c, lists) \cap f.todos)

Edit ==
  \/ \E e \in Events, on \in BOOLEAN : CreateEvent(e, on) \/ UpdateEvent(e, on)
  \/ \E e \in Events : RemoveEvent(e)
  \/ \E t \in Todos, l \in Lists \cup {Inbox}, p \in Todos \cup {None}, on \in BOOLEAN :
       \/ l \in Known(lists) /\ CreateTodo(t, l, p, on)
       \/ UpdateTodo(t, l, p, on)
  \/ \E t \in Todos : RemoveTodo(t)
  \/ \E l \in Lists : CreateList(l) \/ RemoveList(l)
  \/ UpdateList
  \/ \E f \in ImportFiles, replaceExisting \in BOOLEAN : ImportIcalendar(f, replaceExisting)

-----------------------------------------------------------------------------
(* Saving.                                                                  *)

\* The timer has run out: 150 ms after the last edit, or five seconds after
\* a failed save.
TimerFires ==
  /\ phase = "up" /\ timer
  /\ phase' = "calendar" /\ timer' = FALSE
  /\ UNCHANGED <<memory, dirty, quitting, files, issued, excuses, edits, faults>>

\* SIGTERM, or the bus is gone: the destructor flushes what the timer still
\* holds; with nothing to flush only the widget snapshot is written.
Quit ==
  /\ phase = "up" /\ faults < MaxFaults /\ faults' = faults + 1
  /\ quitting' = TRUE /\ timer' = FALSE
  /\ phase' = IF dirty THEN "calendar" ELSE "widget"
  /\ UNCHANGED <<memory, dirty, files, issued, excuses, edits>>

\* What the process leaves when it ends.
Stopped ==
  /\ phase' = "down" /\ quitting' = FALSE
  /\ cal' = NoItems /\ lists' = {} /\ revision' = 0 /\ writable' = FALSE
  /\ dirty' = FALSE /\ timer' = FALSE
  /\ UNCHANGED excuses

\* Faulty variant: the timer is not started again.
WriteFailsForgets ==
  /\ faults < MaxFaults /\ faults' = faults + 1
  /\ UNCHANGED <<files, issued, edits>>
  /\ IF quitting THEN Stopped
     ELSE phase' = "up" /\ UNCHANGED <<memory, dirty, timer, quitting, excuses>>

\* A write fails: the edits stay marked and the timer tries again, unless
\* the process is ending.
WriteFails ==
  /\ faults < MaxFaults /\ faults' = faults + 1
  /\ UNCHANGED <<files, issued, edits>>
  /\ IF quitting THEN Stopped
     ELSE phase' = "up" /\ timer' = TRUE /\ UNCHANGED <<memory, dirty, quitting, excuses>>

WriteCalendar ==
  /\ phase = "calendar"
  /\ \/ WriteFails
     \/ /\ calFile' = [items |-> cal, revision |-> revision]
        /\ phase' = "metadata"
        /\ UNCHANGED <<memory, dirty, timer, quitting, metaFile, widget, issued, excuses, edits, faults>>

WriteMetadata ==
  /\ phase = "metadata"
  /\ \/ WriteFails
     \/ /\ metaFile' = [revision |-> revision, lists |-> lists]
        /\ dirty' = FALSE
        /\ phase' = "widget"
        /\ UNCHANGED <<memory, timer, quitting, calFile, widget, issued, excuses, edits, faults>>

\* Faulty variant: unsaved edits are not looked at.
RefreshWidgetEarly ==
  \/ writable /\ widget' = [items |-> cal, revision |-> revision]
  \/ UNCHANGED widget

\* writeWidgetSnapshot: only of saved state, never of an unreadable store;
\* its failure is logged and forgotten.
RefreshWidget ==
  \/ /\ ~dirty /\ writable
     /\ widget' = [items |-> cal, revision |-> revision]
  \/ UNCHANGED widget

WriteWidget ==
  /\ phase = "widget"
  /\ RefreshWidget
  /\ UNCHANGED <<calFile, metaFile, issued, edits, faults>>
  /\ IF quitting THEN Stopped
     ELSE phase' = "up" /\ UNCHANGED <<memory, dirty, timer, quitting, excuses>>

\* Every five minutes, and once after the start.
WidgetTick ==
  /\ phase = "up"
  /\ RefreshWidget
  /\ UNCHANGED <<memory, saving, calFile, metaFile, issued, excuses, edits, faults>>

-----------------------------------------------------------------------------
(* The process.                                                             *)

Crash ==
  /\ phase # "down" /\ faults < MaxFaults /\ faults' = faults + 1
  /\ Stopped
  /\ UNCHANGED <<files, issued, edits>>

\* Something else damages calendar.ics while the service is not running.
Damage ==
  /\ phase = "down" /\ faults < MaxFaults /\ faults' = faults + 1
  /\ calFile' = [calFile EXCEPT !.items = Unreadable]
  /\ UNCHANGED <<memory, saving, metaFile, widget, issued, excuses, edits>>

\* A calendar that cannot be parsed leaves the store empty and read-only.
\* Of two files of two saves the calendar may know a list more.
Start ==
  /\ phase = "down"
  /\ phase' = "up"
  /\ writable' = (calFile.items # Unreadable)
  /\ cal' = IF writable' THEN calFile.items ELSE NoItems
  /\ lists' = metaFile.lists /\ revision' = metaFile.revision
  /\ strays' = IF calFile.revision = metaFile.revision THEN strays
               ELSE strays \cup Stray(cal', lists')
  /\ UNCHANGED <<dirty, timer, quitting, files, issued, split, edits, faults>>

StoreInit ==
  /\ phase = "down" /\ quitting = FALSE
  /\ cal = NoItems /\ lists = {} /\ revision = 0 /\ writable = FALSE
  /\ dirty = FALSE /\ timer = FALSE
  /\ calFile = [items |-> NoItems, revision |-> 0]
  /\ metaFile = [revision |-> 0, lists |-> Defaults]
  /\ widget = [items |-> NoItems, revision |-> 0]
  /\ issued = Defaults /\ split = {} /\ strays = {} /\ edits = 0 /\ faults = 0

Save == TimerFires \/ WriteCalendar \/ WriteMetadata \/ WriteWidget
StoreNext == Edit \/ Save \/ WidgetTick \/ Quit \/ Crash \/ Damage \/ Start

-----------------------------------------------------------------------------
(* Properties.                                                              *)

SavedCalendars == [items : Calendars \cup {Unreadable}, revision : 0 .. MaxEdits]

StoreTypeOK ==
  /\ cal \in Calendars /\ lists \subseteq Lists /\ revision \in 0 .. MaxEdits
  /\ writable \in BOOLEAN /\ dirty \in BOOLEAN /\ timer \in BOOLEAN
  /\ phase \in {"down", "up", "calendar", "metadata", "widget"} /\ quitting \in BOOLEAN
  /\ calFile \in SavedCalendars /\ widget \in SavedCalendars
  /\ metaFile \in [revision : 0 .. MaxEdits, lists : SUBSET Lists]
  /\ issued \subseteq Events \cup Todos \cup Lists
  /\ split \subseteq ImportFiles /\ strays \subseteq Todos
  /\ edits \in 0 .. MaxEdits /\ faults \in 0 .. MaxFaults

\* "KOS reverse-lookup properties keep the relationship"; "only the event
\* owns an alarm" (docs/PimArchitecture.md 48, 56): links agree on both sides
\* whatever is linked, unlinked, removed, saved and loaded, as long as no
\* import split a pair; and every todo is in a list that exists but those
\* that an import, or the start with files of two saves, put in a list that
\* was gone at that moment: no other todo ever follows them.
StoreConsistent ==
  /\ split = {} => PairsAgree(cal)
  /\ Stray(cal, lists) \subseteq strays

\* "Periodic refreshes must obey the same committed-state boundary"
\* (PimStore.cpp 722): the widget file is only ever given what a restart
\* would load.
WidgetIsCommitted ==
  [][widget' # widget =>
       widget' = [items |-> calFile.items, revision |-> metaFile.revision]]_storeVars

\* "A storage load failure makes the service read-only instead of
\* overwriting data" (docs/PimArchitecture.md 70): no save, however late,
\* replaces a calendar that could not be read.
UnreadableKept ==
  [][calFile.items = Unreadable => calFile'.items = Unreadable]_storeVars

\* "Transient storage failure must not silently discard this obligation"
\* (PimStore.cpp 515): every revision reaches the disk or the process ends.
EditsSaved ==
  \A r \in 1 .. MaxEdits :
    (phase # "down" /\ revision >= r) ~> (phase = "down" \/ metaFile.revision >= r)
=============================================================================
