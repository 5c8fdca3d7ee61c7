--------------------------- MODULE PimStoreProofs ---------------------------
(* Proofs about the PIM store: links, lists, the widget, a calendar that    *)
(* cannot be read and edits that are not saved yet, for any items, lists,   *)
(* imports and numbers of edits and faults; the same for the store that     *)
(* applications talk to; and that an application whose copy is behind       *)
(* always has news under way.                                               *)
EXTENDS PimClient, TLAPS

USE ItemsAssumption, FilesAssumption, BoundsAssumption

-----------------------------------------------------------------------------
(* What the operations make of a calendar.                                  *)

Fields(d, es, ts, to, eo, li) ==
  /\ d \in Calendars
  /\ d.events = es /\ d.todos = ts /\ d.todoOf = to /\ d.eventOf = eo /\ d.list = li

LEMMA RemindKeeps ==
  ASSUME NEW c \in Calendars, NEW x \in Events \cup Todos, NEW on \in BOOLEAN
  PROVE  /\ Fields(Remind(c, x, on), c.events, c.todos, c.todoOf, c.eventOf, c.list)
         /\ Remind(c, x, on).alarms \subseteq c.alarms \cup {x}
         /\ ~on => Remind(c, x, on).alarms = c.alarms \ {x}
BY DEF Fields, Remind, Calendars

LEMMA AddEventKeeps ==
  ASSUME NEW c \in Calendars, NEW e \in Events
  PROVE  /\ Fields(AddEvent(c, e), c.events \cup {e}, c.todos, [c.todoOf EXCEPT ![e] = None],
                    c.eventOf, c.list)
         /\ AddEvent(c, e).alarms = c.alarms
BY DEF Fields, AddEvent, Calendars

LEMMA SyncTodoKeeps ==
  ASSUME NEW c \in Calendars, NEW e \in Events, NEW t \in Todos, NEW l \in Lists \cup {Inbox}
  PROVE  /\ Fields(SyncTodo(c, e, t, l), c.events, c.todos \cup {t}, [c.todoOf EXCEPT ![e] = t],
                    [c.eventOf EXCEPT ![t] = e], [c.list EXCEPT ![t] = l])
         /\ SyncTodo(c, e, t, l).alarms = c.alarms \ {t}
BY DEF Fields, SyncTodo, Link, Calendars

LEMMA UnlinkKeeps ==
  ASSUME NEW c \in Calendars, NEW e \in Events, NEW t \in Todos
  PROVE  /\ Fields(Unlink(c, e, t), c.events, c.todos, [c.todoOf EXCEPT ![e] = None],
                    [c.eventOf EXCEPT ![t] = None], c.list)
         /\ Unlink(c, e, t).alarms \subseteq c.alarms \cup {t}
BY DEF Fields, Unlink, Calendars

LEMMA DropEventKeeps ==
  ASSUME NEW c \in Calendars, NEW e \in Events
  PROVE  /\ Fields(DropEvent(c, e), c.events \ {e}, c.todos, [c.todoOf EXCEPT ![e] = None],
                    c.eventOf, c.list)
         /\ DropEvent(c, e).alarms \subseteq c.alarms
BY DEF Fields, DropEvent, Calendars

LEMMA AddTodoKeeps ==
  ASSUME NEW c \in Calendars, NEW t \in Todos, NEW l \in Lists \cup {Inbox},
         NEW p \in Todos \cup {None}
  PROVE  /\ Fields(AddTodo(c, t, l, p), c.events, c.todos \cup {t}, c.todoOf,
                    [c.eventOf EXCEPT ![t] = None], [c.list EXCEPT ![t] = l])
         /\ AddTodo(c, t, l, p).alarms = c.alarms
BY DEF Fields, AddTodo, Calendars

LEMMA DropTodoKeeps ==
  ASSUME NEW c \in Calendars, NEW t \in Todos
  PROVE  /\ Fields(DropTodo(c, t), c.events, c.todos \ {t}, c.todoOf,
                    [c.eventOf EXCEPT ![t] = None], [c.list EXCEPT ![t] = Inbox])
         /\ DropTodo(c, t).alarms \subseteq c.alarms
BY DEF Fields, DropTodo, Calendars

LEMMA MergeType ==
  ASSUME NEW c \in Calendars, NEW f \in ImportFiles
  PROVE  Merge(c, f) \in Calendars
BY DEF Merge, Calendars

\* Where links agree, the todo of an event is the one it names.
LEMMA LinkedTodoPairs ==
  ASSUME NEW c \in Calendars, PairsAgree(c), NEW e \in c.events, NEW t \in LinkedTodo(c, e)
  PROVE  t = c.todoOf[e]
BY DEF LinkedTodo, PairsAgree, Calendars

LEMMA LinkedTodoType ==
  ASSUME NEW c \in Calendars, NEW e \in Events, NEW t \in LinkedTodo(c, e)
  PROVE  t \in c.todos \cup {None}
BY DEF LinkedTodo, Calendars

-----------------------------------------------------------------------------
(* Requests: the calendar and lists that an edit accepts.                   *)

\* What StoreConsistent asks of a calendar and its lists, given the imports
\* that split a pair and the strays.
Sound(c, ls, sp, st) ==
  /\ c \in Calendars
  /\ sp = {} => PairsAgree(c)
  /\ Stray(c, ls) \subseteq st

\* An edit accepts a sound calendar whose items are all issued.
SoundEdit ==
  \E c, ls, new :
    /\ Accept(c, ls, new)
    /\ ls \subseteq Lists /\ new \subseteq Events \cup Todos \cup Lists
    /\ c.events \cup c.todos \subseteq issued \cup new
    /\ split \subseteq split' /\ split' \subseteq ImportFiles
    /\ strays \subseteq strays' /\ strays' \subseteq Todos
    /\ Sound(c, ls, split', strays')

SoundMemory ==
  /\ Sound(cal, lists, split, strays)
  /\ lists \subseteq Lists /\ split \subseteq ImportFiles /\ strays \subseteq Todos
  /\ cal.events \cup cal.todos \subseteq issued

\* The parts of a request keep a calendar sound.
LEMMA AddEventSound ==
  ASSUME NEW c, NEW ls, NEW sp, NEW st, Sound(c, ls, sp, st), NEW e \in Events, e \notin c.events
  PROVE  /\ Sound(AddEvent(c, e), ls, sp, st)
         /\ AddEvent(c, e).events = c.events \cup {e} /\ AddEvent(c, e).todos = c.todos
         /\ AddEvent(c, e).todoOf[e] = None
<1> DEFINE d == AddEvent(c, e)
<1>1. /\ Fields(d, c.events \cup {e}, c.todos, [c.todoOf EXCEPT ![e] = None], c.eventOf, c.list)
      /\ d.alarms = c.alarms /\ c \in Calendars
  BY AddEventKeeps DEF Sound, Calendars
<1> HIDE DEF d
<1>2. ASSUME PairsAgree(c) PROVE PairsAgree(d)
  BY <1>1, <1>2 DEF Fields, PairsAgree, Calendars
<1>3. Stray(d, ls) \subseteq Stray(c, ls)
  BY <1>1 DEF Fields, Stray, Calendars
<1>4. Sound(d, ls, sp, st)
  BY <1>1, <1>2, <1>3 DEF Fields, Sound
<1>5. d.events = c.events \cup {e} /\ d.todos = c.todos /\ d.todoOf[e] = None
  BY <1>1 DEF Fields, Calendars
<1> QED BY <1>4, <1>5 DEF d

LEMMA RemindSound ==
  ASSUME NEW c, NEW ls, NEW sp, NEW st, Sound(c, ls, sp, st), NEW e \in Events, NEW on \in BOOLEAN
  PROVE  /\ Sound(Remind(c, e, on), ls, sp, st)
         /\ Remind(c, e, on).events = c.events /\ Remind(c, e, on).todos = c.todos
         /\ Remind(c, e, on).todoOf = c.todoOf /\ Remind(c, e, on).eventOf = c.eventOf
<1> DEFINE d == Remind(c, e, on)
<1>1. /\ Fields(d, c.events, c.todos, c.todoOf, c.eventOf, c.list)
      /\ d.alarms \subseteq c.alarms \cup {e} /\ c \in Calendars
  BY RemindKeeps DEF Sound, Calendars
<1> HIDE DEF d
<1>2. ASSUME PairsAgree(c) PROVE PairsAgree(d)
  BY <1>1, <1>2 DEF Fields, PairsAgree, Calendars
<1>3. Stray(d, ls) \subseteq Stray(c, ls)
  BY <1>1 DEF Fields, Stray, Calendars
<1>4. Sound(d, ls, sp, st)
  BY <1>1, <1>2, <1>3 DEF Fields, Sound
<1>5. d.events = c.events /\ d.todos = c.todos /\ d.todoOf = c.todoOf /\ d.eventOf = c.eventOf
  BY <1>1 DEF Fields, Calendars
<1> QED BY <1>4, <1>5 DEF d

LEMMA SyncTodoSound ==
  ASSUME NEW c, NEW ls \in SUBSET Lists, NEW sp, NEW st, Sound(c, ls, sp, st),
         NEW e \in c.events, NEW t \in Todos, NEW l \in Known(ls),
         sp = {} => c.todoOf[e] = t \/ (c.todoOf[e] = None /\ t \notin c.todos)
  PROVE  /\ Sound(SyncTodo(c, e, t, l), ls, sp, st)
         /\ SyncTodo(c, e, t, l).events = c.events /\ SyncTodo(c, e, t, l).todos = c.todos \cup {t}
<1> DEFINE d == SyncTodo(c, e, t, l)
<1>1. /\ Fields(d, c.events, c.todos \cup {t}, [c.todoOf EXCEPT ![e] = t],
             [c.eventOf EXCEPT ![t] = e], [c.list EXCEPT ![t] = l])
      /\ d.alarms = c.alarms \ {t} /\ c \in Calendars /\ e \in Events
  BY SyncTodoKeeps DEF Sound, Calendars, Known
<1> HIDE DEF d
<1>2. ASSUME PairsAgree(c), c.todoOf[e] = t \/ (c.todoOf[e] = None /\ t \notin c.todos) PROVE PairsAgree(d)
  BY <1>1, <1>2 DEF Fields, PairsAgree, Calendars
<1>3. Stray(d, ls) \subseteq Stray(c, ls)
  BY <1>1 DEF Fields, Stray, Calendars
<1>4. Sound(d, ls, sp, st)
  BY <1>1, <1>2, <1>3 DEF Fields, Sound
<1>5. d.events = c.events /\ d.todos = c.todos \cup {t}
  BY <1>1 DEF Fields, Calendars
<1> QED BY <1>4, <1>5 DEF d

LEMMA UnlinkSound ==
  ASSUME NEW c, NEW ls, NEW sp, NEW st, Sound(c, ls, sp, st), NEW e \in c.events, NEW t \in c.todos,
         sp = {} => c.todoOf[e] = t
  PROVE  /\ Sound(Unlink(c, e, t), ls, sp, st)
         /\ Unlink(c, e, t).events = c.events /\ Unlink(c, e, t).todos = c.todos
         /\ Unlink(c, e, t).todoOf[e] = None
<1> DEFINE d == Unlink(c, e, t)
<1>1. /\ Fields(d, c.events, c.todos, [c.todoOf EXCEPT ![e] = None],
             [c.eventOf EXCEPT ![t] = None], c.list)
      /\ d.alarms \subseteq c.alarms \cup {t} /\ c \in Calendars /\ e \in Events /\ t \in Todos
  BY UnlinkKeeps DEF Sound, Calendars
<1> HIDE DEF d
<1>2. ASSUME PairsAgree(c), c.todoOf[e] = t PROVE PairsAgree(d)
  BY <1>1, <1>2 DEF Fields, PairsAgree, Calendars
<1>3. Stray(d, ls) \subseteq Stray(c, ls)
  BY <1>1 DEF Fields, Stray, Calendars
<1>4. Sound(d, ls, sp, st)
  BY <1>1, <1>2, <1>3 DEF Fields, Sound
<1>5. d.events = c.events /\ d.todos = c.todos /\ d.todoOf[e] = None
  BY <1>1 DEF Fields, Calendars
<1> QED BY <1>4, <1>5 DEF d

LEMMA DropEventSound ==
  ASSUME NEW c, NEW ls, NEW sp, NEW st, Sound(c, ls, sp, st), NEW e \in c.events,
         sp = {} => c.todoOf[e] = None
  PROVE  /\ Sound(DropEvent(c, e), ls, sp, st)
         /\ DropEvent(c, e).events = c.events \ {e} /\ DropEvent(c, e).todos = c.todos
<1> DEFINE d == DropEvent(c, e)
<1>1. /\ Fields(d, c.events \ {e}, c.todos, [c.todoOf EXCEPT ![e] = None], c.eventOf, c.list)
      /\ d.alarms \subseteq c.alarms /\ c \in Calendars /\ e \in Events
  BY DropEventKeeps DEF Sound, Calendars
<1> HIDE DEF d
<1>2. ASSUME PairsAgree(c), c.todoOf[e] = None PROVE PairsAgree(d)
  BY <1>1, <1>2 DEF Fields, PairsAgree, Calendars
<1>3. Stray(d, ls) \subseteq Stray(c, ls)
  BY <1>1 DEF Fields, Stray, Calendars
<1>4. Sound(d, ls, sp, st)
  BY <1>1, <1>2, <1>3 DEF Fields, Sound
<1>5. d.events = c.events \ {e} /\ d.todos = c.todos
  BY <1>1 DEF Fields, Calendars
<1> QED BY <1>4, <1>5 DEF d

LEMMA CreateEventSound ==
  ASSUME SoundMemory, NEW e \in Events, NEW on \in BOOLEAN, CreateEvent(e, on) PROVE SoundEdit
<1> DEFINE c == Remind(AddEvent(cal, e), e, on)
<1>1. Sound(c, lists, split, strays) /\ c.todoOf[e] = None
      /\ c.events = cal.events \cup {e} /\ c.todos = cal.todos
  <2>1. Sound(cal, lists, split, strays) /\ e \notin cal.events
    BY DEF SoundMemory, CreateEvent, excuses
  <2> QED BY <2>1, AddEventSound, RemindSound
<1> HIDE DEF c
<1>2. ASSUME Accept(c, lists, {e}) PROVE SoundEdit
  BY <1>1, <1>2 DEF SoundEdit, SoundMemory, CreateEvent, excuses
<1>3. ASSUME NEW t \in Todos \ issued, NEW l \in Known(lists),
             Accept(SyncTodo(c, e, t, l), lists, {e, t})
      PROVE  SoundEdit
  <2> DEFINE d == SyncTodo(c, e, t, l)
  <2>1. Sound(d, lists, split, strays) /\ d.events = c.events /\ d.todos = c.todos \cup {t}
    BY <1>1, SyncTodoSound DEF SoundMemory
  <2> HIDE DEF d
  <2>2. Accept(d, lists, {e, t})
    BY <1>3 DEF d
  <2> QED BY <1>1, <2>1, <2>2 DEF SoundEdit, SoundMemory, CreateEvent, excuses
<1> QED BY <1>2, <1>3 DEF CreateEvent, c

\* An edit of the same items.
LEMMA SameItemsSound ==
  ASSUME SoundMemory, UNCHANGED <<split, strays>>, NEW c, NEW ls \in SUBSET Lists, NEW new,
         new \subseteq Events \cup Todos \cup Lists,
         Accept(c, ls, new), Sound(c, ls, split, strays),
         c.events \subseteq cal.events \cup new, c.todos \subseteq cal.todos \cup new
  PROVE  SoundEdit
BY DEF SoundEdit, SoundMemory

LEMMA UpdateEventSound ==
  ASSUME SoundMemory, NEW e \in Events, NEW on \in BOOLEAN, UpdateEvent(e, on) PROVE SoundEdit
<1> DEFINE c == Remind(cal, e, on)
<1>1. Sound(cal, lists, split, strays) /\ cal \in Calendars /\ e \in cal.events
      /\ lists \in SUBSET Lists
  BY DEF SoundMemory, Sound, UpdateEvent, excuses
<1>2. Sound(c, lists, split, strays) /\ c.events = cal.events /\ c.todos = cal.todos
      /\ c.todoOf = cal.todoOf
  BY <1>1, RemindSound
<1>3. PICK t \in LinkedTodo(cal, e) :
        \/ \E l \in Known(lists) : t # None /\ Accept(SyncTodo(c, e, t, l), lists, {})
        \/ \E u \in Todos \ issued, l \in Known(lists) :
             t = None /\ Accept(SyncTodo(c, e, u, l), lists, {u})
        \/ t # None /\ Accept(Unlink(c, e, t), lists, {})
        \/ t = None /\ Accept([c EXCEPT !.todoOf[e] = None], lists, {})
  BY DEF UpdateEvent
<1>4. t \in cal.todos \cup {None} /\ cal.todos \subseteq Todos
      /\ (split = {} => cal.todoOf[e] = t)
  BY <1>1, LinkedTodoType, LinkedTodoPairs DEF Sound, Calendars
<1>5. UNCHANGED <<split, strays>>
  BY DEF UpdateEvent, excuses
<1> HIDE DEF c
<1>6. ASSUME NEW l \in Known(lists), t # None, Accept(SyncTodo(c, e, t, l), lists, {})
      PROVE  SoundEdit
  <2> t \in Todos /\ e \in c.events /\ (split = {} => c.todoOf[e] = t)
    BY <1>1, <1>2, <1>4, <1>6
  <2> Sound(SyncTodo(c, e, t, l), lists, split, strays)
      /\ SyncTodo(c, e, t, l).events = c.events /\ SyncTodo(c, e, t, l).todos = c.todos \cup {t}
    BY <1>1, <1>2, <1>6, SyncTodoSound
  <2> QED BY <1>1, <1>2, <1>4, <1>5, <1>6, SameItemsSound
<1>7. ASSUME NEW u \in Todos \ issued, NEW l \in Known(lists), t = None,
             Accept(SyncTodo(c, e, u, l), lists, {u})
      PROVE  SoundEdit
  <2>1. u \in Todos /\ u \notin c.todos /\ e \in c.events /\ lists \in SUBSET Lists
    BY <1>1, <1>2, <1>7 DEF SoundMemory
  <2>2. split = {} => c.todoOf[e] = u \/ (c.todoOf[e] = None /\ u \notin c.todos)
    BY <1>2, <1>4, <1>7, <2>1
  <2>3. Sound(SyncTodo(c, e, u, l), lists, split, strays)
        /\ SyncTodo(c, e, u, l).events = c.events /\ SyncTodo(c, e, u, l).todos = c.todos \cup {u}
    BY <1>2, <2>1, <2>2, SyncTodoSound
  <2> QED BY <1>1, <1>2, <1>4, <1>5, <1>7, <2>3, SameItemsSound
<1>8. ASSUME t # None, Accept(Unlink(c, e, t), lists, {}) PROVE SoundEdit
  <2> Sound(Unlink(c, e, t), lists, split, strays)
      /\ Unlink(c, e, t).events = c.events /\ Unlink(c, e, t).todos = c.todos
    BY <1>1, <1>2, <1>4, <1>8, UnlinkSound
  <2> QED BY <1>1, <1>2, <1>4, <1>5, <1>8, SameItemsSound
<1>9. ASSUME t = None, Accept([c EXCEPT !.todoOf[e] = None], lists, {}) PROVE SoundEdit
  <2> DEFINE d == [c EXCEPT !.todoOf[e] = None]
  <2>1. c \in Calendars /\ e \in Events /\ (split = {} => c.todoOf[e] = None)
    BY <1>1, <1>2, <1>4, <1>9 DEF Sound
  <2>2. d \in Calendars /\ d.events = c.events /\ d.todos = c.todos /\ d.list = c.list
        /\ (split = {} => d.todoOf = c.todoOf)
        /\ d.eventOf = c.eventOf /\ d.alarms = c.alarms
    BY <2>1 DEF Calendars
  <2> HIDE DEF d
  <2>3. Sound(d, lists, split, strays)
    BY <1>2, <2>2 DEF Sound, PairsAgree, Stray
  <2>4. Accept(d, lists, {})
    BY <1>9 DEF d
  <2> QED BY <1>1, <1>2, <1>5, <2>2, <2>3, <2>4, SameItemsSound
<1> QED BY <1>3, <1>6, <1>7, <1>8, <1>9

LEMMA RemoveEventSound ==
  ASSUME SoundMemory, NEW e \in Events, RemoveEvent(e) PROVE SoundEdit
<1>1. Sound(cal, lists, split, strays) /\ cal \in Calendars /\ e \in cal.events
      /\ lists \in SUBSET Lists /\ UNCHANGED <<split, strays>>
  BY DEF SoundMemory, Sound, RemoveEvent, excuses
<1>2. PICK t \in LinkedTodo(cal, e) :
        Accept(DropEvent(IF t = None THEN cal ELSE Unlink(cal, e, t), e), lists, {})
  BY DEF RemoveEvent
<1> DEFINE c == IF t = None THEN cal ELSE Unlink(cal, e, t)
<1>3. t \in cal.todos \cup {None} /\ (split = {} => cal.todoOf[e] = t)
  BY <1>1, LinkedTodoType, LinkedTodoPairs DEF Sound, Calendars
<1>4. Sound(c, lists, split, strays) /\ c.events = cal.events /\ c.todos = cal.todos
      /\ (split = {} => c.todoOf[e] = None)
  BY <1>1, <1>3, UnlinkSound
<1>5. Accept(DropEvent(c, e), lists, {})
  BY <1>2
<1> HIDE DEF c
<1>6. Sound(DropEvent(c, e), lists, split, strays)
      /\ DropEvent(c, e).events = c.events \ {e} /\ DropEvent(c, e).todos = c.todos
  BY <1>1, <1>4, DropEventSound
<1> QED BY <1>1, <1>4, <1>5, <1>6, SameItemsSound

LEMMA CreateTodoSound ==
  ASSUME SoundMemory, NEW t \in Todos, NEW l \in Known(lists), NEW p \in Todos \cup {None},
         NEW on \in BOOLEAN, CreateTodo(t, l, p, on)
  PROVE  SoundEdit
<1> DEFINE c == AddTodo(cal, t, l, p)
           d == Remind(c, t, on)
<1>1. Sound(cal, lists, split, strays) /\ cal \in Calendars /\ t \notin cal.todos
      /\ l \in Lists \cup {Inbox} /\ lists \in SUBSET Lists /\ UNCHANGED <<split, strays>>
  BY DEF SoundMemory, Sound, CreateTodo, Known, excuses
<1>2. Fields(c, cal.events, cal.todos \cup {t}, cal.todoOf, [cal.eventOf EXCEPT ![t] = None],
             [cal.list EXCEPT ![t] = l]) /\ c.alarms = cal.alarms
  BY <1>1, AddTodoKeeps
<1> HIDE DEF c
<1>3. Fields(d, c.events, c.todos, c.todoOf, c.eventOf, c.list) /\ d.alarms \subseteq c.alarms \cup {t}
  BY <1>2, RemindKeeps DEF Fields
<1> HIDE DEF d
<1>4. ASSUME PairsAgree(cal) PROVE PairsAgree(d)
  BY <1>1, <1>2, <1>3, <1>4 DEF PairsAgree, Fields, Calendars
<1>5. Stray(d, lists) \subseteq Stray(cal, lists)
  BY <1>1, <1>2, <1>3 DEF Stray, Fields, Calendars
<1>6. Sound(d, lists, split, strays) /\ d.events = cal.events /\ d.todos = cal.todos \cup {t}
  BY <1>1, <1>2, <1>3, <1>4, <1>5 DEF Sound, Fields
<1>7. Accept(d, lists, {t})
  BY DEF CreateTodo, c, d
<1> QED BY <1>1, <1>6, <1>7, SameItemsSound

LEMMA UpdateTodoSound ==
  ASSUME SoundMemory, NEW t \in Todos, NEW l, NEW p, NEW on \in BOOLEAN, UpdateTodo(t, l, p, on)
  PROVE  SoundEdit
<1> DEFINE b == [cal EXCEPT !.list[t] = l, !.parent[t] = p]
           c == Remind(b, t, on)
           r == Remind(c, t, FALSE)
           e == cal.eventOf[t]
<1>1. /\ Sound(cal, lists, split, strays) /\ cal \in Calendars /\ t \in cal.todos
      /\ l \in Known(lists) \cup {cal.list[t]} /\ l \in Lists \cup {Inbox}
      /\ p \in Todos \cup {None} /\ lists \in SUBSET Lists /\ UNCHANGED <<split, strays>>
      /\ e \in Events \cup {None} /\ cal.events \subseteq Events
  BY DEF SoundMemory, Sound, UpdateTodo, Known, Calendars, excuses
<1>2. Fields(b, cal.events, cal.todos, cal.todoOf, cal.eventOf, [cal.list EXCEPT ![t] = l])
      /\ b.alarms = cal.alarms
  BY <1>1 DEF Fields, Calendars
<1> HIDE DEF b
<1>3. Fields(c, b.events, b.todos, b.todoOf, b.eventOf, b.list) /\ c.alarms \subseteq b.alarms \cup {t}
  BY <1>2, RemindKeeps DEF Fields
<1> HIDE DEF c
<1>4. Fields(r, c.events, c.todos, c.todoOf, c.eventOf, c.list) /\ r.alarms = c.alarms \ {t}
  BY <1>3, RemindKeeps DEF Fields
<1> HIDE DEF r
<1>5. ASSUME NEW d \in Calendars, d.events = cal.events, d.todos = cal.todos, d.list = c.list,
             PairsAgree(cal) => PairsAgree(d), Accept(d, lists, {})
      PROVE  SoundEdit
  <2>1. Stray(d, lists) \subseteq Stray(cal, lists)
    BY <1>1, <1>2, <1>3, <1>5 DEF Stray, Fields, Calendars
  <2>2. Sound(d, lists, split, strays)
    BY <1>1, <1>5, <2>1 DEF Sound
  <2> QED BY <1>1, <1>5, <2>2, SameItemsSound
<1>6. CASE e \in cal.events
  <2> DEFINE d == SyncEvent(r, e, t)
  <2>1. /\ d \in Calendars /\ d.events = r.events /\ d.todos = r.todos /\ d.list = r.list
        /\ d.todoOf = [r.todoOf EXCEPT ![e] = t] /\ d.eventOf = [r.eventOf EXCEPT ![t] = e]
        /\ d.alarms = r.alarms
    BY <1>1, <1>4, <1>6 DEF SyncEvent, Link, Fields, Calendars
  <2>2. Accept(d, lists, {})
    BY <1>6 DEF UpdateTodo, b, c, r
  <2> HIDE DEF d
  <2>3. ASSUME PairsAgree(cal) PROVE PairsAgree(d)
    <3>1. cal.todoOf[e] = t
      BY <1>1, <1>6, <2>3 DEF PairsAgree, Calendars
    <3>2. d.todoOf = cal.todoOf /\ d.eventOf = cal.eventOf
      BY <1>1, <1>2, <1>3, <1>4, <2>1, <3>1 DEF Fields, Calendars
    <3>3. d.alarms \subseteq cal.alarms
      BY <1>2, <1>3, <1>4, <2>1
    <3> QED BY <1>2, <1>3, <1>4, <2>1, <2>3, <3>2, <3>3 DEF PairsAgree, Fields
  <2> QED BY <1>2, <1>3, <1>4, <1>5, <2>1, <2>2, <2>3 DEF Fields
<1>7. CASE e \notin cal.events
  <2> DEFINE d == [c EXCEPT !.eventOf[t] = None]
  <2>1. /\ d \in Calendars /\ d.events = c.events /\ d.todos = c.todos /\ d.list = c.list
        /\ d.todoOf = c.todoOf /\ d.eventOf = [c.eventOf EXCEPT ![t] = None]
        /\ d.alarms = c.alarms
    BY <1>1, <1>3 DEF Fields, Calendars
  <2>2. Accept(d, lists, {})
    BY <1>7 DEF UpdateTodo, b, c
  <2> HIDE DEF d
  <2>3. ASSUME PairsAgree(cal) PROVE PairsAgree(d)
    <3>1. cal.eventOf[t] = None
      BY <1>1, <1>7, <2>3 DEF PairsAgree
    <3>2. d.todoOf = cal.todoOf /\ d.eventOf = cal.eventOf
      BY <1>1, <1>2, <1>3, <2>1, <3>1 DEF Fields, Calendars
    <3>3. d.alarms \subseteq cal.alarms \cup {t}
      BY <1>2, <1>3, <2>1
    <3> QED BY <1>1, <1>2, <1>3, <2>1, <2>3, <3>1, <3>2, <3>3 DEF PairsAgree, Fields
  <2> QED BY <1>2, <1>3, <1>5, <2>1, <2>2, <2>3 DEF Fields
<1> QED BY <1>6, <1>7

LEMMA RemoveTodoSound ==
  ASSUME SoundMemory, NEW t \in Todos, RemoveTodo(t) PROVE SoundEdit
<1> DEFINE e == cal.eventOf[t]
           c == IF e \in cal.events THEN [cal EXCEPT !.todoOf[e] = None] ELSE cal
           d == DropTodo(c, t)
<1>1. Sound(cal, lists, split, strays) /\ cal \in Calendars /\ t \in cal.todos
      /\ lists \in SUBSET Lists /\ UNCHANGED <<split, strays>> /\ Accept(d, lists, {})
  BY DEF SoundMemory, Sound, RemoveTodo, excuses
<1>2. /\ c \in Calendars /\ c.events = cal.events /\ c.todos = cal.todos
      /\ c.eventOf = cal.eventOf /\ c.list = cal.list /\ c.alarms = cal.alarms
      /\ c.todoOf = IF e \in cal.events THEN [cal.todoOf EXCEPT ![e] = None] ELSE cal.todoOf
  BY <1>1 DEF Calendars
<1> HIDE DEF c
<1>3. Fields(d, c.events, c.todos \ {t}, c.todoOf, [c.eventOf EXCEPT ![t] = None],
             [c.list EXCEPT ![t] = Inbox]) /\ d.alarms \subseteq c.alarms
  BY <1>1, <1>2, DropTodoKeeps
<1> HIDE DEF d
<1>4. ASSUME PairsAgree(cal) PROVE PairsAgree(d)
  BY <1>1, <1>2, <1>3, <1>4 DEF PairsAgree, Fields, Calendars
<1>5. Stray(d, lists) \subseteq Stray(cal, lists)
  BY <1>1, <1>2, <1>3 DEF Stray, Fields, Calendars
<1>6. Sound(d, lists, split, strays) /\ d.events = cal.events /\ d.todos = cal.todos \ {t}
  BY <1>1, <1>2, <1>3, <1>4, <1>5 DEF Sound, Fields
<1> QED BY <1>1, <1>6, SameItemsSound

LEMMA ListsSound ==
  ASSUME SoundMemory, NEW l \in Lists, CreateList(l) \/ RemoveList(l) \/ UpdateList
  PROVE  SoundEdit
<1>1. Sound(cal, lists, split, strays) /\ cal \in Calendars /\ lists \in SUBSET Lists
      /\ UNCHANGED <<split, strays>>
  BY DEF SoundMemory, Sound, CreateList, RemoveList, UpdateList, excuses
<1>2. CASE CreateList(l)
  <2> Sound(cal, lists \cup {l}, split, strays) /\ Accept(cal, lists \cup {l}, {l})
    BY <1>1, <1>2 DEF Sound, Stray, Known, CreateList
  <2> QED BY <1>1, SameItemsSound
<1>3. CASE RemoveList(l)
  <2> DEFINE c == [cal EXCEPT !.list = [t \in Todos |-> IF @[t] = l THEN Inbox ELSE @[t]]]
  <2>1. /\ c \in Calendars /\ c.events = cal.events /\ c.todos = cal.todos
        /\ c.todoOf = cal.todoOf /\ c.eventOf = cal.eventOf /\ c.alarms = cal.alarms
        /\ c.list = [t \in Todos |-> IF cal.list[t] = l THEN Inbox ELSE cal.list[t]]
    BY <1>1 DEF Calendars
  <2>2. Accept(c, lists \ {l}, {})
    BY <1>3 DEF RemoveList
  <2> HIDE DEF c
  <2>3. Sound(c, lists \ {l}, split, strays)
    BY <1>1, <2>1 DEF Sound, PairsAgree, Stray, Known, Calendars
  <2> QED BY <1>1, <2>1, <2>2, <2>3, SameItemsSound
<1>4. CASE UpdateList
  BY <1>1, <1>4, SameItemsSound DEF UpdateList, excuses
<1> QED BY <1>2, <1>3, <1>4

LEMMA ImportSound ==
  ASSUME SoundMemory, NEW f \in ImportFiles, NEW replaceExisting \in BOOLEAN,
         ImportIcalendar(f, replaceExisting)
  PROVE  SoundEdit
<1> DEFINE c == IF replaceExisting THEN f ELSE Merge(cal, f)
<1>1. cal \in Calendars /\ f \in Calendars /\ c \in Calendars
      /\ c.events \subseteq cal.events \cup f.events /\ c.todos \subseteq cal.todos \cup f.todos
  BY MergeType DEF SoundMemory, Sound, Merge
<1>2. Accept(c, lists, f.events \cup f.todos)
      /\ split' = split \cup (IF PairsAgree(c) THEN {} ELSE {f})
      /\ strays' = strays \cup (Stray(c, lists) \cap f.todos)
  BY DEF ImportIcalendar
<1>3. Stray(c, lists) \subseteq strays'
  <2>1. ASSUME NEW t \in Stray(c, lists), t \notin f.todos PROVE t \in strays
    <3>1. ~replaceExisting /\ t \in cal.todos
      BY <2>1 DEF c, Merge, Stray
    <3>2. c.list[t] = cal.list[t] /\ t \in Todos
      BY <1>1, <3>1 DEF c, Merge, Calendars
    <3> QED BY <2>1, <3>1, <3>2 DEF Stray, SoundMemory, Sound
  <2> QED BY <1>2, <2>1
<1>4. f.events \subseteq Events /\ f.todos \subseteq Todos
  BY <1>1 DEF Calendars
<1> HIDE DEF c
<1>5. Sound(c, lists, split', strays') /\ split \subseteq split' /\ strays \subseteq strays'
      /\ split' \subseteq ImportFiles /\ strays' \subseteq Todos
  BY <1>1, <1>2, <1>3, <1>4 DEF Sound, SoundMemory
<1> QED BY <1>1, <1>2, <1>4, <1>5 DEF SoundEdit, SoundMemory

LEMMA EditSound == ASSUME SoundMemory, Edit PROVE SoundEdit
<1>1. Known(lists) \subseteq Lists \cup {Inbox}
  BY DEF SoundMemory, Known
<1>2. ASSUME UpdateList PROVE SoundEdit
  BY <1>2, SameItemsSound DEF UpdateList, SoundMemory, Sound, excuses
<1> QED BY <1>1, <1>2, CreateEventSound, UpdateEventSound, RemoveEventSound, CreateTodoSound,
           UpdateTodoSound, RemoveTodoSound, ListsSound, ImportSound DEF Edit

-----------------------------------------------------------------------------
(* The inductive invariant.                                                 *)

\* Unsaved edits exist only in a store that could be loaded and are newer
\* than the metadata; a save in progress has written what is in memory; and
\* without unsaved edits memory is what the files hold.
SavingInv ==
  /\ phase = "down" => ~dirty /\ ~timer
  /\ timer => dirty
  /\ phase \in {"calendar", "metadata"} => dirty /\ ~timer
  /\ phase = "metadata" => calFile = [items |-> cal, revision |-> revision]
  /\ dirty => writable /\ revision > metaFile.revision
  /\ phase # "down" => revision >= metaFile.revision
  /\ phase # "down" /\ writable => calFile.items # Unreadable
  /\ phase # "down" /\ writable /\ ~dirty =>
       cal = calFile.items /\ lists = metaFile.lists /\ revision = metaFile.revision

\* What the files hold is as sound as memory, as far as they belong together.
FilesInv ==
  /\ calFile.items # Unreadable =>
       /\ calFile.items.events \cup calFile.items.todos \subseteq issued
       /\ split = {} => PairsAgree(calFile.items)
       /\ calFile.revision = metaFile.revision =>
            Stray(calFile.items, metaFile.lists) \subseteq strays

CountsInv == revision <= edits /\ metaFile.revision <= edits

IInv == StoreTypeOK /\ SoundMemory /\ SavingInv /\ FilesInv /\ CountsInv

LEMMA NoItemsSound ==
  /\ NoItems \in Calendars /\ PairsAgree(NoItems) /\ NoItems.events = {} /\ NoItems.todos = {}
  /\ \A ls : Stray(NoItems, ls) = {}
BY DEF NoItems, Calendars, PairsAgree, Stray

LEMMA InitIInv == StoreInit => IInv
<1> SUFFICES ASSUME StoreInit PROVE IInv
  OBVIOUS
<1> USE NoItemsSound DEF StoreInit
<1>1. StoreTypeOK
  <2>1. calFile \in SavedCalendars /\ widget \in SavedCalendars
    BY DEF SavedCalendars
  <2>2. metaFile \in [revision : 0 .. MaxEdits, lists : SUBSET Lists]
    OBVIOUS
  <2>3. split \subseteq ImportFiles /\ strays \subseteq Todos /\ issued \subseteq Events \cup Todos \cup Lists
    OBVIOUS
  <2>4. revision \in 0 .. MaxEdits /\ edits \in 0 .. MaxEdits /\ faults \in 0 .. MaxFaults
    OBVIOUS
  <2> QED BY <2>1, <2>2, <2>3, <2>4 DEF StoreTypeOK
<1>2. SoundMemory
  BY DEF SoundMemory, Sound
<1>3. SavingInv /\ FilesInv /\ CountsInv
  BY DEF SavingInv, FilesInv, CountsInv
<1> QED BY <1>1, <1>2, <1>3 DEF IInv

LEMMA EditIInv == ASSUME IInv, Edit PROVE IInv'
<1> USE DEF IInv
<1>1. PICK c, ls, new :
        /\ Accept(c, ls, new)
        /\ ls \subseteq Lists /\ new \subseteq Events \cup Todos \cup Lists
        /\ c.events \cup c.todos \subseteq issued \cup new
        /\ split \subseteq split' /\ split' \subseteq ImportFiles
    /\ strays \subseteq strays' /\ strays' \subseteq Todos
        /\ Sound(c, ls, split', strays')
  BY EditSound DEF SoundEdit
<1> USE <1>1 DEF Accept, memory, saving, files
<1>2. StoreTypeOK'
  BY DEF StoreTypeOK, Sound, CountsInv, SavedCalendars
<1>3. SoundMemory'
  BY DEF SoundMemory, Sound
<1>4. SavingInv'
  BY DEF SavingInv, StoreTypeOK
<1>5. FilesInv'
  BY DEF FilesInv
<1>6. CountsInv'
  BY DEF CountsInv, StoreTypeOK
<1> QED BY <1>2, <1>3, <1>4, <1>5, <1>6

\* What is true of every end of the process.
LEMMA StoppedIInv ==
  ASSUME IInv, phase # "down", Stopped, UNCHANGED <<calFile, metaFile, issued, edits>>,
         widget' \in SavedCalendars, faults' \in 0 .. MaxFaults
  PROVE  IInv'
<1> USE NoItemsSound DEF IInv, Stopped, excuses
<1>1. StoreTypeOK'
  <2>1. revision' \in 0 .. MaxEdits
    OBVIOUS
  <2> QED BY <2>1 DEF StoreTypeOK
<1>2. SoundMemory'
  BY DEF SoundMemory, Sound, StoreTypeOK
<1>3. SavingInv'
  BY DEF SavingInv, StoreTypeOK
<1>4. FilesInv'
  BY DEF FilesInv
<1>5. CountsInv'
  BY DEF CountsInv, StoreTypeOK
<1> QED BY <1>1, <1>2, <1>3, <1>4, <1>5

LEMMA WidgetType == ASSUME IInv, RefreshWidget PROVE widget' \in SavedCalendars
BY DEF RefreshWidget, IInv, StoreTypeOK, SavedCalendars

LEMMA NextIInv == ASSUME IInv, [StoreNext]_storeVars PROVE IInv'
<1> USE DEF memory, saving, files, excuses
<1>1. CASE Edit
  BY <1>1, EditIInv
<1>2. CASE TimerFires
  BY <1>2 DEF TimerFires, IInv, StoreTypeOK, SoundMemory, SavingInv, FilesInv, CountsInv
<1>3. ASSUME WriteFails, phase \in {"calendar", "metadata"} PROVE IInv'
  <2>1. faults' \in 0 .. MaxFaults
    BY <1>3 DEF WriteFails, IInv, StoreTypeOK
  <2>2. CASE quitting
    <3> widget' \in SavedCalendars
      BY <1>3 DEF WriteFails, IInv, StoreTypeOK
    <3> QED BY <1>3, <2>1, <2>2, StoppedIInv DEF WriteFails
  <2>3. CASE ~quitting
    BY <1>3, <2>1, <2>3
    DEF WriteFails, IInv, StoreTypeOK, SoundMemory, SavingInv, FilesInv, CountsInv
  <2> QED BY <2>2, <2>3
<1>4. CASE WriteCalendar
  <2>1. CASE WriteFails
    BY <1>3, <1>4, <2>1 DEF WriteCalendar
  <2>2. ASSUME phase = "calendar", phase' = "metadata",
               calFile' = [items |-> cal, revision |-> revision],
               UNCHANGED <<memory, dirty, timer, quitting, metaFile, widget, issued, excuses, edits, faults>>
        PROVE  IInv'
    <3> USE <2>2 DEF IInv
    <3>1. StoreTypeOK'
      <4>1. calFile' \in SavedCalendars
        BY DEF StoreTypeOK, SavedCalendars
      <4> QED BY <4>1 DEF StoreTypeOK
    <3>2. SoundMemory'
      BY DEF SoundMemory
    <3>3. SavingInv'
      BY DEF SavingInv, SoundMemory, Sound
    <3>4. FilesInv'
      BY DEF FilesInv, SavingInv, SoundMemory, Sound, StoreTypeOK
    <3>5. CountsInv'
      BY DEF CountsInv
    <3> QED BY <3>1, <3>2, <3>3, <3>4, <3>5
  <2> QED BY <1>4, <2>1, <2>2 DEF WriteCalendar
<1>5. CASE WriteMetadata
  <2>1. CASE WriteFails
    BY <1>3, <1>5, <2>1 DEF WriteMetadata
  <2>2. ASSUME phase = "metadata", phase' = "widget", dirty' = FALSE,
               metaFile' = [revision |-> revision, lists |-> lists],
               UNCHANGED <<memory, timer, quitting, calFile, widget, issued, excuses, edits, faults>>
        PROVE  IInv'
    <3> USE <2>2 DEF IInv
    <3>1. StoreTypeOK'
      BY DEF StoreTypeOK
    <3>2. SoundMemory'
      BY DEF SoundMemory
    <3>3. SavingInv'
      <4>1. calFile = [items |-> cal, revision |-> revision] /\ dirty /\ writable
        BY DEF SavingInv
      <4>2. cal # Unreadable /\ revision \in Nat
        BY DEF SoundMemory, Sound, StoreTypeOK
      <4>3. ~timer
        BY DEF SavingInv
      <4> QED BY <4>1, <4>2, <4>3 DEF SavingInv
    <3>4. FilesInv'
      BY DEF FilesInv, SavingInv, SoundMemory, Sound
    <3>5. CountsInv'
      BY DEF CountsInv
    <3> QED BY <3>1, <3>2, <3>3, <3>4, <3>5
  <2> QED BY <1>5, <2>1, <2>2 DEF WriteMetadata
<1>6. CASE WriteWidget
  <2>1. widget' \in SavedCalendars
    BY <1>6, WidgetType DEF WriteWidget
  <2>2. CASE quitting
    <3> faults' \in 0 .. MaxFaults
      BY <1>6 DEF WriteWidget, IInv, StoreTypeOK
    <3> QED BY <1>6, <2>1, <2>2, StoppedIInv DEF WriteWidget
  <2>3. CASE ~quitting
    BY <1>6, <2>1, <2>3
    DEF WriteWidget, IInv, StoreTypeOK, SoundMemory, SavingInv, FilesInv, CountsInv
  <2> QED BY <2>2, <2>3
<1>7. CASE WidgetTick
  BY <1>7, WidgetType
  DEF WidgetTick, IInv, StoreTypeOK, SoundMemory, SavingInv, FilesInv, CountsInv
<1>8. CASE Quit
  <2> USE <1>8 DEF Quit, IInv
  <2>1. StoreTypeOK'
    <3>1. faults' \in 0 .. MaxFaults
      BY DEF StoreTypeOK
    <3>2. phase' \in {"down", "up", "calendar", "metadata", "widget"} /\ quitting' \in BOOLEAN
      OBVIOUS
    <3> QED BY <3>1, <3>2 DEF StoreTypeOK
  <2>2. SoundMemory' /\ FilesInv' /\ CountsInv'
    BY DEF SoundMemory, FilesInv, CountsInv
  <2>3. SavingInv'
    BY DEF SavingInv
  <2> QED BY <2>1, <2>2, <2>3
<1>9. CASE Crash
  <2> faults' \in 0 .. MaxFaults /\ widget' \in SavedCalendars
    BY <1>9 DEF Crash, IInv, StoreTypeOK
  <2> QED BY <1>9, StoppedIInv DEF Crash
<1>10. CASE Damage
  <2> USE <1>10 DEF Damage, IInv
  <2>1. StoreTypeOK'
    BY DEF StoreTypeOK, SavedCalendars
  <2>2. SoundMemory' /\ SavingInv' /\ CountsInv'
    BY DEF SoundMemory, SavingInv, CountsInv
  <2>3. FilesInv'
    BY DEF FilesInv, StoreTypeOK, SavedCalendars
  <2> QED BY <2>1, <2>2, <2>3
<1>11. CASE Start
  <2> USE <1>11, NoItemsSound DEF Start, IInv
  <2>0. cal' \in Calendars /\ Stray(cal', lists') \subseteq Todos
    BY DEF StoreTypeOK, SavedCalendars, Stray, Calendars
  <2>1. StoreTypeOK'
    BY <2>0 DEF StoreTypeOK
  <2>2. SoundMemory'
    <3>1. Stray(cal', lists') \subseteq strays'
      <4>1. CASE calFile.revision = metaFile.revision
        <5>1. CASE calFile.items = Unreadable
          BY <4>1, <5>1
        <5>2. CASE calFile.items # Unreadable
          BY <4>1, <5>2 DEF FilesInv
        <5> QED
          BY <5>1, <5>2
      <4>2. CASE calFile.revision # metaFile.revision
        BY <4>2
      <4> QED
        BY <4>1, <4>2
    <3>2. split' = {} => PairsAgree(cal')
      BY DEF FilesInv
    <3>3. lists' \subseteq Lists /\ split' \subseteq ImportFiles /\ strays' \subseteq Todos
      BY <2>0 DEF StoreTypeOK
    <3>4. cal'.events \cup cal'.todos \subseteq issued'
      BY DEF FilesInv
    <3> QED
      BY <2>0, <3>1, <3>2, <3>3, <3>4 DEF SoundMemory, Sound
  <2>3. SavingInv'
    BY DEF SavingInv, StoreTypeOK
  <2>4. FilesInv' /\ CountsInv'
    BY DEF FilesInv, CountsInv
  <2> QED BY <2>1, <2>2, <2>3, <2>4
<1>12. CASE UNCHANGED storeVars
  BY <1>12 DEF storeVars, IInv, StoreTypeOK, SoundMemory, SavingInv, FilesInv, CountsInv
<1> QED BY <1>1, <1>2, <1>4, <1>5, <1>6, <1>7, <1>8, <1>9, <1>10, <1>11, <1>12
        DEF StoreNext, Save

-----------------------------------------------------------------------------
(* What a step does to the files.                                           *)

LEMMA EditFiles == ASSUME IInv, Edit PROVE UNCHANGED files
BY EditSound DEF IInv, SoundEdit, Accept

LEMMA StepWidget ==
  ASSUME IInv, [StoreNext]_storeVars
  PROVE  widget' # widget => widget' = [items |-> calFile.items, revision |-> metaFile.revision]
<1> USE DEF memory, saving, files, excuses
<1>1. CASE WriteWidget \/ WidgetTick
  BY <1>1 DEF WriteWidget, WidgetTick, RefreshWidget, IInv, SavingInv
<1>2. CASE Edit
  BY <1>2, EditFiles
<1>3. CASE TimerFires \/ WriteCalendar \/ WriteMetadata
  BY <1>3 DEF TimerFires, WriteCalendar, WriteMetadata, WriteFails
<1>4. CASE Quit \/ Crash \/ Damage \/ Start \/ UNCHANGED storeVars
  BY <1>4 DEF Quit, Crash, Damage, Start, storeVars
<1> QED BY <1>1, <1>2, <1>3, <1>4 DEF StoreNext, Save

LEMMA StepUnreadable ==
  ASSUME IInv, [StoreNext]_storeVars, calFile.items = Unreadable PROVE calFile'.items = Unreadable
<1> USE DEF memory, saving, files, excuses
<1>1. CASE WriteCalendar
  BY <1>1 DEF WriteCalendar, WriteFails, IInv, SavingInv
<1>2. CASE Edit
  BY <1>2, EditFiles
<1>3. CASE TimerFires \/ WriteMetadata \/ WriteWidget \/ WidgetTick
  BY <1>3 DEF TimerFires, WriteMetadata, WriteFails, WriteWidget, WidgetTick
<1>4. CASE Damage
  BY <1>4 DEF Damage, IInv, StoreTypeOK, SavedCalendars
<1>5. CASE Quit \/ Crash \/ Start \/ UNCHANGED storeVars
  BY <1>5 DEF Quit, Crash, Start, storeVars
<1> QED BY <1>1, <1>2, <1>3, <1>4, <1>5 DEF StoreNext, Save

-----------------------------------------------------------------------------
(* The store under its applications: PimClient's steps are store steps.     *)

\* A timeout only adds to the count of faults.
OnlyFaults ==
  /\ faults < MaxFaults /\ faults' = faults + 1
  /\ UNCHANGED <<memory, saving, files, issued, excuses, edits>>

LEMMA ClientSteps == ASSUME [Next]_vars PROVE [StoreNext]_storeVars \/ OnlyFaults
<1>1. CASE User \/ Client
  BY <1>1 DEF User, RequestEdit, SetEventRange, Client, OwnerChanged, RemoteChanged, StaleReply,
              ErrorReply, Reply, vars
<1>2. CASE Answer \/ OtherEdit
  <2> UpdateList => Edit
    BY DEF Edit
  <2> QED BY <1>2 DEF Answer, AnswerQuery, AnswerEdit, OtherEdit, PlainEdit, StoreNext
<1>3. CASE Failing
  BY <1>3 DEF Failing, Process, StoreNext, Timeout, OnlyFaults
<1>4. CASE Process(Save) \/ Process(WidgetTick) \/ Process(Quit) \/ Process(Start)
  BY <1>4 DEF Process, StoreNext
<1>5. CASE UNCHANGED vars
  BY <1>5 DEF vars
<1> QED BY <1>1, <1>2, <1>3, <1>4, <1>5 DEF Next

LEMMA FaultsIInv == ASSUME IInv, OnlyFaults PROVE IInv'
<1> USE DEF OnlyFaults, memory, saving, files, excuses
<1>1. StoreTypeOK'
  BY DEF IInv, StoreTypeOK
<1> QED BY <1>1 DEF IInv, SoundMemory, SavingInv, FilesInv, CountsInv

LEMMA Invariance == Spec => []IInv
<1>1. Init => IInv
  BY InitIInv DEF Init
<1>2. IInv /\ [Next]_vars => IInv'
  BY ClientSteps, NextIInv, FaultsIInv
<1> QED BY <1>1, <1>2, PTL DEF Spec

\* The memory and the files of the service keep their types.
THEOREM StoreTypes == Spec => []StoreTypeOK
<1>1. IInv => StoreTypeOK
  BY DEF IInv
<1> QED BY <1>1, Invariance, PTL

\* Whatever applications do, and whatever the bus, the disk and the process
\* go through (PimStore.cpp, every request, load and save): until an import
\* has split a pair, both ends of every link agree; and at all times a todo
\* in a list that does not exist is one that an import, or a start with
\* files of two saves, put there.  After a split nothing is said of links:
\* the half that was left can take the partner of another pair.
THEOREM LinksAndLists == Spec => []StoreConsistent
<1>1. IInv => StoreConsistent
  BY DEF IInv, SoundMemory, Sound, StoreConsistent
<1> QED BY <1>1, Invariance, PTL

\* The widget file only ever receives what a restart would load
\* (PimStore.cpp, writeWidgetSnapshot).
THEOREM WidgetShowsSaved == Spec => WidgetIsCommitted
<1>1. IInv /\ [Next]_vars =>
        [widget' # widget =>
           widget' = [items |-> calFile.items, revision |-> metaFile.revision]]_storeVars
  BY ClientSteps, StepWidget DEF OnlyFaults, files
<1> QED BY <1>1, Invariance, PTL DEF Spec, WidgetIsCommitted

\* No save replaces a calendar that could not be read (PimStore.cpp, load
\* and the writable guard of every request).
THEOREM UnreadableStays == Spec => UnreadableKept
<1>1. IInv /\ [Next]_vars =>
        [calFile.items = Unreadable => calFile'.items = Unreadable]_storeVars
  BY ClientSteps, StepUnreadable DEF OnlyFaults, files
<1> QED BY <1>1, Invariance, PTL DEF Spec, UnreadableKept

-----------------------------------------------------------------------------
(* What is not on the disk is owed to it.                                   *)

OwedInv ==
  /\ dirty => timer \/ phase \in {"calendar", "metadata"}
  /\ phase # "down" /\ ~dirty => revision = metaFile.revision

\* An edit that the disk does not have yet has the timer running, or a save
\* that has not come to its end.
EditsOwed ==
  phase # "down" /\ revision # metaFile.revision => timer \/ phase \in {"calendar", "metadata"}

LEMMA EditOwed == ASSUME IInv, Edit PROVE dirty' /\ timer'
BY EditSound DEF IInv, SoundEdit, Accept

LEMMA NextOwed == ASSUME IInv, OwedInv, [StoreNext]_storeVars PROVE OwedInv'
<1>1. CASE Edit
  BY <1>1, EditOwed DEF OwedInv
<1>2. ASSUME Stopped
      PROVE  OwedInv'
  BY <1>2 DEF Stopped, OwedInv
<1>3. ASSUME WriteFails, phase # "down"
      PROVE  OwedInv'
  <2>1. CASE quitting
    BY <1>2, <1>3, <2>1 DEF WriteFails
  <2>2. CASE ~quitting
    <3>1. timer' = TRUE /\ UNCHANGED <<dirty, revision, metaFile>>
      BY <1>3, <2>2 DEF WriteFails, memory, files
    <3> QED
      BY <1>3, <3>1 DEF OwedInv
  <2> QED
    BY <2>1, <2>2
<1>4. CASE TimerFires
  BY <1>4 DEF TimerFires, OwedInv, IInv, SavingInv, memory, files
<1>5. CASE WriteCalendar
  <2>1. CASE WriteFails
    BY <1>3, <1>5, <2>1 DEF WriteCalendar
  <2>2. CASE phase' = "metadata" /\ UNCHANGED <<memory, dirty, metaFile>>
    BY <1>5, <2>2 DEF WriteCalendar, OwedInv, memory
  <2> QED
    BY <1>5, <2>1, <2>2 DEF WriteCalendar
<1>6. CASE WriteMetadata
  <2>1. CASE WriteFails
    BY <1>3, <1>6, <2>1 DEF WriteMetadata
  <2>2. CASE metaFile' = [revision |-> revision, lists |-> lists] /\ dirty' = FALSE /\ UNCHANGED memory
    BY <2>2 DEF OwedInv, memory
  <2> QED
    BY <1>6, <2>1, <2>2 DEF WriteMetadata
<1>7. CASE WriteWidget
  <2>1. metaFile' = metaFile
    BY <1>7 DEF WriteWidget
  <2> QED
    BY <1>2, <1>7, <2>1 DEF WriteWidget, OwedInv, IInv, SavingInv, memory
<1>8. CASE WidgetTick
  BY <1>8 DEF WidgetTick, OwedInv, memory, saving
<1>9. CASE Quit
  BY <1>9 DEF Quit, OwedInv, memory, files
<1>10. CASE Crash
  BY <1>2, <1>10 DEF Crash
<1>11. CASE Damage
  BY <1>11 DEF Damage, OwedInv, memory, saving
<1>12. CASE Start
  BY <1>12 DEF Start, OwedInv, IInv, SavingInv, files
<1>13. CASE UNCHANGED storeVars
  BY <1>13 DEF OwedInv, storeVars, memory, saving, files
<1> QED
  BY <1>1, <1>4, <1>5, <1>6, <1>7, <1>8, <1>9, <1>10, <1>11, <1>12, <1>13 DEF StoreNext, Save

\* "Transient storage failure must not silently discard this obligation"
\* (PimStore.cpp 515): whatever write fails, in whatever order edits, timer
\* and saves come, an unsaved edit is never left without a save ahead of it.
\* EditsSaved rests on it.
THEOREM NoEditForgotten == Spec => []EditsOwed
<1>1. Init => OwedInv
  BY DEF Init, StoreInit, OwedInv
<1>2. IInv /\ OwedInv /\ [Next]_vars => OwedInv'
  <2> SUFFICES ASSUME IInv, OwedInv, [Next]_vars PROVE OwedInv'
    OBVIOUS
  <2>1. CASE [StoreNext]_storeVars
    BY <2>1, NextOwed
  <2>2. CASE OnlyFaults
    BY <2>2 DEF OnlyFaults, OwedInv, memory, saving, files
  <2> QED
    BY <2>1, <2>2, ClientSteps
<1>3. OwedInv => EditsOwed
  BY DEF OwedInv, EditsOwed
<1> QED
  BY <1>1, <1>2, <1>3, Invariance, PTL DEF Spec

-----------------------------------------------------------------------------
(* The client and the bus keep their types.                                 *)

BusTypeOK == calls \in Seq(Calls) /\ inbox \in Seq(Messages)
ViewTypeOK ==
  /\ open \in BOOLEAN /\ connected \in BOOLEAN /\ ready \in BOOLEAN /\ missed \in BOOLEAN
  /\ shown \in 0 .. MaxEdits /\ range \in Ranges \cup {None}
  /\ occurrences \in [range : Ranges \cup {None}, revision : 0 .. MaxEdits]
  /\ asks \in 0 .. MaxAsks

\* A message of one of the client's calls is a reply.
LEMMA Replies ==
  ASSUME NEW m \in Messages
  PROVE  /\ m.kind \in Kinds =>
              m \in [kind : Kinds, live : BOOLEAN, ok : BOOLEAN, revision : 0 .. MaxEdits]
         /\ m.kind = "changed" => m.revision \in 0 .. MaxEdits
         /\ m.kind = "owner" => m.up \in BOOLEAN
BY DEF Messages, Kinds

\* Expiry changes neither the length of a queue nor what is in it but `live`.
LEMMA ExpireType ==
  ASSUME NEW gone \in SUBSET Kinds
  PROVE  /\ \A s \in Seq(Calls) : Expire(s, gone) \in Seq(Calls)
         /\ \A s \in Seq(Messages) : Expire(s, gone) \in Seq(Messages)
<1>1. ASSUME NEW s \in Seq(Calls)
      PROVE  Expire(s, gone) \in Seq(Calls)
  <2>1. Len(s) \in Nat /\ DOMAIN s = 1 .. Len(s) /\ \A n \in DOMAIN s : s[n] \in Calls
    OBVIOUS
  <2>2. \A n \in DOMAIN s : [s[n] EXCEPT !.live = FALSE] \in Calls
    BY <2>1 DEF Calls
  <2> QED
    BY <2>1, <2>2 DEF Expire
<1>2. ASSUME NEW s \in Seq(Messages)
      PROVE  Expire(s, gone) \in Seq(Messages)
  <2>1. Len(s) \in Nat /\ DOMAIN s = 1 .. Len(s) /\ \A n \in DOMAIN s : s[n] \in Messages
    OBVIOUS
  <2>2. \A n \in DOMAIN s : s[n].kind \in gone => [s[n] EXCEPT !.live = FALSE] \in Messages
    <3> SUFFICES ASSUME NEW n \in DOMAIN s, s[n].kind \in Kinds
                 PROVE  [s[n] EXCEPT !.live = FALSE] \in Messages
      OBVIOUS
    <3>1. s[n] \in [kind : Kinds, live : BOOLEAN, ok : BOOLEAN, revision : 0 .. MaxEdits]
      BY <2>1, Replies
    <3> QED
      BY <3>1 DEF Messages
  <2> QED
    BY <2>1, <2>2 DEF Expire
<1> QED
  BY <1>1, <1>2

\* A call is one more call; the replies that it supersedes stay replies.
LEMMA InvokeType ==
  ASSUME NEW kind \in Kinds, NEW pending \in Seq(Calls), NEW incoming \in Seq(Messages),
         Invoke(kind, pending, incoming)
  PROVE  BusTypeOK'
<1> DEFINE old == {kind} \ {"mutation"}
           c == [kind |-> kind, live |-> TRUE]
<1>1. old \in SUBSET Kinds /\ c \in Calls
  BY DEF Calls
<1>2. calls' = Append(Expire(pending, old), c) /\ inbox' = Expire(incoming, old)
  BY DEF Invoke
<1> HIDE DEF old, c
<1>3. Expire(pending, old) \in Seq(Calls) /\ Expire(incoming, old) \in Seq(Messages)
  BY <1>1, ExpireType
<1> QED
  BY <1>1, <1>2, <1>3 DEF BusTypeOK

\* The head of a queue, and what follows it.
LEMMA Taken ==
  ASSUME NEW S, NEW s \in Seq(S), s # <<>>
  PROVE  Head(s) \in S /\ Tail(s) \in Seq(S)
OBVIOUS

\* What the service says after a step is typed by its new revision.
LEMMA SaidType ==
  ASSUME revision' \in 0 .. MaxEdits
  PROVE  /\ Changed \in Messages
         /\ [kind |-> "owner", up |-> TRUE] \in Messages
         /\ [kind |-> "owner", up |-> FALSE] \in Messages
BY DEF Changed, Messages

\* The service starts, ends or does neither.
LEMMA AnnounceType ==
  ASSUME BusTypeOK, revision' \in 0 .. MaxEdits, Announce
  PROVE  BusTypeOK'
<1>b. calls \in Seq(Calls) /\ inbox \in Seq(Messages)
  BY DEF BusTypeOK
<1>1. /\ Len(calls) \in Nat /\ DOMAIN calls = 1 .. Len(calls)
      /\ \A n \in DOMAIN calls : calls[n] \in Calls
  BY <1>b
<1>2. \A n \in DOMAIN calls : ReplyTo(calls[n], FALSE) \in Messages
  <2> SUFFICES ASSUME NEW n \in DOMAIN calls
               PROVE  ReplyTo(calls[n], FALSE) \in Messages
    OBVIOUS
  <2>1. calls[n].kind \in Kinds /\ calls[n].live \in BOOLEAN
    BY <1>1 DEF Calls
  <2> QED
    BY <2>1 DEF ReplyTo, Messages
<1>3. Failures \in Seq(Messages)
  <2> DEFINE R(n) == ReplyTo(calls[n], FALSE)
  <2>1. Failures = [n \in 1 .. Len(calls) |-> R(n)] /\ \A n \in 1 .. Len(calls) : R(n) \in Messages
    BY <1>1, <1>2 DEF Failures
  <2> HIDE DEF R
  <2> QED
    BY <1>1, <2>1
<1>4. Lost \in Seq(Messages)
  BY SaidType DEF Lost
<1>5. inbox \o Lost \o Failures \in Seq(Messages) /\ inbox \o Failures \o Lost \in Seq(Messages)
  BY <1>b, <1>3, <1>4
<1>6. Append(inbox, [kind |-> "owner", up |-> TRUE]) \in Seq(Messages)
  BY <1>b, SaidType
<1>7. <<>> \in Seq(Calls)
  OBVIOUS
<1> QED
  BY <1>b, <1>5, <1>6, <1>7 DEF Announce, BusTypeOK, busVars

\* Each handler of the client.
LEMMA ClientType ==
  ASSUME TypeOK, User \/ Client
  PROVE  BusTypeOK' /\ ViewTypeOK'
<1> USE ClientAssumption
<1>0. BusTypeOK /\ ViewTypeOK
  BY DEF TypeOK, BusTypeOK, ViewTypeOK
<1>b. calls \in Seq(Calls) /\ inbox \in Seq(Messages)
  BY <1>0 DEF BusTypeOK
<1>h. ASSUME inbox # <<>>
      PROVE  Head(inbox) \in Messages /\ Tail(inbox) \in Seq(Messages)
  BY <1>b, <1>h, Taken
<1>k. "snapshot" \in Kinds /\ "range" \in Kinds /\ "mutation" \in Kinds /\ Kinds \in SUBSET Kinds
  BY DEF Kinds
<1>1. ASSUME NEW r \in Ranges, SetEventRange(r)
      PROVE  BusTypeOK' /\ ViewTypeOK'
  <2>1. CASE Invoke("range", calls, inbox) /\ range' = r
             /\ UNCHANGED <<open, connected, ready, shown, occurrences, missed>>
             /\ asks' = asks + 1 /\ asks < MaxAsks
    <3>1. BusTypeOK'
      BY <1>b, <1>k, <2>1, InvokeType
    <3> QED
      BY <1>0, <2>1, <3>1 DEF ViewTypeOK
  <2>2. CASE UNCHANGED vars
    BY <1>0, <2>2 DEF vars, busVars, clientVars, view, BusTypeOK, ViewTypeOK
  <2> QED
    BY <1>1, <2>1, <2>2 DEF SetEventRange
<1>2. CASE RequestEdit
  <2>1. BusTypeOK'
    BY <1>2, <1>b, <1>k, InvokeType DEF RequestEdit
  <2> QED
    BY <1>0, <1>2, <2>1 DEF RequestEdit, ViewTypeOK, view
<1>3. CASE OwnerChanged
  <2> DEFINE pending == Expire(calls, Kinds)
             incoming == Expire(Tail(inbox), Kinds)
  <2>1. /\ inbox # <<>> /\ Head(inbox).kind = "owner" /\ ready' = FALSE /\ shown' = 0
        /\ connected' = Head(inbox).up
        /\ \/ Invoke("snapshot", pending, incoming)
           \/ calls' = pending /\ inbox' = incoming
        /\ UNCHANGED <<open, range, occurrences, missed, asks>>
    BY <1>3 DEF OwnerChanged, Received
  <2>2. pending \in Seq(Calls) /\ incoming \in Seq(Messages)
    BY <1>b, <1>h, <1>k, <2>1, ExpireType
  <2> HIDE DEF pending, incoming
  <2>3. BusTypeOK'
    <3>1. CASE Invoke("snapshot", pending, incoming)
      BY <1>k, <2>2, <3>1, InvokeType
    <3>2. CASE calls' = pending /\ inbox' = incoming
      BY <2>2, <3>2 DEF BusTypeOK
    <3> QED
      BY <2>1, <3>1, <3>2
  <2>m. Head(inbox) \in Messages /\ Head(inbox).kind = "owner"
    BY <1>h, <2>1
  <2>u. Head(inbox).up \in BOOLEAN
    BY <2>m, Replies
  <2>4. connected' \in BOOLEAN /\ ready' \in BOOLEAN /\ shown' \in 0 .. MaxEdits
    <3>1. shown' = 0 /\ 0 \in 0 .. MaxEdits
      BY <2>1
    <3> QED
      BY <2>u, <2>1, <3>1
  <2>5. UNCHANGED <<open, range, occurrences, missed, asks>>
    BY <2>1
  <2> QED
    BY <1>0, <2>3, <2>4, <2>5 DEF ViewTypeOK
<1>4. CASE RemoteChanged
  <2>1. /\ inbox # <<>> /\ UNCHANGED clientVars
        /\ \/ Invoke("snapshot", calls, Tail(inbox))
           \/ inbox' = Tail(inbox) /\ UNCHANGED calls
    BY <1>4 DEF RemoteChanged, Received
  <2>2. BusTypeOK'
    <3>1. CASE Invoke("snapshot", calls, Tail(inbox))
      BY <1>b, <1>h, <1>k, <2>1, <3>1, InvokeType
    <3>2. CASE inbox' = Tail(inbox) /\ UNCHANGED calls
      BY <1>b, <1>h, <2>1, <3>2 DEF BusTypeOK
    <3> QED
      BY <2>1, <3>1, <3>2
  <2> QED
    BY <1>0, <2>1, <2>2 DEF ViewTypeOK, clientVars, view
<1>5. CASE StaleReply
  <2>1. inbox # <<>> /\ inbox' = Tail(inbox) /\ UNCHANGED calls /\ UNCHANGED clientVars
    BY <1>5 DEF StaleReply, Received
  <2> QED
    BY <1>0, <1>b, <1>h, <2>1 DEF ViewTypeOK, BusTypeOK, clientVars, view
<1>6. CASE ErrorReply
  <2>1. inbox # <<>> /\ inbox' = Tail(inbox) /\ UNCHANGED calls /\ Fail(Head(inbox).kind)
    BY <1>6 DEF ErrorReply, Received
  <2> QED
    BY <1>0, <1>b, <1>h, <2>1 DEF ViewTypeOK, BusTypeOK, Fail
<1>7. CASE Reply
  <2> DEFINE m == Head(inbox)
  <2>1. /\ inbox # <<>> /\ m.kind \in Kinds /\ connected' = TRUE
        /\ \/ /\ inbox' = Tail(inbox) /\ UNCHANGED calls
           \/ Invoke("range", calls, Tail(inbox))
        /\ shown' \in {shown, m.revision} /\ ready' \in {ready, TRUE} /\ missed' \in {missed, FALSE}
        /\ occurrences' \in {occurrences, [range |-> range, revision |-> m.revision]}
        /\ UNCHANGED <<open, range, asks>>
    BY <1>7 DEF Reply, Received, Kinds
  <2>2. m.revision \in 0 .. MaxEdits
    BY <1>h, <2>1, Replies
  <2> HIDE DEF m
  <2>3. BusTypeOK'
    <3>1. CASE inbox' = Tail(inbox) /\ UNCHANGED calls
      BY <1>b, <1>h, <2>1, <3>1 DEF BusTypeOK
    <3>2. CASE Invoke("range", calls, Tail(inbox))
      BY <1>b, <1>h, <1>k, <2>1, <3>2, InvokeType
    <3> QED
      BY <2>1, <3>1, <3>2
  <2>4. connected' \in BOOLEAN /\ ready' \in BOOLEAN /\ missed' \in BOOLEAN
    BY <1>0, <2>1 DEF ViewTypeOK
  <2>5. shown' \in 0 .. MaxEdits
    BY <1>0, <2>1, <2>2 DEF ViewTypeOK
  <2>6. occurrences' \in [range : Ranges \cup {None}, revision : 0 .. MaxEdits]
    BY <1>0, <2>1, <2>2 DEF ViewTypeOK
  <2>7. UNCHANGED <<open, range, asks>>
    BY <2>1
  <2>8. ViewTypeOK'
    BY <1>0, <2>4, <2>5, <2>6, <2>7 DEF ViewTypeOK
  <2> QED
    BY <2>3, <2>8
<1> QED
  BY <1>1, <1>2, <1>3, <1>4, <1>5, <1>6, <1>7 DEF User, Client

\* Every other step, which leaves the view alone but for a timeout.
LEMMA BusType ==
  ASSUME TypeOK, revision' \in 0 .. MaxEdits, [Next]_vars, ~User, ~Client
  PROVE  BusTypeOK' /\ ViewTypeOK'
<1>0. BusTypeOK /\ ViewTypeOK
  BY DEF TypeOK, BusTypeOK, ViewTypeOK
<1>b. calls \in Seq(Calls) /\ inbox \in Seq(Messages)
  BY <1>0 DEF BusTypeOK
<1>h. ASSUME calls # <<>>
      PROVE  Head(calls) \in Calls /\ Tail(calls) \in Seq(Calls)
  BY <1>b, <1>h, Taken
<1>r. ASSUME calls # <<>>
      PROVE  ReplyTo(Head(calls), TRUE) \in Messages
  <2>1. Head(calls).kind \in Kinds /\ Head(calls).live \in BOOLEAN
    BY <1>h, <1>r DEF Calls
  <2> QED
    BY <2>1 DEF ReplyTo, Messages
<1>v. ASSUME UNCHANGED clientVars
      PROVE  ViewTypeOK'
  BY <1>0, <1>v DEF clientVars, view, ViewTypeOK
<1>1. CASE AnswerQuery
  <2> DEFINE m == ReplyTo(Head(calls), TRUE)
  <2>1. calls # <<>> /\ calls' = Tail(calls) /\ inbox' = Append(inbox, m)
    BY <1>1 DEF AnswerQuery
  <2>2. m \in Messages
    BY <1>r, <2>1
  <2> HIDE DEF m
  <2>3. BusTypeOK'
    BY <1>b, <1>h, <2>1, <2>2 DEF BusTypeOK
  <2> QED
    BY <1>1, <1>v, <2>3 DEF AnswerQuery
<1>2. CASE AnswerEdit
  <2> DEFINE m == ReplyTo(Head(calls), TRUE)
             said == <<Changed, m>>
  <2>1. calls # <<>> /\ calls' = Tail(calls) /\ inbox' = inbox \o said
    BY <1>2 DEF AnswerEdit
  <2>2. Changed \in Messages /\ m \in Messages
    BY <1>r, <2>1, SaidType
  <2> HIDE DEF m
  <2>3. said \in Seq(Messages)
    BY <2>2
  <2> HIDE DEF said
  <2>4. BusTypeOK'
    BY <1>b, <1>h, <2>1, <2>3 DEF BusTypeOK
  <2> QED
    BY <1>2, <1>v, <2>4 DEF AnswerEdit
<1>3. CASE OtherEdit
  <2>1. UNCHANGED clientVars /\ UNCHANGED calls /\ inbox' \in {inbox, Append(inbox, Changed)}
    BY <1>3 DEF OtherEdit, busVars
  <2>2. Changed \in Messages
    BY SaidType
  <2>3. BusTypeOK'
    BY <1>b, <2>1, <2>2 DEF BusTypeOK
  <2> QED
    BY <1>v, <2>1, <2>3
<1>4. CASE Announce /\ UNCHANGED clientVars
  BY <1>0, <1>4, <1>v, AnnounceType
<1>5. ASSUME NEW n \in DOMAIN calls, Timeout(n)
      PROVE  BusTypeOK' /\ ViewTypeOK'
  <2>1. calls' = [calls EXCEPT ![n].live = FALSE] /\ inbox' = inbox /\ Fail(calls[n].kind)
    BY <1>5 DEF Timeout
  <2>2. [calls[n] EXCEPT !.live = FALSE] \in Calls
    <3>1. calls[n] \in Calls
      BY <1>b
    <3> QED
      BY <3>1 DEF Calls
  <2>3. calls' = [calls EXCEPT ![n] = [calls[n] EXCEPT !.live = FALSE]]
    BY <2>1
  <2>4. BusTypeOK'
    BY <1>b, <2>1, <2>2, <2>3 DEF BusTypeOK
  <2> QED
    BY <1>0, <2>1, <2>4 DEF Fail, ViewTypeOK
<1>6. CASE UNCHANGED vars
  BY <1>0, <1>6 DEF vars, busVars, clientVars, view, BusTypeOK, ViewTypeOK
<1> QED
  BY <1>1, <1>2, <1>3, <1>4, <1>5, <1>6 DEF Next, Answer, Failing, Process

\* The client's copy and what is on the bus keep their types, for any
\* messages, restarts and timeouts: every revision shown was a revision of
\* the service, and a queue whose calls expire stays a queue of calls.
THEOREM TypeCorrect == Spec => []TypeOK
<1>1. Init => TypeOK
  <2> SUFFICES ASSUME Init PROVE TypeOK
    OBVIOUS
  <2>1. StoreTypeOK
    BY InitIInv DEF Init, IInv
  <2>2. calls \in Seq(Calls) /\ inbox \in Seq(Messages)
    <3>1. [kind |-> "snapshot", live |-> TRUE] \in Calls
      BY DEF Calls, Kinds
    <3> QED
      BY <3>1 DEF Init
  <2>3. open \in BOOLEAN /\ connected \in BOOLEAN /\ ready \in BOOLEAN /\ missed \in BOOLEAN
    BY DEF Init
  <2>4. /\ shown \in 0 .. MaxEdits /\ range \in Ranges \cup {None} /\ asks \in 0 .. MaxAsks
        /\ occurrences \in [range : Ranges \cup {None}, revision : 0 .. MaxEdits]
    BY ClientAssumption DEF Init
  <2> QED
    BY <2>1, <2>2, <2>3, <2>4 DEF TypeOK
<1>2. TypeOK /\ StoreTypeOK' /\ [Next]_vars => TypeOK'
  <2> SUFFICES ASSUME TypeOK, StoreTypeOK', [Next]_vars PROVE TypeOK'
    OBVIOUS
  <2>1. revision' \in 0 .. MaxEdits
    BY DEF StoreTypeOK
  <2>2. BusTypeOK' /\ ViewTypeOK'
    BY <2>1, ClientType, BusType
  <2> QED
    BY <2>2 DEF TypeOK, BusTypeOK, ViewTypeOK
<1> QED
  BY <1>1, <1>2, StoreTypes, PTL DEF Spec
-----------------------------------------------------------------------------
(* The client is never silently behind.                                     *)

\* Message i was said by the service that runs: no change of the owner
\* follows it.
Fresh(s, i) == \A j \in DOMAIN s : i <= j => s[j].kind # "owner"

\* What it said comes in the order of its revisions, and a message before
\* the latest edit is followed by the signal of that edit.
InOrder(s, rev) ==
  \A i \in DOMAIN s : Fresh(s, i) =>
    /\ s[i].revision <= rev
    /\ \A j \in DOMAIN s : i <= j => s[i].revision <= s[j].revision
    /\ \/ s[i].revision = rev
       \/ \E j \in DOMAIN s : i < j /\ s[j].kind = "changed" /\ s[j].revision = rev

\* The last change of the owner on the bus is to the service that runs.
LastIsUp(s) ==
  \A i \in DOMAIN s : s[i].kind = "owner" =>
    s[i].up \/ \E j \in DOMAIN s : i < j /\ s[j].kind = "owner"

\* A question of this kind is on its way, or an answer that is an error or
\* as new as the service.
Asked(c, kind) == \E n \in DOMAIN c : c[n].kind = kind /\ c[n].live
Answers(m, kind, rev) == m.kind = kind /\ m.live /\ (~m.ok \/ m.revision = rev)
Answered(s, kind, rev) == \E i \in DOMAIN s : Answers(s[i], kind, rev)

\* The signal of this revision is on its way.
Announced(s, rev) == \E i \in DOMAIN s : s[i].kind = "changed" /\ s[i].revision = rev

\* A snapshot that is as new as the service is on its way, or will be asked for.
SnapshotComes(c, s, sh, rev) ==
  \/ Asked(c, "snapshot") \/ Answered(s, "snapshot", rev)
  \/ sh < rev /\ Announced(s, rev)

NoOldRange(s, rev) ==
  \A i \in DOMAIN s : s[i].kind = "range" /\ s[i].live => Answers(s[i], "range", rev)

RangeComes(c, s, rev) == Asked(c, "range") \/ Answered(s, "range", rev)

CopyInv ==
  \/ ready /\ shown = revision
  \/ SnapshotComes(calls, inbox, shown, revision)
RangeInv ==
  \/ range = None
  \/ SnapshotComes(calls, inbox, shown, revision)
  \/ RangeComes(calls, inbox, revision)
  \/ occurrences = [range |-> range, revision |-> revision] /\ NoOldRange(inbox, revision)

NoOwner(s) == \A i \in DOMAIN s : s[i].kind # "owner"

NewsInv ==
  open /\ phase # "down" =>
    /\ InOrder(inbox, revision) /\ LastIsUp(inbox)
    /\ NoOwner(inbox) => shown <= revision
    /\ NoOwner(inbox) /\ ~missed => CopyInv /\ RangeInv

\* Something is on the bus.
News ==
  \/ \E i \in DOMAIN inbox :
       \/ inbox[i].kind = "owner"
       \/ inbox[i].kind = "changed" /\ inbox[i].revision > shown
       \/ inbox[i].kind \in {"snapshot", "range"} /\ inbox[i].live
  \/ \E n \in DOMAIN calls : calls[n].kind \in {"snapshot", "range"} /\ calls[n].live

\* An open application that is behind the running service, and whose last
\* question did not fail, has something under way that it will act on
\* (PimClient.cpp 226-330).
NeverSilentlyBehind == open /\ phase # "down" /\ ~missed /\ ~Current => News
-----------------------------------------------------------------------------
(* Queues of messages.                                                      *)

LEMMA QueueFacts ==
  ASSUME NEW s \in Seq(Messages)
  PROVE  /\ Len(s) \in Nat /\ DOMAIN s = 1 .. Len(s)
         /\ \A i \in DOMAIN s : /\ s[i] \in Messages
                                /\ s[i].kind \in Kinds \cup {"changed", "owner"}
                                /\ s[i].kind # "owner" => s[i].revision \in 0 .. MaxEdits
<1>1. /\ Len(s) \in Nat /\ DOMAIN s = 1 .. Len(s) /\ \A i \in DOMAIN s : s[i] \in Messages
  OBVIOUS
<1>2. \A m \in Messages : /\ m.kind \in Kinds \cup {"changed", "owner"}
                          /\ m.kind # "owner" => m.revision \in 0 .. MaxEdits
  BY DEF Messages, Kinds
<1> QED
  BY <1>1, <1>2

LEMMA TailFacts ==
  ASSUME NEW s \in Seq(Messages), s # <<>>
  PROVE  /\ Tail(s) \in Seq(Messages) /\ Head(s) = s[1] /\ 1 \in DOMAIN s
         /\ Len(Tail(s)) = Len(s) - 1
         /\ \A i \in DOMAIN Tail(s) : Tail(s)[i] = s[i + 1] /\ i + 1 \in DOMAIN s
         /\ \A i \in DOMAIN s : i # 1 => i - 1 \in DOMAIN Tail(s) /\ Tail(s)[i - 1] = s[i]
OBVIOUS

\* What is left of a queue when its head is taken.
LEMMA TailKeeps ==
  ASSUME NEW s \in Seq(Messages), s # <<>>, NEW rev
  PROVE  /\ InOrder(s, rev) => InOrder(Tail(s), rev)
         /\ LastIsUp(s) => LastIsUp(Tail(s))
         /\ NoOldRange(s, rev) => NoOldRange(Tail(s), rev)
         /\ Head(s).kind # "owner" => (NoOwner(Tail(s)) <=> NoOwner(s))
         /\ ~(Head(s).kind = "changed" /\ Head(s).revision = rev) =>
              (Announced(s, rev) => Announced(Tail(s), rev))
         /\ \A k : ~Answers(Head(s), k, rev) => (Answered(s, k, rev) => Answered(Tail(s), k, rev))
<1> DEFINE t == Tail(s)
<1>1. /\ t \in Seq(Messages) /\ Head(s) = s[1] /\ 1 \in DOMAIN s
      /\ \A i \in DOMAIN t : t[i] = s[i + 1] /\ i + 1 \in DOMAIN s
      /\ \A i \in DOMAIN s : i # 1 => i - 1 \in DOMAIN t /\ t[i - 1] = s[i]
  BY TailFacts
<1>2. /\ \A i \in DOMAIN t : i \in Int
      /\ \A i \in DOMAIN s : i \in Int /\ i >= 1
  BY <1>1, QueueFacts
<1> HIDE DEF t
<1>3. ASSUME NEW i \in DOMAIN t, Fresh(t, i)
      PROVE  Fresh(s, i + 1)
  <2> SUFFICES ASSUME NEW j \in DOMAIN s, i + 1 <= j
               PROVE  s[j].kind # "owner"
    BY DEF Fresh
  <2>1. i \in Int /\ j \in Int /\ i >= 1
    BY <1>1, <1>2, QueueFacts
  <2>2. j # 1 /\ i <= j - 1
    BY <2>1
  <2> QED
    BY <1>1, <1>3, <2>2 DEF Fresh
<1>4. ASSUME InOrder(s, rev)
      PROVE  InOrder(t, rev)
  <2> SUFFICES ASSUME NEW i \in DOMAIN t, Fresh(t, i)
               PROVE  /\ t[i].revision <= rev
                      /\ \A j \in DOMAIN t : i <= j => t[i].revision <= t[j].revision
                      /\ \/ t[i].revision = rev
                         \/ \E j \in DOMAIN t : i < j /\ t[j].kind = "changed" /\ t[j].revision = rev
    BY DEF InOrder
  <2>1. i + 1 \in DOMAIN s /\ Fresh(s, i + 1) /\ t[i] = s[i + 1] /\ i \in Int
    BY <1>1, <1>2, <1>3
  <2>2. /\ s[i + 1].revision <= rev
        /\ \A j \in DOMAIN s : i + 1 <= j => s[i + 1].revision <= s[j].revision
        /\ \/ s[i + 1].revision = rev
           \/ \E j \in DOMAIN s : i + 1 < j /\ s[j].kind = "changed" /\ s[j].revision = rev
    BY <1>4, <2>1 DEF InOrder
  <2>3. \A j \in DOMAIN t : i <= j => t[i].revision <= t[j].revision
    <3> SUFFICES ASSUME NEW j \in DOMAIN t, i <= j
                 PROVE  t[i].revision <= t[j].revision
      OBVIOUS
    <3>1. j + 1 \in DOMAIN s /\ t[j] = s[j + 1] /\ i + 1 <= j + 1
      BY <1>1, <1>2
    <3> QED
      BY <2>1, <2>2, <3>1
  <2>4. ASSUME NEW j \in DOMAIN s, i + 1 < j, s[j].kind = "changed", s[j].revision = rev
        PROVE  \E m \in DOMAIN t : i < m /\ t[m].kind = "changed" /\ t[m].revision = rev
    <3>1. j # 1 /\ i < j - 1
      BY <1>2, <2>1, <2>4
    <3>2. j - 1 \in DOMAIN t /\ t[j - 1] = s[j]
      BY <1>1, <3>1
    <3> QED
      BY <2>4, <3>1, <3>2
  <2> QED
    BY <2>1, <2>2, <2>3, <2>4
<1>5. ASSUME LastIsUp(s)
      PROVE  LastIsUp(t)
  <2> SUFFICES ASSUME NEW i \in DOMAIN t, t[i].kind = "owner", ~t[i].up
               PROVE  \E j \in DOMAIN t : i < j /\ t[j].kind = "owner"
    BY DEF LastIsUp
  <2>1. i + 1 \in DOMAIN s /\ t[i] = s[i + 1] /\ i \in Int
    BY <1>1, <1>2
  <2>2. PICK j \in DOMAIN s : i + 1 < j /\ s[j].kind = "owner"
    BY <1>5, <2>1 DEF LastIsUp
  <2>3. j # 1 /\ i < j - 1
    BY <1>2, <2>1, <2>2
  <2>4. j - 1 \in DOMAIN t /\ t[j - 1] = s[j]
    BY <1>1, <2>3
  <2> QED
    BY <2>2, <2>3, <2>4
<1>6. NoOldRange(s, rev) => NoOldRange(t, rev)
  BY <1>1 DEF NoOldRange
<1>7. Head(s).kind # "owner" => (NoOwner(t) <=> NoOwner(s))
  BY <1>1 DEF NoOwner
<1>8. ~(Head(s).kind = "changed" /\ Head(s).revision = rev) =>
        (Announced(s, rev) => Announced(t, rev))
  BY <1>1 DEF Announced
<1>9. \A k : ~Answers(Head(s), k, rev) => (Answered(s, k, rev) => Answered(t, k, rev))
  <2> SUFFICES ASSUME NEW k, ~Answers(s[1], k, rev), NEW i \in DOMAIN s, Answers(s[i], k, rev)
               PROVE  \E j \in DOMAIN t : Answers(t[j], k, rev)
    BY <1>1 DEF Answered
  <2>1. i # 1
    OBVIOUS
  <2> QED
    BY <1>1, <2>1
<1> QED
  BY <1>4, <1>5, <1>6, <1>7, <1>8, <1>9 DEF t

\* Two queues that differ at most in which replies still count; what counts
\* in t counted in s.
Alike(s, t) ==
  /\ DOMAIN t = DOMAIN s
  /\ \A i \in DOMAIN s :
       /\ t[i].kind = s[i].kind
       /\ s[i].kind \notin Kinds => t[i] = s[i]
       /\ s[i].kind \in Kinds =>
            t[i].revision = s[i].revision /\ t[i].ok = s[i].ok /\ (t[i].live => s[i].live)

LEMMA AlikeKeeps ==
  ASSUME NEW s \in Seq(Messages), NEW t, Alike(s, t), NEW rev
  PROVE  /\ InOrder(s, rev) => InOrder(t, rev)
         /\ LastIsUp(s) => LastIsUp(t)
         /\ NoOldRange(s, rev) => NoOldRange(t, rev)
         /\ NoOwner(t) <=> NoOwner(s)
         /\ Announced(s, rev) => Announced(t, rev)
<1>1. /\ DOMAIN t = DOMAIN s
      /\ \A i \in DOMAIN s :
           /\ t[i].kind = s[i].kind
           /\ s[i].kind = "owner" => t[i] = s[i]
           /\ s[i].kind # "owner" => t[i].revision = s[i].revision
  <2>1. \A i \in DOMAIN s : s[i].kind \in Kinds \cup {"changed", "owner"}
    BY QueueFacts
  <2> QED
    BY <2>1 DEF Alike, Kinds
<1>2. \A i \in DOMAIN s : Fresh(t, i) => Fresh(s, i) /\ s[i].kind # "owner"
  <2> SUFFICES ASSUME NEW i \in DOMAIN s, Fresh(t, i)
               PROVE  Fresh(s, i) /\ s[i].kind # "owner"
    OBVIOUS
  <2>1. i <= i
    BY QueueFacts
  <2> QED
    BY <1>1, <2>1 DEF Fresh
<1>3. ASSUME InOrder(s, rev)
      PROVE  InOrder(t, rev)
  <2> SUFFICES ASSUME NEW i \in DOMAIN s, Fresh(t, i)
               PROVE  /\ t[i].revision <= rev
                      /\ \A j \in DOMAIN s : i <= j => t[i].revision <= t[j].revision
                      /\ \/ t[i].revision = rev
                         \/ \E j \in DOMAIN s : i < j /\ t[j].kind = "changed" /\ t[j].revision = rev
    BY <1>1 DEF InOrder
  <2>1. Fresh(s, i) /\ t[i].revision = s[i].revision
    BY <1>1, <1>2
  <2>2. \A j \in DOMAIN s : i <= j => t[j].revision = s[j].revision
    BY <1>1, <2>1 DEF Fresh
  <2>3. \A j \in DOMAIN s : s[j].kind = "changed" => t[j].revision = s[j].revision
    BY <1>1
  <2> QED
    BY <1>1, <1>3, <2>1, <2>2, <2>3 DEF InOrder
<1>4. LastIsUp(s) => LastIsUp(t)
  BY <1>1 DEF LastIsUp
<1>5. NoOldRange(s, rev) => NoOldRange(t, rev)
  BY DEF Alike, NoOldRange, Answers, Kinds
<1>6. NoOwner(t) <=> NoOwner(s)
  BY <1>1 DEF NoOwner
<1>7. Announced(s, rev) => Announced(t, rev)
  BY <1>1 DEF Announced
<1> QED
  BY <1>3, <1>4, <1>5, <1>6, <1>7

\* Calls and replies that no longer count.
LEMMA ExpireAlike ==
  ASSUME NEW s \in Seq(Messages), NEW gone \in SUBSET Kinds
  PROVE  /\ Alike(s, Expire(s, gone))
         /\ \A k, rev : k \notin gone => (Answered(s, k, rev) => Answered(Expire(s, gone), k, rev))
<1> DEFINE t == Expire(s, gone)
<1>1. DOMAIN t = DOMAIN s
  BY DEF Expire
<1>2. ASSUME NEW i \in DOMAIN s
      PROVE  /\ s[i].kind \notin gone => t[i] = s[i]
             /\ s[i].kind \in gone =>
                  /\ t[i].kind = s[i].kind /\ t[i].revision = s[i].revision
                  /\ t[i].ok = s[i].ok /\ (t[i].live => s[i].live)
  <2>1. s[i] \in Messages
    BY QueueFacts
  <2>2. t[i] = IF s[i].kind \in gone THEN [s[i] EXCEPT !.live = FALSE] ELSE s[i]
    BY DEF Expire
  <2>3. CASE s[i].kind \in gone
    <3>1. s[i] \in [kind : Kinds, live : BOOLEAN, ok : BOOLEAN, revision : 0 .. MaxEdits]
      BY <2>1, <2>3, Replies
    <3>2. t[i] = [s[i] EXCEPT !.live = FALSE]
      BY <2>2, <2>3
    <3> HIDE DEF t
    <3> QED
      BY <2>3, <3>1, <3>2
  <2>4. CASE s[i].kind \notin gone
    BY <2>2, <2>4
  <2> QED
    BY <2>3, <2>4
<1> HIDE DEF t
<1>3. Alike(s, t)
  BY <1>1, <1>2 DEF Alike
<1>4. \A k, rev : k \notin gone => (Answered(s, k, rev) => Answered(t, k, rev))
  BY <1>1, <1>2 DEF Answered, Answers
<1> QED
  BY <1>3, <1>4 DEF t

\* One more call: it is under way, and nothing of another kind is lost.
LEMMA InvokeKeeps ==
  ASSUME NEW kind \in Kinds, NEW pending \in Seq(Calls), NEW incoming \in Seq(Messages),
         Invoke(kind, pending, incoming)
  PROVE  /\ Alike(incoming, inbox') /\ Asked(calls', kind)
         /\ \A k : k # kind =>
              /\ Asked(pending, k) => Asked(calls', k)
              /\ \A rev : Answered(incoming, k, rev) => Answered(inbox', k, rev)
<1> DEFINE old == {kind} \ {"mutation"}
           c == [kind |-> kind, live |-> TRUE]
           kept == Expire(pending, old)
<1>1. old \in SUBSET Kinds /\ \A k : k # kind => k \notin old
  OBVIOUS
<1>2. calls' = Append(kept, c) /\ inbox' = Expire(incoming, old)
  BY DEF Invoke
<1>3. c.kind = kind /\ c.live
  OBVIOUS
<1>4. /\ \A n \in DOMAIN pending : pending[n].kind \notin old => kept[n] = pending[n]
      /\ DOMAIN kept = DOMAIN pending
  BY DEF Expire
<1> HIDE DEF old, c
<1>5. kept \in Seq(Calls)
  BY <1>1, ExpireType
<1> HIDE DEF kept
<1>6. /\ \A n \in DOMAIN kept : n \in DOMAIN calls' /\ calls'[n] = kept[n]
      /\ \E n \in DOMAIN calls' : calls'[n] = c
  <2>1. Len(kept) \in Nat /\ DOMAIN kept = 1 .. Len(kept)
    BY <1>5
  <2>2. /\ DOMAIN calls' = 1 .. (Len(kept) + 1) /\ calls'[Len(kept) + 1] = c
        /\ \A n \in 1 .. Len(kept) : calls'[n] = kept[n]
    BY <1>2, <1>5
  <2>3. Len(kept) + 1 \in DOMAIN calls' /\ \A n \in DOMAIN kept : n \in DOMAIN calls'
    BY <2>1, <2>2
  <2> QED
    BY <2>1, <2>2, <2>3
<1>7. Alike(incoming, inbox')
  BY <1>1, <1>2, ExpireAlike
<1>8. Asked(calls', kind)
  BY <1>3, <1>6 DEF Asked
<1>9. ASSUME NEW k, k # kind
      PROVE  /\ Asked(pending, k) => Asked(calls', k)
             /\ \A rev : Answered(incoming, k, rev) => Answered(inbox', k, rev)
  <2>1. k \notin old
    BY <1>1, <1>9
  <2>2. Asked(pending, k) => Asked(calls', k)
    BY <1>4, <1>6, <2>1 DEF Asked
  <2>3. \A rev : Answered(incoming, k, rev) => Answered(Expire(incoming, old), k, rev)
    BY <1>1, <2>1, ExpireAlike
  <2> QED
    BY <1>2, <2>2, <2>3
<1> QED
  BY <1>7, <1>8, <1>9

\* What the service says is added at the end.
LEMMA AppendFacts ==
  ASSUME NEW s \in Seq(Messages), NEW m \in Messages
  PROVE  /\ Append(s, m) \in Seq(Messages)
         /\ Len(s) + 1 \in DOMAIN Append(s, m) /\ Append(s, m)[Len(s) + 1] = m
         /\ \A i \in DOMAIN s : i \in DOMAIN Append(s, m) /\ Append(s, m)[i] = s[i] /\ i < Len(s) + 1
         /\ \A i \in DOMAIN Append(s, m) : i = Len(s) + 1 \/ i \in DOMAIN s
<1>1. /\ Append(s, m) \in Seq(Messages) /\ Len(s) \in Nat /\ DOMAIN s = 1 .. Len(s)
      /\ DOMAIN Append(s, m) = 1 .. (Len(s) + 1)
      /\ Append(s, m)[Len(s) + 1] = m /\ \A i \in DOMAIN s : Append(s, m)[i] = s[i]
  OBVIOUS
<1> QED
  BY <1>1

LEMMA TwoAppended ==
  ASSUME NEW s \in Seq(Messages), NEW a \in Messages, NEW b \in Messages
  PROVE  s \o <<a, b>> = Append(Append(s, a), b)
<1>1. s \o <<a, b>> \in Seq(Messages) /\ Append(Append(s, a), b) \in Seq(Messages)
  OBVIOUS
<1>2. Len(s \o <<a, b>>) = Len(s) + 2 /\ Len(Append(Append(s, a), b)) = Len(s) + 2
  OBVIOUS
<1>3. \A i \in 1 .. (Len(s) + 2) : (s \o <<a, b>>)[i] = Append(Append(s, a), b)[i]
  OBVIOUS
<1> QED
  BY <1>1, <1>2, <1>3

LEMMA AppendKeeps ==
  ASSUME NEW s \in Seq(Messages), NEW m \in Messages, NEW rev
  PROVE  /\ NoOwner(Append(s, m)) <=> NoOwner(s) /\ m.kind # "owner"
         /\ Announced(s, rev) => Announced(Append(s, m), rev)
         /\ \A k : Answered(s, k, rev) \/ Answers(m, k, rev) => Answered(Append(s, m), k, rev)
         /\ NoOldRange(s, rev) /\ (m.kind = "range" /\ m.live => Answers(m, "range", rev)) =>
              NoOldRange(Append(s, m), rev)
         /\ LastIsUp(s) /\ m.kind # "owner" => LastIsUp(Append(s, m))
<1> DEFINE t == Append(s, m)
           n == Len(s) + 1
<1>1. /\ n \in DOMAIN t /\ t[n] = m
      /\ \A i \in DOMAIN s : i \in DOMAIN t /\ t[i] = s[i] /\ i < n
      /\ \A i \in DOMAIN t : i = n \/ i \in DOMAIN s
  BY AppendFacts
<1> HIDE DEF t, n
<1>2. NoOwner(t) <=> NoOwner(s) /\ m.kind # "owner"
  BY <1>1 DEF NoOwner
<1>3. Announced(s, rev) => Announced(t, rev)
  BY <1>1 DEF Announced
<1>4. \A k : Answered(s, k, rev) \/ Answers(m, k, rev) => Answered(t, k, rev)
  BY <1>1 DEF Answered
<1>5. NoOldRange(s, rev) /\ (m.kind = "range" /\ m.live => Answers(m, "range", rev)) =>
        NoOldRange(t, rev)
  BY <1>1 DEF NoOldRange
<1>6. LastIsUp(s) /\ m.kind # "owner" => LastIsUp(t)
  BY <1>1 DEF LastIsUp
<1> QED
  BY <1>2, <1>3, <1>4, <1>5, <1>6 DEF t

\* An answer as new as the service, or the signal of its latest edit, keeps
\* the order.
LEMMA AppendInOrder ==
  ASSUME NEW s \in Seq(Messages), NEW m \in Messages, NEW r \in Nat,
         m.kind # "owner", InOrder(s, r),
         m.revision = r \/ (m.kind = "changed" /\ m.revision = r + 1)
  PROVE  InOrder(Append(s, m), m.revision)
<1> DEFINE t == Append(s, m)
           n == Len(s) + 1
           rev == m.revision
<1>1. /\ n \in DOMAIN t /\ t[n] = m
      /\ \A i \in DOMAIN s : i \in DOMAIN t /\ t[i] = s[i] /\ i < n
      /\ \A i \in DOMAIN t : i = n \/ i \in DOMAIN s
  BY AppendFacts
<1>2. /\ n \in Nat /\ rev \in Nat /\ \A i \in DOMAIN s : i \in Nat
      /\ rev = r \/ (m.kind = "changed" /\ rev = r + 1)
  BY QueueFacts
<1>3. m.revision = rev
  OBVIOUS
<1> HIDE DEF t, n, rev
<1> SUFFICES ASSUME NEW i \in DOMAIN t, Fresh(t, i)
             PROVE  /\ t[i].revision <= rev
                    /\ \A j \in DOMAIN t : i <= j => t[i].revision <= t[j].revision
                    /\ \/ t[i].revision = rev
                       \/ \E j \in DOMAIN t : i < j /\ t[j].kind = "changed" /\ t[j].revision = rev
  BY DEF InOrder, t, rev
<1>4. CASE i = n
  <2>1. \A j \in DOMAIN t : i <= j => j = n
    BY <1>1, <1>2, <1>4
  <2> QED
    BY <1>1, <1>2, <1>3, <1>4, <2>1
<1>5. CASE i \in DOMAIN s
  <2>1. Fresh(s, i)
    BY <1>1, <1>5 DEF Fresh
  <2>2. i <= i /\ s[i].kind # "owner"
    BY <1>2, <1>5, <2>1 DEF Fresh
  <2>3. s[i].revision \in Nat
    BY <1>5, <2>2, QueueFacts
  <2>4. /\ s[i].revision <= r
        /\ \A j \in DOMAIN s : i <= j => s[i].revision <= s[j].revision
        /\ \/ s[i].revision = r
           \/ \E j \in DOMAIN s : i < j /\ s[j].kind = "changed" /\ s[j].revision = r
    BY <1>5, <2>1 DEF InOrder
  <2>5. t[i] = s[i] /\ s[i].revision <= rev
    BY <1>1, <1>2, <1>5, <2>3, <2>4
  <2>6. \A j \in DOMAIN t : i <= j => t[i].revision <= t[j].revision
    BY <1>1, <1>3, <2>4, <2>5
  <2>7. \/ t[i].revision = rev
        \/ \E j \in DOMAIN t : i < j /\ t[j].kind = "changed" /\ t[j].revision = rev
    <3>1. CASE rev = r
      BY <1>1, <2>4, <2>5, <3>1
    <3>2. CASE m.kind = "changed"
      BY <1>1, <1>3, <1>5, <3>2
    <3> QED
      BY <1>2, <3>1, <3>2
  <2> QED
    BY <2>5, <2>6, <2>7
<1> QED
  BY <1>1, <1>4, <1>5

-----------------------------------------------------------------------------
(* Each step keeps the news coming.                                         *)

\* What the parts say of a client that is open and a service that runs.
Running == open /\ phase # "down"
Parts ==
  /\ InOrder(inbox, revision) /\ LastIsUp(inbox)
  /\ NoOwner(inbox) => shown <= revision
  /\ NoOwner(inbox) /\ ~missed => CopyInv
  /\ NoOwner(inbox) /\ ~missed => RangeInv

LEMMA QueuesTyped ==
  ASSUME TypeOK
  PROVE  calls \in Seq(Calls) /\ inbox \in Seq(Messages) /\ revision \in Nat
         /\ revision \in 0 .. MaxEdits /\ shown \in Nat
BY DEF TypeOK, StoreTypeOK

\* A question that is asked leads to both, whatever else is lost.
LEMMA UserNews ==
  ASSUME TypeOK, Running, Parts, User
  PROVE  Parts'
<1>0. calls \in Seq(Calls) /\ inbox \in Seq(Messages)
  BY QueuesTyped
<1>a. CASE UNCHANGED vars
  BY <1>a DEF vars, storeVars, memory, busVars, clientVars, view, Parts, CopyInv, RangeInv
<1>b. SUFFICES ASSUME ~UNCHANGED vars
               PROVE  Parts'
  BY <1>a
<1>1. PICK k \in {"range", "mutation"} :
        /\ Invoke(k, calls, inbox) /\ (k = "range" \/ range' = range)
        /\ UNCHANGED <<revision, shown, ready, occurrences, missed>>
  BY <1>b DEF User, RequestEdit, SetEventRange, storeVars, memory, view
<1>2. k \in Kinds /\ k # "snapshot"
  BY DEF Kinds
<1>3. /\ Alike(inbox, inbox') /\ Asked(calls', k)
      /\ \A q : q # k => /\ Asked(calls, q) => Asked(calls', q)
                         /\ Answered(inbox, q, revision) => Answered(inbox', q, revision)
  BY <1>0, <1>1, <1>2, InvokeKeeps
<1>4. /\ InOrder(inbox, revision) => InOrder(inbox', revision)
      /\ LastIsUp(inbox) => LastIsUp(inbox')
      /\ NoOldRange(inbox, revision) => NoOldRange(inbox', revision)
      /\ NoOwner(inbox') <=> NoOwner(inbox)
      /\ Announced(inbox, revision) => Announced(inbox', revision)
  BY <1>0, <1>3, AlikeKeeps
<1>5. SnapshotComes(calls, inbox, shown, revision) => SnapshotComes(calls', inbox', shown, revision)
  BY <1>2, <1>3, <1>4 DEF SnapshotComes
<1>6. CopyInv => CopyInv'
  BY <1>1, <1>5 DEF CopyInv
<1>7. RangeInv => RangeInv'
  <2>1. CASE k = "range"
    BY <1>3, <2>1 DEF RangeInv, RangeComes
  <2>2. CASE k # "range"
    <3>1. RangeComes(calls, inbox, revision) => RangeComes(calls', inbox', revision)
      BY <1>3, <2>2 DEF RangeComes
    <3> QED
      BY <1>1, <1>4, <1>5, <2>2, <3>1 DEF RangeInv
  <2> QED
    BY <2>1, <2>2
<1> QED
  BY <1>1, <1>4, <1>6, <1>7 DEF Parts

\* A message that no news is lost with: what was to come still comes.
LEMMA Dropped ==
  ASSUME TypeOK, Parts, inbox # <<>>, Head(inbox).kind # "owner",
         ~Answers(Head(inbox), "snapshot", revision), ~Answers(Head(inbox), "range", revision),
         Head(inbox).kind = "changed" /\ Head(inbox).revision = revision => shown >= revision,
         inbox' = Tail(inbox), UNCHANGED <<calls, revision, shown, ready, range, occurrences, missed>>
  PROVE  Parts'
<1>0. calls \in Seq(Calls) /\ inbox \in Seq(Messages) /\ revision \in Nat /\ shown \in Nat
  BY QueuesTyped
<1>1. /\ InOrder(inbox, revision) => InOrder(inbox', revision)
      /\ LastIsUp(inbox) => LastIsUp(inbox')
      /\ NoOldRange(inbox, revision) => NoOldRange(inbox', revision)
      /\ NoOwner(inbox') <=> NoOwner(inbox)
      /\ Answered(inbox, "snapshot", revision) => Answered(inbox', "snapshot", revision)
      /\ Answered(inbox, "range", revision) => Answered(inbox', "range", revision)
      /\ ~(Head(inbox).kind = "changed" /\ Head(inbox).revision = revision) =>
              (Announced(inbox, revision) => Announced(inbox', revision))
  BY <1>0, TailKeeps
<1>2. shown < revision /\ Announced(inbox, revision) => Announced(inbox', revision)
  <2>1. CASE Head(inbox).kind = "changed" /\ Head(inbox).revision = revision
    BY <1>0, <2>1
  <2>2. CASE ~(Head(inbox).kind = "changed" /\ Head(inbox).revision = revision)
    BY <1>1, <2>2
  <2> QED
    BY <2>1, <2>2
<1>3. SnapshotComes(calls, inbox, shown, revision) => SnapshotComes(calls', inbox', shown, revision)
  BY <1>1, <1>2 DEF SnapshotComes
<1>4. CopyInv => CopyInv'
  BY <1>3 DEF CopyInv
<1>5. RangeInv => RangeInv'
  BY <1>1, <1>3 DEF RangeInv, RangeComes
<1> QED
  BY <1>1, <1>4, <1>5 DEF Parts

\* A snapshot is asked for while the view stays: it comes.
LEMMA SnapshotAsked ==
  ASSUME TypeOK, NEW s \in Seq(Messages), NEW pending \in Seq(Calls),
         Invoke("snapshot", pending, s), UNCHANGED revision,
         InOrder(s, revision), LastIsUp(s), NoOwner(s) => shown' <= revision
  PROVE  Parts'
<1>1. Alike(s, inbox') /\ Asked(calls', "snapshot")
  BY InvokeKeeps DEF Kinds
<1>2. InOrder(inbox', revision) /\ LastIsUp(inbox') /\ (NoOwner(inbox') <=> NoOwner(s))
  BY <1>1, AlikeKeeps
<1>3. SnapshotComes(calls', inbox', shown', revision')
  BY <1>1 DEF SnapshotComes
<1>4. CopyInv' /\ RangeInv'
  BY <1>3 DEF CopyInv, RangeInv
<1> QED
  BY <1>2, <1>4 DEF Parts

LEMMA OwnerNews ==
  ASSUME TypeOK, Parts, OwnerChanged
  PROVE  Parts'
<1> DEFINE pending == Expire(calls, Kinds)
           s == Tail(inbox)
           incoming == Expire(s, Kinds)
<1>0. calls \in Seq(Calls) /\ inbox \in Seq(Messages) /\ revision \in Nat
  BY QueuesTyped
<1>1. /\ inbox # <<>> /\ Head(inbox).kind = "owner" /\ shown' = 0
      /\ \/ Head(inbox).up /\ Invoke("snapshot", pending, incoming)
         \/ ~Head(inbox).up /\ calls' = pending /\ inbox' = incoming
      /\ revision' = revision
  BY DEF OwnerChanged, Received, storeVars, memory
<1>2. s \in Seq(Messages) /\ InOrder(s, revision) /\ LastIsUp(s)
  BY <1>0, <1>1, TailFacts, TailKeeps DEF Parts
<1>3. Kinds \in SUBSET Kinds
  OBVIOUS
<1> HIDE DEF s
<1>4. pending \in Seq(Calls) /\ incoming \in Seq(Messages) /\ Alike(s, incoming)
  BY <1>0, <1>2, <1>3, ExpireType, ExpireAlike
<1> HIDE DEF pending, incoming
<1>5. InOrder(incoming, revision) /\ LastIsUp(incoming) /\ (NoOwner(incoming) <=> NoOwner(s))
  BY <1>2, <1>4, AlikeKeeps
<1>6. CASE Invoke("snapshot", pending, incoming)
  <2>1. shown' <= revision
    BY <1>0, <1>1
  <2> QED
    BY <1>1, <1>4, <1>5, <1>6, <2>1, SnapshotAsked
<1>7. CASE ~Head(inbox).up /\ inbox' = incoming
  <2>1. inbox[1].kind = "owner" /\ ~inbox[1].up /\ 1 \in DOMAIN inbox
    BY <1>0, <1>1, <1>7, TailFacts
  <2>2. PICK j \in DOMAIN inbox : 1 < j /\ inbox[j].kind = "owner"
    BY <2>1 DEF Parts, LastIsUp
  <2>3. j # 1
    BY <2>2
  <2>4. j - 1 \in DOMAIN s /\ s[j - 1] = inbox[j]
    BY <1>0, <1>1, <2>3, TailFacts DEF s
  <2>5. ~NoOwner(incoming)
    BY <1>5, <2>2, <2>4 DEF NoOwner
  <2> QED
    BY <1>1, <1>5, <1>7, <2>5 DEF Parts
<1> QED
  BY <1>1, <1>6, <1>7

LEMMA ChangedNews ==
  ASSUME TypeOK, Parts, RemoteChanged
  PROVE  Parts'
<1> DEFINE m == Head(inbox)
           s == Tail(inbox)
<1>0. calls \in Seq(Calls) /\ inbox \in Seq(Messages) /\ revision \in Nat /\ shown \in Nat
  BY QueuesTyped
<1>1. /\ inbox # <<>> /\ m.kind = "changed"
      /\ \/ m.revision > shown /\ Invoke("snapshot", calls, s)
         \/ ~(m.revision > shown) /\ inbox' = s /\ UNCHANGED calls
      /\ UNCHANGED <<revision, shown, ready, range, occurrences, missed>>
  BY DEF RemoteChanged, Received, storeVars, memory, clientVars, view
<1>2. CASE Invoke("snapshot", calls, s)
  <2>1. s \in Seq(Messages) /\ InOrder(s, revision) /\ LastIsUp(s)
        /\ (NoOwner(s) <=> NoOwner(inbox))
    BY <1>0, <1>1, TailFacts, TailKeeps DEF Parts
  <2>2. NoOwner(s) => shown' <= revision
    BY <1>1, <2>1 DEF Parts
  <2> HIDE DEF s
  <2> QED
    BY <1>0, <1>1, <1>2, <2>1, <2>2, SnapshotAsked
<1>3. CASE ~(m.revision > shown) /\ inbox' = s /\ UNCHANGED calls
  <2>1. ~Answers(m, "snapshot", revision) /\ ~Answers(m, "range", revision)
    BY <1>1 DEF Answers
  <2>2. m.kind = "changed" /\ m.revision = revision => shown >= revision
    BY <1>0, <1>3
  <2> QED
    BY <1>1, <1>3, <2>1, <2>2, Dropped
<1> QED
  BY <1>1, <1>2, <1>3

LEMMA StaleNews ==
  ASSUME TypeOK, Parts, StaleReply
  PROVE  Parts'
<1>1. /\ inbox # <<>> /\ Head(inbox).kind \in Kinds /\ ~Head(inbox).live
      /\ inbox' = Tail(inbox)
      /\ UNCHANGED <<calls, revision, shown, ready, range, occurrences, missed>>
  BY DEF StaleReply, Received, storeVars, memory, clientVars, view
<1>2. /\ Head(inbox).kind # "owner" /\ Head(inbox).kind # "changed"
      /\ ~Answers(Head(inbox), "snapshot", revision) /\ ~Answers(Head(inbox), "range", revision)
  BY <1>1 DEF Answers, Kinds
<1> QED
  BY <1>1, <1>2, Dropped

\* A failed snapshot or range is remembered; a failed edit is no news.
LEMMA ErrorNews ==
  ASSUME TypeOK, Parts, ErrorReply
  PROVE  Parts'
<1>0. inbox \in Seq(Messages)
  BY QueuesTyped
<1>1. /\ inbox # <<>> /\ Head(inbox).kind \in Kinds /\ inbox' = Tail(inbox)
      /\ missed' = (missed \/ Head(inbox).kind # "mutation")
      /\ UNCHANGED <<calls, revision, shown, ready, range, occurrences>>
  BY DEF ErrorReply, Received, Fail, storeVars, memory
<1>2. Head(inbox).kind # "owner" /\ Head(inbox).kind # "changed"
  BY <1>1 DEF Kinds
<1>3. CASE Head(inbox).kind = "mutation"
  <2>1. missed' = missed
    BY <1>1, <1>3 DEF TypeOK
  <2>2. ~Answers(Head(inbox), "snapshot", revision) /\ ~Answers(Head(inbox), "range", revision)
    BY <1>3 DEF Answers
  <2> QED
    BY <1>1, <1>2, <2>1, <2>2, Dropped
<1>4. CASE Head(inbox).kind # "mutation"
  <2>1. missed'
    BY <1>1, <1>4
  <2>2. InOrder(inbox', revision) /\ LastIsUp(inbox') /\ (NoOwner(inbox') <=> NoOwner(inbox))
    BY <1>0, <1>1, <1>2, TailKeeps DEF Parts
  <2> QED
    BY <1>1, <2>1, <2>2 DEF Parts
<1> QED
  BY <1>3, <1>4

\* Nothing of what the service that runs said is newer than the service, and
\* what is older than its head, or than its latest edit, is followed by more.
LEMMA HeadOfNews ==
  ASSUME NEW s \in Seq(Messages), s # <<>>, NEW rev \in Nat, NoOwner(s), InOrder(s, rev)
  PROVE  /\ Head(s).revision \in Nat /\ Head(s).revision <= rev
         /\ Head(s).revision = rev \/ Announced(Tail(s), rev)
         /\ Head(s).revision = rev => \A i \in DOMAIN Tail(s) : Tail(s)[i].revision = rev
<1>1. /\ Head(s) = s[1] /\ 1 \in DOMAIN s
      /\ \A i \in DOMAIN Tail(s) : Tail(s)[i] = s[i + 1] /\ i + 1 \in DOMAIN s
      /\ \A i \in DOMAIN s : i # 1 => i - 1 \in DOMAIN Tail(s) /\ Tail(s)[i - 1] = s[i]
  BY TailFacts
<1>2. \A i \in DOMAIN s : i \in Nat /\ i >= 1 /\ Fresh(s, i) /\ s[i].revision \in Nat
  BY QueueFacts DEF NoOwner, Fresh
<1>3. \A i \in DOMAIN s :
        /\ s[i].revision <= rev
        /\ \A j \in DOMAIN s : i <= j => s[i].revision <= s[j].revision
        /\ \/ s[i].revision = rev
           \/ \E j \in DOMAIN s : i < j /\ s[j].kind = "changed" /\ s[j].revision = rev
  BY <1>2 DEF InOrder
<1>4. Head(s).revision = rev \/ Announced(Tail(s), rev)
  <2> SUFFICES ASSUME s[1].revision # rev
               PROVE  Announced(Tail(s), rev)
    BY <1>1
  <2>1. PICK j \in DOMAIN s : 1 < j /\ s[j].kind = "changed" /\ s[j].revision = rev
    BY <1>1, <1>3
  <2>2. j # 1
    BY <2>1
  <2> QED
    BY <1>1, <2>1, <2>2 DEF Announced
<1>5. ASSUME s[1].revision = rev, NEW i \in DOMAIN s
      PROVE  s[i].revision = rev
  BY <1>1, <1>2, <1>3, <1>5
<1> QED
  BY <1>1, <1>2, <1>3, <1>4, <1>5

\* A snapshot is followed by a range, a range is as new as what precedes it
\* on the bus, an edit changes nothing that is shown.
LEMMA ReplyNews ==
  ASSUME TypeOK, Parts, Reply
  PROVE  Parts'
<1> DEFINE m == Head(inbox)
           s == Tail(inbox)
<1>0. calls \in Seq(Calls) /\ inbox \in Seq(Messages) /\ revision \in Nat /\ shown \in Nat
  BY QueuesTyped
<1>1. /\ inbox # <<>> /\ m.kind \in Kinds /\ m.live /\ m.ok
      /\ UNCHANGED <<revision, range>>
  BY DEF Reply, Received, storeVars, memory
<1>2. m.kind # "owner" /\ m.kind # "changed" /\ m.kind \in {"snapshot", "range", "mutation"}
  BY <1>1 DEF Kinds
<1>3. /\ s \in Seq(Messages) /\ InOrder(s, revision) /\ LastIsUp(s)
      /\ NoOwner(s) <=> NoOwner(inbox)
      /\ NoOldRange(inbox, revision) => NoOldRange(s, revision)
      /\ Announced(inbox, revision) => Announced(s, revision)
      /\ \A k : ~Answers(m, k, revision) => (Answered(inbox, k, revision) => Answered(s, k, revision))
  BY <1>0, <1>1, <1>2, TailFacts, TailKeeps DEF Parts
<1>4. ASSUME NoOwner(inbox)
      PROVE  /\ m.revision \in Nat /\ m.revision <= revision
             /\ m.revision = revision \/ Announced(s, revision)
             /\ m.revision = revision => \A i \in DOMAIN s : s[i].revision = revision
  BY <1>0, <1>1, <1>4, HeadOfNews DEF Parts
<1>5. CASE m.kind = "snapshot"
  <2>1. /\ ready' = TRUE /\ shown' = m.revision /\ missed' = FALSE /\ UNCHANGED occurrences
        /\ \/ range = None /\ inbox' = s /\ UNCHANGED calls
           \/ range # None /\ Invoke("range", calls, s)
    BY <1>5 DEF Reply
  <2>2. /\ Alike(s, inbox')
        /\ range # None => Asked(calls', "range")
    <3>1. Alike(s, s)
      BY DEF Alike
    <3>2. ASSUME Invoke("range", calls, s)
          PROVE  Alike(s, inbox') /\ Asked(calls', "range")
      BY <1>0, <1>3, <3>2, InvokeKeeps DEF Kinds
    <3> HIDE DEF s
    <3> QED
      BY <2>1, <3>1, <3>2
  <2> HIDE DEF m, s
  <2>3. /\ InOrder(inbox', revision) /\ LastIsUp(inbox') /\ (NoOwner(inbox') <=> NoOwner(inbox))
        /\ Announced(s, revision) => Announced(inbox', revision)
    BY <1>3, <2>2, AlikeKeeps
  <2>4. NoOwner(inbox') => shown' <= revision'
    BY <1>1, <1>4, <2>1, <2>3
  <2>5. NoOwner(inbox') => CopyInv'
    <3> SUFFICES ASSUME NoOwner(inbox), m.revision # revision
                 PROVE  CopyInv'
      BY <1>1, <2>1, <2>3 DEF CopyInv
    <3>1. Announced(inbox', revision)
      BY <1>4, <2>3
    <3>2. shown' < revision
      BY <1>0, <1>4, <2>1
    <3> QED
      BY <1>1, <3>1, <3>2 DEF CopyInv, SnapshotComes
  <2>6. RangeInv'
    BY <1>1, <2>2 DEF RangeInv, RangeComes
  <2> QED
    BY <1>1, <2>3, <2>4, <2>5, <2>6 DEF Parts
<1>6. CASE m.kind = "range"
  <2>1. /\ occurrences' = [range |-> range, revision |-> m.revision] /\ inbox' = s
        /\ UNCHANGED <<calls, ready, shown, missed>>
    BY <1>6 DEF Reply
  <2>2. ~Answers(m, "snapshot", revision)
    BY <1>6 DEF Answers
  <2>3. Answers(m, "range", revision) <=> m.revision = revision
    BY <1>1, <1>6 DEF Answers
  <2>4. ASSUME m.revision = revision, NoOwner(inbox)
        PROVE  NoOldRange(s, revision)
    BY <1>4, <2>4 DEF NoOldRange, Answers
  <2>5. NoOldRange(inbox, revision) => m.revision = revision
    <3>1. 1 \in DOMAIN inbox /\ inbox[1] = m
      BY <1>0, <1>1, TailFacts
    <3> HIDE DEF m
    <3> QED
      BY <1>1, <1>6, <2>3, <3>1 DEF NoOldRange
  <2> HIDE DEF m, s
  <2>6. SnapshotComes(calls, inbox, shown, revision) => SnapshotComes(calls', inbox', shown', revision')
    BY <1>1, <1>3, <2>1, <2>2 DEF SnapshotComes
  <2>7. CopyInv => CopyInv'
    BY <1>1, <2>1, <2>6 DEF CopyInv
  <2>8. NoOwner(inbox) /\ RangeInv => RangeInv'
    <3>1. CASE m.revision = revision
      BY <1>1, <2>1, <2>4, <3>1 DEF RangeInv
    <3>2. CASE m.revision # revision
      <4>1. Answered(inbox, "range", revision) => Answered(inbox', "range", revision)
        BY <1>3, <2>1, <2>3, <3>2
      <4> QED
        BY <1>1, <2>1, <2>5, <2>6, <3>2, <4>1 DEF RangeInv, RangeComes
    <3> QED
      BY <3>1, <3>2
  <2> QED
    BY <1>1, <1>3, <2>1, <2>7, <2>8 DEF Parts
<1>7. CASE m.kind = "mutation"
  <2>1. inbox' = s /\ UNCHANGED <<calls, ready, shown, missed, occurrences>>
    BY <1>7 DEF Reply
  <2>2. ~Answers(m, "snapshot", revision) /\ ~Answers(m, "range", revision)
    BY <1>7 DEF Answers
  <2> QED
    BY <1>1, <1>2, <2>1, <2>2, Dropped
<1> QED
  BY <1>2, <1>5, <1>6, <1>7

\* An answer is as new as the service.
LEMMA QueryNews ==
  ASSUME TypeOK, Parts, AnswerQuery
  PROVE  Parts'
<1> DEFINE c == Head(calls)
           m == [kind |-> c.kind, live |-> c.live, ok |-> TRUE, revision |-> revision]
<1>0. calls \in Seq(Calls) /\ inbox \in Seq(Messages) /\ revision \in Nat
      /\ revision \in 0 .. MaxEdits
  BY QueuesTyped
<1>1. /\ calls # <<>> /\ calls' = Tail(calls) /\ inbox' = Append(inbox, m)
      /\ UNCHANGED <<revision, shown, ready, range, occurrences, missed>>
  <2>1. revision' = revision
    BY DEF AnswerQuery, storeVars, memory
  <2>2. ReplyTo(Head(calls), TRUE) = m
    BY <2>1 DEF ReplyTo
  <2> HIDE DEF m
  <2> QED
    BY <2>1, <2>2 DEF AnswerQuery, clientVars, view
<1>2. c.kind \in Kinds /\ c.live \in BOOLEAN /\ m \in Messages
  <2>1. c \in Calls
    BY <1>0, <1>1
  <2> QED
    BY <1>0, <2>1 DEF Calls, Messages
<1>3. /\ m.kind = c.kind /\ m.kind # "owner" /\ m.revision = revision
      /\ \A k : c.kind = k /\ c.live => Answers(m, k, revision)
      /\ m.kind = "range" /\ m.live => Answers(m, "range", revision)
  BY <1>2 DEF Answers, Kinds
<1>4. \A k : Asked(calls, k) => Asked(Tail(calls), k) \/ (c.kind = k /\ c.live)
  <2> SUFFICES ASSUME NEW k, NEW n \in DOMAIN calls, calls[n].kind = k, calls[n].live
               PROVE  Asked(Tail(calls), k) \/ (c.kind = k /\ c.live)
    BY DEF Asked
  <2>1. CASE n = 1
    BY <1>0, <1>1, <2>1
  <2>2. CASE n # 1
    <3>1. n - 1 \in DOMAIN Tail(calls) /\ Tail(calls)[n - 1] = calls[n]
      BY <1>0, <1>1, <2>2
    <3> QED
      BY <3>1 DEF Asked
  <2> QED
    BY <2>1, <2>2
<1> HIDE DEF c, m
<1>5. /\ NoOwner(inbox') <=> NoOwner(inbox)
      /\ Announced(inbox, revision) => Announced(inbox', revision)
      /\ \A k : Answered(inbox, k, revision) \/ Answers(m, k, revision) => Answered(inbox', k, revision)
      /\ NoOldRange(inbox, revision) => NoOldRange(inbox', revision)
      /\ LastIsUp(inbox) => LastIsUp(inbox')
  BY <1>0, <1>1, <1>2, <1>3, AppendKeeps
<1>6. InOrder(inbox, revision) => InOrder(inbox', revision)
  BY <1>0, <1>1, <1>2, <1>3, AppendInOrder
<1>7. \A k : Asked(calls, k) \/ Answered(inbox, k, revision) =>
              Asked(calls', k) \/ Answered(inbox', k, revision)
  BY <1>1, <1>3, <1>4, <1>5
<1>8. SnapshotComes(calls, inbox, shown, revision) => SnapshotComes(calls', inbox', shown', revision')
  BY <1>1, <1>5, <1>7 DEF SnapshotComes
<1>9. CopyInv => CopyInv'
  BY <1>1, <1>8 DEF CopyInv
<1>10. RangeInv => RangeInv'
  BY <1>1, <1>5, <1>7, <1>8 DEF RangeInv, RangeComes
<1> QED
  BY <1>1, <1>5, <1>6, <1>9, <1>10 DEF Parts

\* The signal of an edit is news for both.
LEMMA EditNews ==
  ASSUME TypeOK, TypeOK', Parts, AnswerEdit \/ (OtherEdit /\ open)
  PROVE  Parts'
<1> DEFINE n == [kind |-> "changed", revision |-> revision + 1]
           s == Append(inbox, n)
<1>0. calls \in Seq(Calls) /\ inbox \in Seq(Messages) /\ revision \in Nat /\ shown \in Nat
  BY QueuesTyped
<1>1. /\ revision' = revision + 1 /\ UNCHANGED <<shown, missed>>
      /\ \/ inbox' = s
         \/ calls # <<>> /\ inbox' = inbox \o <<n, ReplyTo(Head(calls), TRUE)>>
  <2>1. PlainEdit /\ UNCHANGED <<shown, missed>>
        /\ \/ inbox' = Append(inbox, Changed)
           \/ calls # <<>> /\ inbox' = inbox \o <<Changed, ReplyTo(Head(calls), TRUE)>>
    BY DEF AnswerEdit, OtherEdit, clientVars, view
  <2>2. revision' = revision + 1
    BY <2>1 DEF PlainEdit, UpdateList, Accept
  <2>3. Changed = n
    BY <2>2 DEF Changed
  <2> HIDE DEF n
  <2> QED
    BY <2>1, <2>2, <2>3
<1>2. revision' \in 0 .. MaxEdits
  BY DEF TypeOK, StoreTypeOK
<1>3. n \in Messages /\ n.kind = "changed" /\ n.revision = revision'
  BY <1>1, <1>2 DEF Messages
<1> HIDE DEF n
<1>4. s \in Seq(Messages) /\ (NoOwner(s) <=> NoOwner(inbox))
  BY <1>0, <1>3, AppendFacts, AppendKeeps
<1>5. LastIsUp(s) /\ InOrder(s, revision') /\ Announced(s, revision')
  <2>1. LastIsUp(s)
    BY <1>0, <1>3, AppendKeeps DEF Parts
  <2>2. InOrder(s, n.revision)
    BY <1>0, <1>1, <1>3, AppendInOrder DEF Parts
  <2>3. Announced(s, revision')
    BY <1>0, <1>3, AppendFacts DEF Announced
  <2> QED
    BY <1>3, <2>1, <2>2, <2>3
<1>6. /\ LastIsUp(inbox') /\ InOrder(inbox', revision') /\ Announced(inbox', revision')
      /\ NoOwner(inbox') <=> NoOwner(inbox)
  <2>1. CASE inbox' = s
    <3> HIDE DEF s
    <3> QED
      BY <1>4, <1>5, <2>1
  <2>2. CASE calls # <<>> /\ inbox' = inbox \o <<n, ReplyTo(Head(calls), TRUE)>>
    <3> DEFINE m == ReplyTo(Head(calls), TRUE)
    <3>1. Head(calls) \in Calls
      BY <1>0, <2>2
    <3>2. m \in Messages /\ m.kind \in Kinds /\ m.revision = revision'
      BY <1>2, <3>1 DEF ReplyTo, Messages, Calls
    <3>3. m.kind # "owner"
      BY <3>2 DEF Kinds
    <3> HIDE DEF m
    <3>4. inbox' = Append(s, m)
      <4>1. inbox' = inbox \o <<n, m>>
        BY <2>2 DEF m
      <4> QED
        BY <1>0, <1>3, <3>2, <4>1, TwoAppended
    <3>5. revision' \in Nat
      BY <1>2
    <3> HIDE DEF s
    <3>6. LastIsUp(inbox') /\ Announced(inbox', revision') /\ (NoOwner(inbox') <=> NoOwner(s))
      BY <1>4, <1>5, <3>2, <3>3, <3>4, AppendKeeps
    <3>7. InOrder(Append(s, m), m.revision)
      <4> DEFINE r == revision'
      <4>1. r \in Nat /\ InOrder(s, r) /\ m.revision = r
        BY <1>5, <3>2, <3>5
      <4> HIDE DEF r
      <4> QED
        BY <1>4, <3>2, <3>3, <4>1, AppendInOrder
    <3> QED
      BY <1>4, <3>2, <3>4, <3>6, <3>7
  <2> QED
    BY <1>1, <2>1, <2>2
<1>7. NoOwner(inbox') => shown' < revision' /\ shown' <= revision'
  BY <1>0, <1>1, <1>6 DEF Parts
<1>8. NoOwner(inbox') => SnapshotComes(calls', inbox', shown', revision')
  BY <1>6, <1>7 DEF SnapshotComes
<1>9. NoOwner(inbox') => CopyInv' /\ RangeInv'
  BY <1>8 DEF CopyInv, RangeInv
<1> QED
  BY <1>6, <1>7, <1>9 DEF Parts

\* A service that starts is news; nothing it said precedes that.
LEMMA StartNews ==
  ASSUME TypeOK, inbox' = Append(inbox, [kind |-> "owner", up |-> TRUE])
  PROVE  Parts'
<1> DEFINE m == [kind |-> "owner", up |-> TRUE]
<1>0. inbox \in Seq(Messages) /\ m \in Messages /\ m.kind = "owner" /\ m.up
  BY QueuesTyped DEF Messages
<1> HIDE DEF m
<1>1. /\ Len(inbox) + 1 \in DOMAIN inbox' /\ inbox'[Len(inbox) + 1] = m
      /\ \A i \in DOMAIN inbox : inbox'[i] = inbox[i] /\ i < Len(inbox) + 1
      /\ \A i \in DOMAIN inbox' : i = Len(inbox) + 1 \/ i \in DOMAIN inbox
      /\ Len(inbox) \in Nat
  <2>1. inbox' = Append(inbox, m)
    BY DEF m
  <2> QED
    BY <1>0, <2>1, AppendFacts
<1>2. \A i \in DOMAIN inbox' : i <= Len(inbox) + 1
  BY <1>1
<1>3. InOrder(inbox', revision')
  BY <1>0, <1>1, <1>2 DEF InOrder, Fresh
<1>4. LastIsUp(inbox')
  BY <1>0, <1>1 DEF LastIsUp
<1>5. ~NoOwner(inbox')
  BY <1>0, <1>1 DEF NoOwner
<1> QED
  BY <1>3, <1>4, <1>5 DEF Parts

\* What the service does for itself.
LEMMA ProcessNews ==
  ASSUME TypeOK, NewsInv, Announce, UNCHANGED clientVars,
         phase # "down" /\ phase' # "down" => revision' = revision
  PROVE  NewsInv'
<1> SUFFICES ASSUME open', phase' # "down"
             PROVE  Parts'
  BY DEF NewsInv, Parts
<1>1. open /\ UNCHANGED <<shown, ready, range, occurrences, missed>>
  BY DEF clientVars, view
<1>2. CASE phase = "down"
  <2>1. inbox' = Append(inbox, [kind |-> "owner", up |-> TRUE])
    BY <1>1, <1>2 DEF Announce
  <2> QED
    BY <2>1, StartNews
<1>3. CASE phase # "down"
  <2>1. UNCHANGED <<calls, inbox, revision>>
    BY <1>1, <1>3 DEF Announce, busVars
  <2>2. Parts
    BY <1>1, <1>3 DEF NewsInv, Parts
  <2> QED
    BY <1>1, <2>1, <2>2 DEF Parts, CopyInv, RangeInv
<1> QED
  BY <1>2, <1>3

\* A question that is given up is remembered.
LEMMA TimeoutNews ==
  ASSUME TypeOK, Parts, NEW n \in DOMAIN calls, Timeout(n)
  PROVE  Parts'
<1>0. calls \in Seq(Calls)
  BY QueuesTyped
<1>1. /\ calls' = [calls EXCEPT ![n].live = FALSE]
      /\ missed' = (missed \/ calls[n].kind # "mutation")
      /\ UNCHANGED <<inbox, revision, open, ready, shown, range, occurrences>>
  BY DEF Timeout, Fail, memory
<1>2. CASE calls[n].kind # "mutation"
  BY <1>1, <1>2 DEF Parts
<1>3. CASE calls[n].kind = "mutation"
  <2>1. missed' = missed
    BY <1>1, <1>3 DEF TypeOK
  <2>2. DOMAIN calls' = DOMAIN calls /\ \A i \in DOMAIN calls : i # n => calls'[i] = calls[i]
    BY <1>0, <1>1
  <2>3. \A k : k # "mutation" => (Asked(calls, k) => Asked(calls', k))
    BY <1>3, <2>2 DEF Asked
  <2>4. SnapshotComes(calls, inbox, shown, revision) => SnapshotComes(calls', inbox', shown', revision')
    BY <1>1, <2>3 DEF SnapshotComes
  <2>5. RangeComes(calls, inbox, revision) => RangeComes(calls', inbox', revision')
    BY <1>1, <2>3 DEF RangeComes
  <2>6. (CopyInv => CopyInv') /\ (RangeInv => RangeInv')
    BY <1>1, <2>4, <2>5 DEF CopyInv, RangeInv
  <2> QED
    BY <1>1, <2>1, <2>6 DEF Parts
<1> QED
  BY <1>2, <1>3

\* While the process stays, its own steps leave the revision.
LEMMA OwnSteps ==
  ASSUME Crash \/ Damage \/ Save \/ WidgetTick \/ Quit \/ Start
  PROVE  phase # "down" /\ phase' # "down" => revision' = revision
BY DEF Crash, Damage, Save, TimerFires, WriteCalendar, WriteMetadata, WriteWidget, WriteFails,
       WidgetTick, Quit, Start, Stopped, memory

LEMMA NextNews ==
  ASSUME TypeOK, TypeOK', NewsInv, [Next]_vars
  PROVE  NewsInv'
<1>1. CASE User \/ Client \/ \E n \in DOMAIN calls : Timeout(n)
  <2>1. UNCHANGED <<open, phase>>
    BY <1>1 DEF User, Client, RequestEdit, SetEventRange, OwnerChanged, RemoteChanged, StaleReply,
                ErrorReply, Reply, Timeout, Fail, vars, storeVars, saving, clientVars
  <2> SUFFICES ASSUME open, phase # "down"
               PROVE  Parts'
    BY <2>1 DEF NewsInv, Parts
  <2>2. Parts
    BY DEF NewsInv, Parts
  <2> QED
    BY <1>1, <2>2, UserNews, OwnerNews, ChangedNews, StaleNews, ErrorNews, ReplyNews, TimeoutNews
    DEF Client, Running
<1>2. CASE Answer \/ OtherEdit
  <2>1. open' = open
    BY <1>2 DEF Answer, AnswerQuery, AnswerEdit, OtherEdit, clientVars
  <2> SUFFICES ASSUME open
               PROVE  Parts'
    BY <2>1 DEF NewsInv, Parts
  <2>2. phase # "down"
    BY <1>2 DEF Answer, AnswerQuery, AnswerEdit, OtherEdit, PlainEdit, UpdateList, Accept
  <2>3. Parts
    BY <2>2 DEF NewsInv, Parts
  <2> QED
    BY <1>2, <2>3, QueryNews, EditNews DEF Answer
<1>3. CASE Announce /\ UNCHANGED clientVars /\ (Crash \/ Damage \/ Save \/ WidgetTick \/ Quit \/ Start)
  BY <1>3, OwnSteps, ProcessNews
<1>4. CASE UNCHANGED vars
  BY <1>4 DEF vars, storeVars, memory, saving, busVars, clientVars, view, NewsInv, CopyInv, RangeInv
<1> QED
  BY <1>1, <1>2, <1>3, <1>4 DEF Next, Failing, Process

\* "onRemoteChanged() already fetches the new snapshot" (PimClient.cpp 321):
\* an open application whose copy differs from the service that runs, and
\* whose last question did not fail, has an answer, a signal or a change of
\* the owner on the bus that it will act on, or a question on its way.  It is
\* what ClientCatchesUp rests on: no crossing of replies, signals, restarts
\* and ranges leaves the client behind with nothing under way.
THEOREM NeverBehindInSilence == Spec => []NeverSilentlyBehind
<1>1. Init => NewsInv
  BY DEF Init, StoreInit, NewsInv
<1>2. TypeOK /\ NewsInv => NeverSilentlyBehind
  <2> SUFFICES ASSUME TypeOK, NewsInv, open, phase # "down", ~missed, ~News
               PROVE  Current
    BY DEF NeverSilentlyBehind
  <2>1. NoOwner(inbox)
    BY DEF News, NoOwner
  <2>2. CopyInv /\ RangeInv /\ InOrder(inbox, revision)
    BY <2>1 DEF NewsInv
  <2>3. ~Asked(calls, "snapshot") /\ ~Asked(calls, "range")
    BY DEF News, Asked
  <2>4. ~Answered(inbox, "snapshot", revision) /\ ~Answered(inbox, "range", revision)
    BY DEF News, Answered, Answers
  <2>5. ~(shown < revision /\ Announced(inbox, revision))
    BY QueuesTyped DEF News, Announced
  <2>6. ~SnapshotComes(calls, inbox, shown, revision) /\ ~RangeComes(calls, inbox, revision)
    BY <2>3, <2>4, <2>5 DEF SnapshotComes, RangeComes
  <2> QED
    BY <2>2, <2>6 DEF CopyInv, RangeInv, Current
<1>3. TypeOK /\ TypeOK' /\ NewsInv /\ [Next]_vars => NewsInv'
  BY NextNews
<1> QED
  BY <1>1, <1>2, <1>3, TypeCorrect, PTL DEF Spec
=============================================================================
