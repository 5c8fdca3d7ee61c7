--------------------------- MODULE ActivityLedger ---------------------------
(***************************************************************************)
(* The uptime ledger and the app usage of kos-data-service (activity.go):  *)
(* settle() credits the time since the last call, rollDay() keeps the      *)
(* per-day views bounded, and a background goroutine folds the boots that  *)
(* journald remembers into the ledger, once.                               *)
(*                                                                         *)
(* Go compares two time.Now() by the monotonic clock, which stands still   *)
(* while the machine sleeps, and their calendar days by the wall clock.    *)
(***************************************************************************)
EXTENDS Integers, FiniteSets, Sequences

CONSTANTS
  Apps, NoApp,
  DayLength,    \* wall-clock units of a day
  MaxGap,       \* settle credits shorter gaps only (120 s)
  UptimeLimit,  \* days the ledger keeps (90)
  Installed,    \* wall clock when the service first starts
  PastBoots,    \* <<from, to>> of the boots before, newest first
  BootLimit,    \* of which the newest are folded (84)
  SleepLength,  \* wall-clock units of a suspend
  MaxWall, MaxSleeps, MaxRestarts  \* bounds

ASSUME AppAssumption   == NoApp \notin Apps /\ IsFiniteSet(Apps)
ASSUME TimeAssumption  == /\ DayLength \in Nat \ {0} /\ MaxGap \in Nat \ {0}
                          /\ UptimeLimit \in Nat \ {0} /\ BootLimit \in Nat
                          /\ Installed \in 0..MaxWall /\ SleepLength \in Nat
                          /\ MaxWall \in Nat
\* One boot ends before the next one starts.
ASSUME BootAssumption  ==
  /\ PastBoots \in Seq((0..Installed) \X (0..Installed))
  /\ \A m, n \in DOMAIN PastBoots : m < n => PastBoots[n][2] <= PastBoots[m][1]
ASSUME BoundAssumption == MaxSleeps \in Nat /\ MaxRestarts \in Nat

VARIABLES
  wall,       \* the wall clock
  lastWall,   \* s.last by the wall clock
  since,      \* monotonic time since s.last
  uptime,     \* UptimeByDay; 0 where the map has no key
  apps,       \* TodayApps, its seconds; rows without a second are left out
  appsDay,    \* TodayAppsDay
  active,     \* ActiveApp
  seeded,     \* JournalSeeded
  saved,      \* state.json
  seeding,    \* goroutine seedJournalHistory: "start", "fold" or "off"
  boots,      \* boots it has yet to fold
  journal,    \* past boots in journald, newest first
  bootedAt,
  exposed,    \* history: what state.json, saved without the marker, holds
              \* of the journal: "past boots", or only "this boot"
  again,      \* history: a service began with it and with a journal that has it
  misread,    \* history: a boot was credited from 1970 on
  sleeps, restarts

ledger == <<uptime, apps, appsDay, active>>
clock  == <<wall, lastWall, since>>
seed   == <<seeded, seeding, boots>>
history == <<exposed, again, misread>>
machine == <<journal, bootedAt, sleeps, restarts>>
vars == <<clock, ledger, saved, seed, history, machine>>

Days == 0..(MaxWall \div DayLength)
Day(t) == t \div DayLength
State == [uptime : [Days -> Nat], apps : [Apps -> Nat], appsDay : Days,
          active : Apps \cup {NoApp}, seeded : BOOLEAN]

TypeOK ==
  /\ wall \in 0..MaxWall /\ lastWall \in 0..MaxWall /\ since \in Nat
  /\ [uptime |-> uptime, apps |-> apps, appsDay |-> appsDay,
      active |-> active, seeded |-> seeded] \in State
  /\ saved \in State
  /\ seeding \in {"start", "fold", "off"}
  /\ boots \in Seq((0..MaxWall) \X (0..MaxWall))
  /\ journal \in Seq((0..MaxWall) \X (0..MaxWall)) /\ bootedAt \in 0..MaxWall
  /\ exposed \in {"nothing", "this boot", "past boots"}
  /\ again \in BOOLEAN /\ misread \in BOOLEAN /\ sleeps \in Nat /\ restarts \in Nat

Idle == [a \in Apps |-> 0]

Init ==
  /\ wall = Installed /\ lastWall = Installed /\ since = 0
  /\ uptime = [d \in Days |-> 0]
  /\ apps = Idle /\ appsDay = Day(Installed) /\ active = NoApp
  /\ seeded = FALSE /\ seeding = "start" /\ boots = <<>>
  /\ saved = [uptime |-> uptime, apps |-> apps, appsDay |-> 0,
              active |-> active, seeded |-> seeded]
  /\ journal = PastBoots /\ bootedAt = Installed
  /\ exposed = "nothing" /\ again = FALSE /\ misread = FALSE
  /\ sleeps = 0 /\ restarts = 0

-----------------------------------------------------------------------------
(* The pure steps.                                                         *)

\* addInterval, split at midnight.
Credited(u, from, to) ==
  [d \in Days |-> u[d] + Cardinality({t \in from..(to - 1) : Day(t) = d})]

Recorded(u) == {d \in Days : u[d] > 0}

\* rollDay on the ledger: the newest UptimeLimit days stay.
Trimmed(u) ==
  [d \in Days |->
     IF Cardinality({e \in Recorded(u) : e > d}) < UptimeLimit THEN u[d] ELSE 0]

\* Faulty variant: yesterday's rows are carried forward.
TodayRowsKept(a, aDay, today) == a

\* rollDay on the rows: they are those of one day.
TodayRows(a, aDay, today) == IF aDay = today THEN a ELSE Idle

-----------------------------------------------------------------------------
(* The service.                                                            *)

\* Faulty variant: no check that an app is in the foreground.
SettleAnyApp ==
  LET today == Day(wall)
      rows == TodayRows(apps, appsDay, today)
  IN  /\ appsDay' = today
      /\ IF since \in 1..(MaxGap - 1)
         THEN /\ uptime' = Credited(Trimmed(uptime), lastWall, wall)
              /\ apps' = [a \in Apps \cup {active} |->
                   (IF a \in Apps THEN rows[a] ELSE 0) + (IF a = active THEN since ELSE 0)]
         ELSE uptime' = Trimmed(uptime) /\ apps' = rows
      /\ lastWall' = wall /\ since' = 0

\* settle: roll the day, credit a short gap, remember when.
Settle ==
  LET today == Day(wall)
      rows == TodayRows(apps, appsDay, today)
  IN  /\ appsDay' = today
      /\ IF since \in 1..(MaxGap - 1)
         THEN /\ uptime' = Credited(Trimmed(uptime), lastWall, wall)
              /\ apps' = [a \in Apps |-> rows[a] + (IF a = active THEN since ELSE 0)]
         ELSE uptime' = Trimmed(uptime) /\ apps' = rows
      /\ lastWall' = wall /\ since' = 0

\* The one-second ticker.
SettleTick ==
  /\ Settle
  /\ UNCHANGED <<wall, active, saved, seed, history, machine>>

\* activity.active-app.
ActiveApp(a) ==
  /\ Settle
  /\ active' = a
  /\ UNCHANGED <<wall, saved, seed, history, machine>>

\* The boots that seeding reads: the newest ones.
Listed == SubSeq(journal, 1, IF Len(journal) < BootLimit THEN Len(journal) ELSE BootLimit)

\* persist() settles first; see Persistence for what follows.
Persist ==
  /\ Settle
  /\ saved' = [uptime |-> uptime', apps |-> apps', appsDay |-> appsDay',
               active |-> active, seeded |-> seeded]
  /\ exposed' = IF seeded THEN "nothing"
                ELSE IF seeding = "fold" /\ boots # Listed THEN "past boots" ELSE "this boot"
  /\ UNCHANGED <<wall, active, seed, again, misread, machine>>

\* Faulty variant: the marker is not looked at.
SeedAlways ==
  /\ seeding = "start"
  /\ \/ boots' = Listed /\ seeding' = "fold"
     \/ boots' = <<>> /\ seeding' = "off"
  /\ UNCHANGED <<clock, ledger, saved, seeded, history, machine>>

\* seedJournalHistory: already done, or journalctl failed, or boots listed.
SeedStart ==
  /\ seeding = "start"
  /\ \/ ~seeded /\ boots' = Listed /\ seeding' = "fold"
     \/ boots' = <<>> /\ seeding' = "off"
  /\ UNCHANGED <<clock, ledger, saved, seeded, history, machine>>

\* One boot: its last entry may be unreadable, or its first one only, which
\* then counts as written at time 0, in 1970.
SeedBoot ==
  /\ seeding = "fold" /\ boots # <<>>
  /\ LET first == Head(boots)[1]
         last  == Head(boots)[2]
     IN  \/ UNCHANGED <<uptime, misread>>
         \/ uptime' = Credited(uptime, first, last) /\ misread' = misread
         \/ uptime' = Credited(uptime, 0, last) /\ misread' = TRUE
  /\ boots' = Tail(boots)
  /\ UNCHANGED <<clock, apps, appsDay, active, saved, seeded, seeding, exposed, again, machine>>

SeedEnd ==
  /\ seeding = "fold" /\ boots = <<>>
  /\ seeded' = TRUE /\ seeding' = "off"
  /\ UNCHANGED <<clock, ledger, saved, boots, history, machine>>

\* newService: load, roll the day, remember the time.
Load(now) ==
  /\ wall' = now /\ lastWall' = now /\ since' = 0
  /\ uptime' = Trimmed(saved.uptime)
  /\ apps' = TodayRows(saved.apps, saved.appsDay, Day(now)) /\ appsDay' = Day(now)
  /\ active' = saved.active
  /\ seeded' = saved.seeded /\ seeding' = "start" /\ boots' = <<>>

Restart ==
  /\ restarts < MaxRestarts /\ restarts' = restarts + 1
  /\ Load(wall)
  /\ again' = (again \/ exposed = "past boots")
  /\ UNCHANGED <<saved, exposed, misread, journal, bootedAt, sleeps>>

-----------------------------------------------------------------------------
(* The machine.                                                            *)

Tick ==
  /\ wall < MaxWall
  /\ wall' = wall + 1 /\ since' = since + 1
  /\ UNCHANGED <<lastWall, ledger, saved, seed, history, machine>>

\* Suspend and resume, or a time synchronization.
Sleep ==
  /\ sleeps < MaxSleeps /\ wall + SleepLength <= MaxWall
  /\ sleeps' = sleeps + 1
  /\ wall' = wall + SleepLength
  /\ UNCHANGED <<lastWall, since, ledger, saved, seed, history, journal, bootedAt, restarts>>

\* The boot ends, and becomes the newest in the journal; the next one is
\* under way a unit later.
Reboot ==
  /\ restarts < MaxRestarts /\ restarts' = restarts + 1 /\ wall < MaxWall
  /\ again' = (again \/ exposed # "nothing") /\ exposed' = "nothing"
  /\ journal' = <<<<bootedAt, wall>>>> \o journal
  /\ bootedAt' = wall + 1
  /\ Load(wall + 1)
  /\ UNCHANGED <<saved, misread, sleeps>>

Next ==
  \/ SettleTick \/ Persist \/ \E a \in Apps \cup {NoApp} : ActiveApp(a)
  \/ SeedStart \/ SeedBoot \/ SeedEnd
  \/ Tick \/ Sleep \/ Restart \/ Reboot

Spec == Init /\ [][Next]_vars

-----------------------------------------------------------------------------
(* Properties.                                                             *)

\* "so seeding never runs twice" (types.go 57): no day is credited with more
\* time than it has, neither by a second reading of the journal nor by the
\* journal of a boot that settle() credits too.  The code has three ways out:
\* a service begins with a ledger that was saved in the middle of the folding
\* (a crash before the marker is saved), or after a reboot with one that was
\* saved before the marker; or a boot's first entry cannot be read.
DayHoldsADay == ~again /\ ~misread => \A d \in Days : uptime[d] <= DayLength

\* The seconds of the rows, each of them one element.
Seconds(rows) == UNION {{a} \X (1..rows[a]) : a \in Apps}

\* "TodayApps is a per-day view": the seconds of its rows are seconds of
\* uptime of that day, but for the one gap that midnight cut in two.
AppsWithinUptime ==
  Cardinality(Seconds(apps)) <= uptime[appsDay] + MaxGap - 1

\* "The sub-120s guard ignores long pauses (suspend, clock jumps)."
LongPausesIgnored ==
  [][lastWall' # lastWall /\ wall' - lastWall >= MaxGap =>
       \A d \in Days : uptime'[d] <= uptime[d]]_vars
=============================================================================
