------------------------ MODULE ActivityLedgerProofs ------------------------
(***************************************************************************)
(* For any apps, days, past boots and lengths of gaps, days and suspends:  *)
(* no day is credited with more time than it has, but for the exceptions   *)
(* that DayHoldsADay names, and the rows of a day are covered by its       *)
(* uptime.                                                                 *)
(*                                                                         *)
(* Neither is inductive.  A day holds a day because the journal's boots    *)
(* that may still be folded are set aside: the ledger, and the saved one   *)
(* where a service can begin with it, has at most the units before the     *)
(* last settle that no such boot covers.  The rows are covered because the *)
(* last settle was on their day, and since then the monotonic clock was no *)
(* faster than the wall clock.                                             *)
(***************************************************************************)
EXTENDS ActivityLedger, FiniteSetTheorems, SequenceTheorems, WellFoundedInduction, TLAPS

-----------------------------------------------------------------------------
(* Lemmas about days and the units of time in them.                        *)

Units(from, to) == from..(to - 1)
OfDay(S, d) == {t \in S : Day(t) = d}

\* A day starts at a multiple of its length.
LEMMA DayStarts ==
  ASSUME NEW t \in Nat
  PROVE  Day(t) \in Nat /\ DayLength * Day(t) <= t /\ t < DayLength * Day(t) + DayLength
BY TimeAssumption DEF Day

\* Days follow each other.
LEMMA DaysFollow ==
  ASSUME NEW s \in Nat, NEW t \in Nat, s <= t
  PROVE  Day(s) <= Day(t)
BY TimeAssumption DEF Day

\* The days of the wall clock.
LEMMA DayInDays ==
  ASSUME NEW t \in 0..MaxWall
  PROVE  Day(t) \in Days /\ Day(t) \in Nat
<1>1. t \in Nat /\ MaxWall \in Nat /\ t <= MaxWall
  BY TimeAssumption
<1>2. Day(t) \in Nat /\ Day(t) <= Day(MaxWall)
  BY <1>1, DayStarts, DaysFollow
<1> QED
  BY <1>1, <1>2, DayStarts DEF Days, Day

\* FS_Interval for an interval that is not shorter than empty.
LEMMA IntervalLength ==
  ASSUME NEW a \in Int, NEW n \in Nat
  PROVE  IsFiniteSet(a..(a + n - 1)) /\ Cardinality(a..(a + n - 1)) = n
<1>1. a + n - 1 \in Int
  OBVIOUS
<1>2. /\ IsFiniteSet(a..(a + n - 1))
      /\ Cardinality(a..(a + n - 1)) = IF a > a + n - 1 THEN 0 ELSE (a + n - 1) - a + 1
  BY <1>1, FS_Interval
<1> QED
  BY <1>2

\* A set of units is finite, and so are those of one day.
LEMMA UnitsFinite ==
  ASSUME NEW a \in Int, NEW b \in Int, NEW S \in SUBSET (a..b), NEW d
  PROVE  /\ IsFiniteSet(S) /\ Cardinality(S) \in Nat
         /\ IsFiniteSet(OfDay(S, d)) /\ Cardinality(OfDay(S, d)) \in Nat
<1>1. IsFiniteSet(a..b)
  BY FS_Interval
<1>2. IsFiniteSet(S)
  BY <1>1, FS_Subset
<1>3. OfDay(S, d) \subseteq S
  BY DEF OfDay
<1>4. IsFiniteSet(OfDay(S, d))
  BY <1>2, <1>3, FS_Subset
<1> QED
  BY <1>2, <1>4, FS_CardinalityType

\* No day has more units than its length.
LEMMA DayIsShort ==
  ASSUME NEW b \in Int, NEW S \in SUBSET (0..b), NEW d \in Nat
  PROVE  Cardinality(OfDay(S, d)) <= DayLength
<1> DEFINE first == DayLength * d
           last  == first + DayLength - 1
<1>0. DayLength \in Nat /\ DayLength > 0
  BY TimeAssumption
<1>1. first \in Nat /\ last \in Int
  BY <1>0
<1>2. OfDay(S, d) \subseteq first..last
  <2> SUFFICES ASSUME NEW t \in S, Day(t) = d
               PROVE  t \in first..last
    BY DEF OfDay
  <2>1. t \in Nat
    OBVIOUS
  <2>2. DayLength * d <= t /\ t < DayLength * d + DayLength
    BY <2>1, DayStarts
  <2> QED
    BY <1>0, <1>1, <2>1, <2>2
<1>4. IsFiniteSet(first..last) /\ Cardinality(first..last) = DayLength
  BY <1>0, <1>1, IntervalLength
<1>5. Cardinality(OfDay(S, d)) <= Cardinality(first..last)
  BY <1>2, <1>4, FS_Subset
<1> QED
  BY <1>4, <1>5

\* More units are no fewer in any day.
LEMMA MoreUnits ==
  ASSUME NEW a \in Int, NEW b \in Int, NEW S \in SUBSET (a..b), NEW T \in SUBSET S, NEW d
  PROVE  Cardinality(OfDay(T, d)) <= Cardinality(OfDay(S, d))
<1>1. IsFiniteSet(OfDay(S, d))
  BY UnitsFinite
<1>2. OfDay(T, d) \subseteq OfDay(S, d)
  BY DEF OfDay
<1> QED
  BY <1>1, <1>2, FS_Subset

\* addInterval credits each day with its units of the interval.
LEMMA Credit ==
  ASSUME NEW u \in [Days -> Nat], NEW from \in Nat, NEW to \in Nat
  PROVE  /\ Credited(u, from, to) \in [Days -> Nat]
         /\ \A d \in Days :
              /\ Cardinality(OfDay(Units(from, to), d)) \in Nat
              /\ Credited(u, from, to)[d] = u[d] + Cardinality(OfDay(Units(from, to), d))
<1>1. \A d : Cardinality(OfDay(Units(from, to), d)) \in Nat
  <2>1. Units(from, to) \in SUBSET (from..(to - 1)) /\ from \in Int /\ to - 1 \in Int
    BY DEF Units
  <2> QED
    BY <2>1, UnitsFinite
<1>2. \A d \in Days : Credited(u, from, to)[d] = u[d] + Cardinality(OfDay(Units(from, to), d))
  BY DEF Credited, OfDay, Units
<1>3. DOMAIN Credited(u, from, to) = Days
      /\ Credited(u, from, to) = [d \in Days |-> Credited(u, from, to)[d]]
  BY DEF Credited
<1>4. \A d \in Days : Credited(u, from, to)[d] \in Nat
  BY <1>1, <1>2
<1> QED
  BY <1>1, <1>2, <1>3, <1>4

\* Trimming forgets whole days, and never a day that none follows.
LEMMA Trim ==
  ASSUME NEW u \in [Days -> Nat]
  PROVE  /\ Trimmed(u) \in [Days -> Nat]
         /\ \A d \in Days : Trimmed(u)[d] \in {0, u[d]} /\ Trimmed(u)[d] <= u[d]
         /\ \A d \in Days : (\A e \in Days : e > d => u[e] = 0) => Trimmed(u)[d] = u[d]
<1>1. Trimmed(u) \in [Days -> Nat] /\ \A d \in Days : Trimmed(u)[d] \in {0, u[d]}
  BY DEF Trimmed
<1>2. \A d \in Days : Trimmed(u)[d] <= u[d]
  BY <1>1
<1>3. ASSUME NEW d \in Days, \A e \in Days : e > d => u[e] = 0
      PROVE  Trimmed(u)[d] = u[d]
  <2>1. {e \in Recorded(u) : e > d} = {}
    BY <1>3 DEF Recorded
  <2>2. Cardinality({e \in Recorded(u) : e > d}) < UptimeLimit
    BY <2>1, FS_EmptySet, TimeAssumption
  <2> QED
    BY <2>2 DEF Trimmed
<1> QED
  BY <1>1, <1>2, <1>3

-----------------------------------------------------------------------------
(* The window of days.                                                     *)

\* A set of numbers has a least element: < is well-founded.
LEMMA Least ==
  ASSUME NEW T \in SUBSET Nat, T # {}
  PROVE  \E m \in T : \A k \in T : m <= k
<1> DEFINE R == OpToRel(<, Nat)
<1>1. IsWellFoundedOn(R, Nat)
  BY NatLessThanWellFounded
<1>2. \A x, y \in Nat : x < y => <<x, y>> \in R
  BY DEF OpToRel
<1> HIDE DEF R
<1>3. \E m \in T : \A k \in T : <<k, m>> \notin R
  BY <1>1, WFMin
<1>4. PICK m \in T : \A k \in T : <<k, m>> \notin R
  BY <1>3
<1>5. ASSUME NEW k \in T
      PROVE  m <= k
  <2>1. m \in Nat /\ k \in Nat /\ ~(k < m)
    BY <1>2, <1>4
  <2> QED
    BY <2>1
<1> QED
  BY <1>5

\* Below a bound, it has a greatest one.
LEMMA Greatest ==
  ASSUME NEW b \in Nat, NEW T \in SUBSET (0..b), T # {}
  PROVE  \E m \in T : \A k \in T : k <= m
<1> DEFINE U == {b - t : t \in T}
<1>1. U \subseteq Nat /\ U # {}
  <2>1. \A t \in T : t \in Nat /\ b - t \in Nat
    OBVIOUS
  <2> QED
    BY <2>1
<1>3. \A t \in T : b - t \in U /\ t \in Nat
  OBVIOUS
<1>4. \A n \in U : \E t \in T : n = b - t
  OBVIOUS
<1> HIDE DEF U
<1>2. PICK n \in U : \A k \in U : n <= k
  BY <1>1, Least
<1>5. PICK m \in T : n = b - m
  BY <1>4
<1> QED
  BY <1>2, <1>3, <1>5

\* The days that follow d in the ledger.
Later(u, d) == {e \in Recorded(u) : e > d}

LEMMA LaterFinite ==
  ASSUME NEW u \in [Days -> Nat]
  PROVE  /\ IsFiniteSet(Recorded(u)) /\ Cardinality(Recorded(u)) \in Nat
         /\ \A d : IsFiniteSet(Later(u, d)) /\ Cardinality(Later(u, d)) \in Nat
<1>1. IsFiniteSet(Days)
  <2>1. MaxWall \div DayLength \in Int
    BY TimeAssumption
  <2> QED
    BY <2>1, FS_Interval DEF Days
<1>2. IsFiniteSet(Recorded(u))
  BY <1>1, FS_Subset DEF Recorded
<1>3. \A d : Later(u, d) \in SUBSET Recorded(u)
  BY DEF Later
<1> QED
  BY <1>2, <1>3, FS_Subset, FS_CardinalityType

\* rollDay() keeps a bounded trailing window (activity.go 131-133): at most
\* UptimeLimit days stay and no more go than have to, the ones that stay are
\* the newest and are untouched, whatever gaps there are between the days.
THEOREM TrailingWindow ==
  ASSUME NEW u \in [Days -> Nat]
  PROVE  LET kept == Recorded(Trimmed(u))
             gone == Recorded(u) \ kept
         IN  /\ kept \subseteq Recorded(u) /\ \A d \in kept : Trimmed(u)[d] = u[d]
             /\ \A d \in kept, e \in gone : e < d
             /\ Cardinality(kept) <= UptimeLimit
             /\ gone # {} => Cardinality(kept) = UptimeLimit
<1> DEFINE kept == Recorded(Trimmed(u))
           gone == Recorded(u) \ kept
           last == MaxWall \div DayLength
<1>0. last \in Nat /\ Days = 0..last /\ UptimeLimit \in Nat /\ UptimeLimit > 0
  <2>1. last \in Nat
    BY TimeAssumption
  <2>2. Days = 0..last
    BY DEF Days
  <2>3. UptimeLimit \in Nat /\ UptimeLimit > 0
    BY TimeAssumption
  <2> QED
    BY <2>1, <2>2, <2>3
<1>1. /\ IsFiniteSet(Recorded(u)) /\ \A d \in Recorded(u) : d \in Days /\ u[d] > 0
      /\ \A d \in Days : u[d] > 0 => d \in Recorded(u)
  BY LaterFinite DEF Recorded
<1>2. /\ Trimmed(u) \in [Days -> Nat]
      /\ \A d \in Days : Trimmed(u)[d] =
           IF Cardinality(Later(u, d)) < UptimeLimit THEN u[d] ELSE 0
  BY DEF Trimmed, Later
<1>3. \A d : d \in kept <=> d \in Recorded(u) /\ Cardinality(Later(u, d)) < UptimeLimit
  BY <1>1, <1>2 DEF Recorded
<1>4. kept \subseteq Recorded(u) /\ \A d \in kept : Trimmed(u)[d] = u[d]
  BY <1>1, <1>2, <1>3
<1> HIDE DEF kept, last
<1>5. IsFiniteSet(kept) /\ Cardinality(kept) \in Nat
  BY <1>1, <1>4, FS_Subset, FS_CardinalityType
<1>6. ASSUME NEW d \in kept, NEW e \in gone
      PROVE  e < d
  <2>1. d \in Nat /\ e \in Nat
    BY <1>0, <1>1, <1>4
  <2>2. SUFFICES ASSUME d <= e
                 PROVE  FALSE
    BY <2>1
  <2>3. Later(u, e) \in SUBSET Later(u, d)
    <3> SUFFICES ASSUME NEW f \in Later(u, e)
                 PROVE  f \in Later(u, d)
      OBVIOUS
    <3>1. f \in Recorded(u) /\ f > e
      BY DEF Later
    <3>2. f \in Nat
      BY <1>0, <1>1, <3>1
    <3>3. f > d
      BY <2>1, <2>2, <3>1, <3>2
    <3> QED
      BY <3>1, <3>3 DEF Later
  <2>4. IsFiniteSet(Later(u, d)) /\ Cardinality(Later(u, d)) \in Nat
        /\ Cardinality(Later(u, e)) \in Nat
    BY LaterFinite
  <2>5. Cardinality(Later(u, e)) <= Cardinality(Later(u, d))
    BY <2>3, <2>4, FS_Subset
  <2>6. Cardinality(Later(u, d)) < UptimeLimit /\ ~(Cardinality(Later(u, e)) < UptimeLimit)
    BY <1>3
  <2> QED
    BY <1>0, <2>4, <2>5, <2>6
<1>7. Cardinality(kept) <= UptimeLimit
  <2>1. CASE kept = {}
    BY <1>0, <2>1, FS_EmptySet
  <2>2. CASE kept # {}
    <3>1. kept \in SUBSET Nat
      BY <1>0, <1>1, <1>4
    <3>2. PICK m \in kept : \A k \in kept : m <= k
      BY <2>2, <3>1, Least
    <3>3. kept \ {m} \in SUBSET Later(u, m)
      BY <1>4, <3>1, <3>2 DEF Later
    <3>4. /\ IsFiniteSet(Later(u, m)) /\ Cardinality(Later(u, m)) \in Nat
          /\ Cardinality(Later(u, m)) < UptimeLimit
      BY <1>3, <3>2, LaterFinite
    <3>5. Cardinality(kept \ {m}) <= Cardinality(Later(u, m))
      BY <3>3, <3>4, FS_Subset
    <3>6. Cardinality(kept \ {m}) = Cardinality(kept) - 1
      BY <1>5, <3>2, FS_RemoveElement
    <3> QED
      BY <1>0, <1>5, <3>4, <3>5, <3>6
  <2> QED
    BY <2>1, <2>2
<1>8. ASSUME gone # {}
      PROVE  Cardinality(kept) = UptimeLimit
  <2>1. gone \in SUBSET (0..last)
    BY <1>0, <1>1
  <2>2. PICK m \in gone : \A k \in gone : k <= m
    BY <1>0, <1>8, <2>1, Greatest
  <2>3. Later(u, m) \in SUBSET kept
    <3> SUFFICES ASSUME NEW e \in Later(u, m)
                 PROVE  e \in kept
      OBVIOUS
    <3>1. e \in Recorded(u) /\ e > m /\ e \in Nat /\ m \in Nat
      BY <1>0, <1>1 DEF Later
    <3> QED
      BY <2>2, <3>1
  <2>4. Cardinality(Later(u, m)) \in Nat /\ ~(Cardinality(Later(u, m)) < UptimeLimit)
    BY <1>3, LaterFinite
  <2>5. Cardinality(Later(u, m)) <= Cardinality(kept)
    BY <1>5, <2>3, FS_Subset
  <2> QED
    BY <1>0, <1>5, <1>7, <2>4, <2>5
<1> QED
  BY <1>4, <1>6, <1>7, <1>8 DEF kept

-----------------------------------------------------------------------------
(* Lemmas about the seconds of rows.                                       *)

\* Only finitely many seconds are in the rows.
LEMMA SecondsFinite ==
  ASSUME NEW rows \in [Apps -> Nat]
  PROVE  IsFiniteSet(Seconds(rows)) /\ Cardinality(Seconds(rows)) \in Nat
<1> DEFINE Row(a) == {a} \X (1..rows[a])
           all == {Row(a) : a \in Apps}
           rowOf == [a \in Apps |-> Row(a)]
<1>1. \A a \in Apps : IsFiniteSet(Row(a))
  <2> SUFFICES ASSUME NEW a \in Apps PROVE IsFiniteSet(Row(a))
    OBVIOUS
  <2>1. IsFiniteSet(1..rows[a])
    BY FS_Interval
  <2>2. IsFiniteSet({a})
    BY FS_Singleton
  <2> QED
    BY <2>1, <2>2, FS_Product
<1> HIDE DEF Row
<1>2. rowOf \in Surjection(Apps, all)
  BY DEF Surjection
<1>3. IsFiniteSet(all)
  BY <1>2, FS_Surjection, AppAssumption
<1>4. IsFiniteSet(UNION all)
  BY <1>1, <1>3, FS_UNION
<1> QED
  BY <1>4, FS_CardinalityType DEF Seconds, Row

\* Nobody used an app yet.
LEMMA IdleHasNoSecond == Idle \in [Apps -> Nat] /\ Cardinality(Seconds(Idle)) = 0
<1>1. Seconds(Idle) = {}
  BY DEF Seconds, Idle
<1> QED
  BY <1>1, FS_EmptySet DEF Idle

\* Crediting the active app, if there is one, adds that many seconds.
LEMMA SecondsOfActive ==
  ASSUME NEW rows \in [Apps -> Nat], NEW who \in Apps \cup {NoApp}, NEW n \in Nat
  PROVE  LET more == [a \in Apps |-> rows[a] + (IF a = who THEN n ELSE 0)]
         IN  /\ more \in [Apps -> Nat]
             /\ Cardinality(Seconds(more)) <= Cardinality(Seconds(rows)) + n
<1> DEFINE more == [a \in Apps |-> rows[a] + (IF a = who THEN n ELSE 0)]
           new == {who} \X ((rows[who] + 1)..(rows[who] + n))
<1>1. more \in [Apps -> Nat]
  OBVIOUS
<1>2. IsFiniteSet(Seconds(rows)) /\ Cardinality(Seconds(rows)) \in Nat
  BY SecondsFinite
<1>3. CASE who \in Apps
  <2>1. rows[who] \in Nat
    BY <1>3
  <2>2. /\ IsFiniteSet((rows[who] + 1)..(rows[who] + n))
        /\ Cardinality((rows[who] + 1)..(rows[who] + n)) = n
    <3>1. rows[who] + 1 \in Int /\ rows[who] + n = (rows[who] + 1) + n - 1
      BY <2>1
    <3> QED
      BY <3>1, IntervalLength
  <2>3. IsFiniteSet({who}) /\ Cardinality({who}) = 1
    BY FS_Singleton
  <2>4. IsFiniteSet(new) /\ Cardinality(new) = n
    <3> DEFINE span == (rows[who] + 1)..(rows[who] + n)
    <3>1. IsFiniteSet(span) /\ Cardinality(span) = n
      BY <2>2
    <3> HIDE DEF span
    <3>2. /\ IsFiniteSet({who} \X span)
          /\ Cardinality({who} \X span) = Cardinality({who}) * Cardinality(span)
      BY <2>3, <3>1, FS_Product
    <3>3. Cardinality({who} \X span) = n
      BY <2>3, <3>1, <3>2
    <3> QED
      BY <3>2, <3>3 DEF span
  <2>5. Seconds(more) = Seconds(rows) \cup new
    <3>1. ASSUME NEW p, p \in Seconds(more)
          PROVE  p \in Seconds(rows) \cup new
      <4>1. PICK a \in Apps : p \in {a} \X (1..more[a])
        BY <3>1 DEF Seconds
      <4>2. CASE a = who
        BY <2>1, <4>1, <4>2 DEF Seconds
      <4>3. CASE a # who
        BY <4>1, <4>3 DEF Seconds
      <4> QED
        BY <4>2, <4>3
    <3>2. ASSUME NEW p, p \in Seconds(rows)
          PROVE  p \in Seconds(more)
      <4>1. PICK a \in Apps : p \in {a} \X (1..rows[a])
        BY <3>2 DEF Seconds
      <4>2. more[a] \in Nat /\ rows[a] \in Nat /\ rows[a] <= more[a]
        OBVIOUS
      <4>3. p \in {a} \X (1..more[a])
        BY <4>1, <4>2
      <4> QED
        BY <4>3 DEF Seconds
    <3>3. ASSUME NEW p, p \in new
          PROVE  p \in Seconds(more)
      <4>1. more[who] = rows[who] + n
        BY <1>3
      <4>2. p \in {who} \X (1..more[who])
        BY <2>1, <3>3, <4>1
      <4> QED
        BY <1>3, <4>2 DEF Seconds
    <3> QED
      BY <3>1, <3>2, <3>3
  <2>6. Cardinality(Seconds(rows) \cap new) \in Nat
    BY <1>2, FS_Intersection, FS_CardinalityType
  <2>7. Cardinality(Seconds(more)) =
          Cardinality(Seconds(rows)) + Cardinality(new) - Cardinality(Seconds(rows) \cap new)
    BY <1>2, <2>4, <2>5, FS_Union
  <2> QED
    BY <1>1, <1>2, <2>4, <2>6, <2>7
<1>4. CASE who \notin Apps
  <2>1. more = rows
    BY <1>4
  <2> QED
    BY <1>1, <1>2, <2>1
<1> QED
  BY <1>3, <1>4

-----------------------------------------------------------------------------
(* Types.                                                                  *)

\* Seeding reads the newest boots of the journal.
LEMMA ListedBoots ==
  ASSUME NEW S, journal \in Seq(S)
  PROVE  /\ Listed \in Seq(S) /\ Len(Listed) \in Nat /\ Len(Listed) <= Len(journal)
         /\ \A n \in DOMAIN Listed : n \in DOMAIN journal /\ Listed[n] = journal[n]
<1> DEFINE size == IF Len(journal) < BootLimit THEN Len(journal) ELSE BootLimit
<1>1. Len(journal) \in Nat /\ BootLimit \in Nat /\ DOMAIN journal = 1..Len(journal)
  BY TimeAssumption
<1>2. size \in 0..Len(journal) /\ Listed = SubSeq(journal, 1, size)
  BY <1>1 DEF Listed
<1>3. \A n \in 1..size : journal[n] \in S
  BY <1>1, <1>2
<1> HIDE DEF size
<1>4. Listed = [n \in 1..size |-> journal[n]]
  BY <1>1, <1>2
<1>5. Listed \in Seq(S) /\ Len(Listed) = size /\ DOMAIN Listed = 1..size
  BY <1>2, <1>3, <1>4
<1> QED
  BY <1>1, <1>2, <1>4, <1>5

Spans == (0..MaxWall) \X (0..MaxWall)

ClockTyped == wall \in 0..MaxWall /\ lastWall \in 0..MaxWall /\ since \in Nat
LedgerTyped ==
  /\ uptime \in [Days -> Nat] /\ apps \in [Apps -> Nat] /\ appsDay \in Days
  /\ active \in Apps \cup {NoApp}
SeedTyped ==
  /\ seeded \in BOOLEAN /\ seeding \in {"start", "fold", "off"} /\ boots \in Seq(Spans)
MachineTyped ==
  journal \in Seq(Spans) /\ bootedAt \in 0..MaxWall /\ sleeps \in Nat /\ restarts \in Nat
HistoryTyped ==
  /\ exposed \in {"nothing", "this boot", "past boots"}
  /\ again \in BOOLEAN /\ misread \in BOOLEAN

LEMMA TypeParts ==
  TypeOK <=> /\ ClockTyped /\ LedgerTyped /\ SeedTyped /\ MachineTyped /\ HistoryTyped
             /\ saved \in State
BY DEF TypeOK, ClockTyped, LedgerTyped, SeedTyped, MachineTyped, HistoryTyped, State, Spans

\* What is saved is a ledger.
LEMMA SavedParts ==
  ASSUME TypeOK
  PROVE  /\ saved.uptime \in [Days -> Nat] /\ saved.apps \in [Apps -> Nat]
         /\ saved.appsDay \in Days /\ saved.active \in Apps \cup {NoApp}
         /\ saved.seeded \in BOOLEAN
BY DEF TypeOK, State

\* The rows after a roll of the day.
LEMMA RowsTyped ==
  ASSUME NEW a \in [Apps -> Nat], NEW d, NEW e
  PROVE  TodayRows(a, d, e) \in [Apps -> Nat]
BY DEF TodayRows, Idle

\* settle leaves a ledger, and the clock as it is read.
LEMMA SettleTypes ==
  ASSUME TypeOK, Settle
  PROVE  /\ uptime' \in [Days -> Nat] /\ apps' \in [Apps -> Nat] /\ appsDay' \in Days
         /\ lastWall' = wall /\ since' = 0
<1>1. /\ wall \in 0..MaxWall /\ wall \in Nat /\ lastWall \in Nat /\ since \in Nat
      /\ uptime \in [Days -> Nat] /\ apps \in [Apps -> Nat]
  BY TypeParts, TimeAssumption DEF ClockTyped, LedgerTyped
<1>2. appsDay' = Day(wall) /\ lastWall' = wall /\ since' = 0
  BY DEF Settle
<1>3. appsDay' \in Days
  BY <1>1, <1>2, DayInDays
<1>4. Trimmed(uptime) \in [Days -> Nat]
  BY <1>1, Trim
<1>5. Credited(Trimmed(uptime), lastWall, wall) \in [Days -> Nat]
  BY <1>1, <1>4, Credit
<1>6. uptime' \in [Days -> Nat]
  BY <1>4, <1>5 DEF Settle
<1>7. TodayRows(apps, appsDay, Day(wall)) \in [Apps -> Nat]
  BY <1>1, RowsTyped
<1>8. apps' \in [Apps -> Nat]
  BY <1>1, <1>7 DEF Settle
<1> QED
  BY <1>2, <1>3, <1>6, <1>8

\* newService leaves a ledger.
LEMMA LoadTypes ==
  ASSUME TypeOK, NEW t \in 0..MaxWall, Load(t)
  PROVE  ClockTyped' /\ LedgerTyped' /\ SeedTyped'
<1>1. /\ wall' = t /\ lastWall' = t /\ since' = 0
      /\ uptime' = Trimmed(saved.uptime)
      /\ apps' = TodayRows(saved.apps, saved.appsDay, Day(t)) /\ appsDay' = Day(t)
      /\ active' = saved.active
      /\ seeded' = saved.seeded /\ seeding' = "start" /\ boots' = <<>>
  BY DEF Load
<1>2. /\ saved.uptime \in [Days -> Nat] /\ saved.apps \in [Apps -> Nat]
      /\ saved.active \in Apps \cup {NoApp} /\ saved.seeded \in BOOLEAN
  BY SavedParts
<1>3. uptime' \in [Days -> Nat] /\ apps' \in [Apps -> Nat]
  BY <1>1, <1>2, Trim, RowsTyped
<1>4. Day(t) \in Days
  BY DayInDays
<1> QED
  BY <1>1, <1>2, <1>3, <1>4 DEF ClockTyped, LedgerTyped, SeedTyped

\* What a restart does beyond loading.
LEMMA RestartParts ==
  ASSUME Restart
  PROVE  /\ Load(wall) /\ restarts' = restarts + 1
         /\ saved' = saved /\ exposed' = exposed
         /\ journal' = journal /\ bootedAt' = bootedAt /\ sleeps' = sleeps
<1>1. /\ Load(wall) /\ restarts' = restarts + 1
      /\ UNCHANGED <<saved, exposed, misread, journal, bootedAt, sleeps>>
  BY Zenon DEF Restart
<1> QED
  BY <1>1

\* What a reboot does beyond loading.
LEMMA RebootParts ==
  ASSUME Reboot
  PROVE  /\ Load(wall + 1) /\ restarts' = restarts + 1 /\ wall < MaxWall
         /\ saved' = saved /\ exposed' = "nothing"
         /\ journal' = <<<<bootedAt, wall>>>> \o journal /\ bootedAt' = wall + 1
         /\ sleeps' = sleeps
<1>1. /\ Load(wall + 1) /\ restarts' = restarts + 1 /\ wall < MaxWall
      /\ exposed' = "nothing"
      /\ journal' = <<<<bootedAt, wall>>>> \o journal /\ bootedAt' = wall + 1
      /\ UNCHANGED <<saved, misread, sleeps>>
  BY Zenon DEF Reboot
<1> QED
  BY <1>1

\* The exceptions, once met, stay.
LEMMA HistorySteps ==
  ASSUME [Next]_vars, TypeOK
  PROVE  /\ HistoryTyped'
         /\ again => again'
         /\ misread => misread'
<1>t. HistoryTyped
  BY TypeParts
\* A step that begins no service and reads no boot.
<1>u. ASSUME again' = again, misread' = misread,
             exposed' \in {exposed, "nothing", "this boot", "past boots"}
      PROVE  HistoryTyped' /\ (again => again') /\ (misread => misread')
  <2>1. exposed' \in {"nothing", "this boot", "past boots"}
    BY <1>t, <1>u DEF HistoryTyped
  <2> QED
    BY <1>t, <1>u, <2>1, Zenon DEF HistoryTyped
<1>1. CASE SettleTick \/ (\E a \in Apps \cup {NoApp} : ActiveApp(a)) \/ SeedStart \/ SeedEnd
           \/ Tick \/ Sleep \/ UNCHANGED vars
  <2>1. UNCHANGED history
    BY <1>1, Zenon DEF SettleTick, ActiveApp, SeedStart, SeedEnd, Tick, Sleep, vars
  <2>2. exposed' = exposed /\ again' = again /\ misread' = misread
    BY <2>1 DEF history
  <2> QED
    BY <1>u, <2>2
<1>2. CASE Persist
  <2>1. /\ UNCHANGED <<wall, active, seed, again, misread, machine>>
        /\ exposed' \in {"nothing", "this boot", "past boots"}
    BY <1>2 DEF Persist
  <2> QED
    BY <1>u, <2>1
<1>3. CASE SeedBoot
  <2>1. /\ UNCHANGED <<clock, apps, appsDay, active, saved, seeded, seeding, exposed, again,
                       machine>>
        /\ misread' = misread \/ misread' = TRUE
    BY <1>3, Zenon DEF SeedBoot
  <2>2. exposed' = exposed /\ again' = again
    BY <2>1
  <2>3. misread' \in BOOLEAN /\ (misread => misread')
    BY <1>t, <2>1, Zenon DEF HistoryTyped
  <2> QED
    BY <1>t, <2>2, <2>3, Zenon DEF HistoryTyped
<1>4. CASE Restart
  <2>1. /\ again' = (again \/ exposed = "past boots")
        /\ UNCHANGED <<saved, exposed, misread, journal, bootedAt, sleeps>>
    BY <1>4, Zenon DEF Restart
  <2>2. exposed' = exposed /\ misread' = misread
    BY <2>1
  <2>3. again' \in BOOLEAN
    BY <2>1, Zenon
  <2>4. again => again'
    BY <2>1, Zenon
  <2>5. HistoryTyped'
    BY <1>t, <2>2, <2>3 DEF HistoryTyped
  <2> QED
    BY <2>2, <2>4, <2>5, Zenon
<1>5. CASE Reboot
  <2>1. /\ again' = (again \/ exposed # "nothing") /\ exposed' = "nothing"
        /\ UNCHANGED <<saved, misread, sleeps>>
    BY <1>5, Zenon DEF Reboot
  <2>2. misread' = misread
    BY <2>1
  <2>3. exposed' \in {"nothing", "this boot", "past boots"}
    BY <2>1
  <2>4. again' \in BOOLEAN
    BY <2>1, Zenon
  <2>5. again => again'
    BY <2>1, Zenon
  <2>6. HistoryTyped'
    BY <1>t, <2>2, <2>3, <2>4 DEF HistoryTyped
  <2> QED
    BY <2>2, <2>5, <2>6, Zenon
<1> QED
  BY <1>1, <1>2, <1>3, <1>4, <1>5, Zenon DEF Next

\* The type invariant is inductive.
LEMMA TypeStep ==
  ASSUME TypeOK, [Next]_vars
  PROVE  TypeOK'
<1>t. ClockTyped /\ LedgerTyped /\ SeedTyped /\ MachineTyped /\ saved \in State
  BY TypeParts
<1>h. HistoryTyped'
  BY HistorySteps
<1>p. ASSUME ClockTyped', LedgerTyped', SeedTyped', MachineTyped', saved' \in State
      PROVE  TypeOK'
  BY <1>h, <1>p
     DEF TypeOK, ClockTyped, LedgerTyped, SeedTyped, MachineTyped, HistoryTyped, State, Spans
<1>c. wall \in 0..MaxWall /\ wall \in Nat /\ MaxWall \in Nat /\ lastWall \in Nat
  BY <1>t, TimeAssumption DEF ClockTyped
<1>s. ASSUME Settle, wall' = wall
      PROVE  /\ ClockTyped'
             /\ uptime' \in [Days -> Nat] /\ apps' \in [Apps -> Nat] /\ appsDay' \in Days
  BY <1>c, <1>s, SettleTypes DEF ClockTyped
<1>1. CASE SettleTick
  <2>1. ClockTyped' /\ LedgerTyped'
    BY <1>t, <1>s, <1>1 DEF SettleTick, LedgerTyped
  <2>2. SeedTyped' /\ MachineTyped' /\ saved' \in State
    BY <1>t, <1>1 DEF SettleTick, SeedTyped, MachineTyped, seed, machine
  <2> QED
    BY <1>p, <2>1, <2>2
<1>2. CASE Persist
  <2>1. ClockTyped' /\ LedgerTyped'
    BY <1>t, <1>s, <1>2 DEF Persist, LedgerTyped
  <2>2. SeedTyped' /\ MachineTyped'
    BY <1>t, <1>2 DEF Persist, SeedTyped, MachineTyped, seed, machine
  <2>3. saved' = [uptime |-> uptime', apps |-> apps', appsDay |-> appsDay',
                  active |-> active, seeded |-> seeded]
    BY <1>2 DEF Persist
  <2>4. saved' \in State
    BY <1>t, <2>1, <2>3 DEF State, LedgerTyped, SeedTyped
  <2> QED
    BY <1>p, <2>1, <2>2, <2>4
<1>3. ASSUME NEW a \in Apps \cup {NoApp}, ActiveApp(a)
      PROVE  TypeOK'
  <2>1. ClockTyped' /\ LedgerTyped'
    BY <1>t, <1>s, <1>3 DEF ActiveApp, LedgerTyped
  <2>2. SeedTyped' /\ MachineTyped' /\ saved' \in State
    BY <1>t, <1>3 DEF ActiveApp, SeedTyped, MachineTyped, seed, machine
  <2> QED
    BY <1>p, <2>1, <2>2
<1>4. CASE SeedStart
  <2>1. ClockTyped' /\ LedgerTyped' /\ MachineTyped' /\ saved' \in State
    BY <1>t, <1>4 DEF SeedStart, ClockTyped, LedgerTyped, MachineTyped, clock, ledger, machine
  <2>2. SeedTyped'
    <3>0. journal \in Seq(Spans)
      BY <1>t DEF MachineTyped
    <3>1. Listed \in Seq(Spans) /\ <<>> \in Seq(Spans)
      <4>1. Listed \in Seq(Spans)
        BY <3>0, ListedBoots
      <4> QED
        BY <4>1
    <3>2. boots' \in {Listed, <<>>} /\ seeding' \in {"fold", "off"} /\ seeded' = seeded
      BY <1>4 DEF SeedStart
    <3> QED
      BY <1>t, <3>1, <3>2 DEF SeedTyped
  <2> QED
    BY <1>p, <2>1, <2>2
<1>5. CASE SeedBoot
  <2>1. /\ boots # <<>> /\ boots' = Tail(boots)
        /\ \/ uptime' = uptime
           \/ \E from \in {Head(boots)[1], 0} : uptime' = Credited(uptime, from, Head(boots)[2])
        /\ UNCHANGED <<clock, apps, appsDay, active, saved, seeded, seeding, machine>>
    BY <1>5 DEF SeedBoot
  <2>2. boots \in Seq(Spans)
    BY <1>t DEF SeedTyped
  <2>3. Head(boots) \in Spans /\ Tail(boots) \in Seq(Spans)
    BY <2>1, <2>2
  <2>4. Head(boots)[1] \in Nat /\ Head(boots)[2] \in Nat
    BY <1>c, <2>3 DEF Spans
  <2>5. uptime' \in [Days -> Nat]
    <3>1. uptime \in [Days -> Nat]
      BY <1>t DEF LedgerTyped
    <3>2. ASSUME NEW from \in {Head(boots)[1], 0}
          PROVE  Credited(uptime, from, Head(boots)[2]) \in [Days -> Nat]
      BY <2>4, <3>1, Credit
    <3> QED
      BY <2>1, <3>1, <3>2
  <2>6. ClockTyped' /\ LedgerTyped' /\ MachineTyped' /\ saved' \in State
    BY <1>t, <2>1, <2>5 DEF ClockTyped, LedgerTyped, MachineTyped, clock, machine
  <2>7. SeedTyped'
    BY <1>t, <2>1, <2>3 DEF SeedTyped
  <2> QED
    BY <1>p, <2>6, <2>7
<1>6. CASE SeedEnd
  <2>1. ClockTyped' /\ LedgerTyped' /\ MachineTyped' /\ saved' \in State
    BY <1>t, <1>6 DEF SeedEnd, ClockTyped, LedgerTyped, MachineTyped, clock, ledger, machine
  <2>2. SeedTyped'
    BY <1>t, <1>6 DEF SeedEnd, SeedTyped
  <2> QED
    BY <1>p, <2>1, <2>2
<1>7. CASE Tick
  <2>1. ClockTyped'
    BY <1>t, <1>7, TimeAssumption DEF Tick, ClockTyped
  <2>2. LedgerTyped' /\ SeedTyped' /\ MachineTyped' /\ saved' \in State
    BY <1>t, <1>7 DEF Tick, LedgerTyped, SeedTyped, MachineTyped, ledger, seed, machine
  <2> QED
    BY <1>p, <2>1, <2>2
<1>8. CASE Sleep
  <2>1. ClockTyped'
    BY <1>t, <1>8, TimeAssumption DEF Sleep, ClockTyped
  <2>2. LedgerTyped' /\ SeedTyped' /\ MachineTyped' /\ saved' \in State
    BY <1>t, <1>8 DEF Sleep, LedgerTyped, SeedTyped, MachineTyped, ledger, seed
  <2> QED
    BY <1>p, <2>1, <2>2
<1>9. CASE Restart
  <2>1. Load(wall)
    BY <1>9, RestartParts
  <2>2. ClockTyped' /\ LedgerTyped' /\ SeedTyped'
    BY <1>c, <2>1, LoadTypes
  <2>3. /\ journal' = journal /\ bootedAt' = bootedAt /\ sleeps' = sleeps
        /\ restarts' = restarts + 1 /\ saved' = saved
    BY <1>9, RestartParts
  <2>4. MachineTyped' /\ saved' \in State
    BY <1>t, <2>3 DEF MachineTyped
  <2> QED
    BY <1>p, <2>2, <2>4
<1>10. CASE Reboot
  <2>0. /\ Load(wall + 1) /\ wall < MaxWall /\ saved' = saved
        /\ journal' = <<<<bootedAt, wall>>>> \o journal /\ bootedAt' = wall + 1
        /\ restarts' = restarts + 1 /\ sleeps' = sleeps
    BY <1>10, RebootParts
  <2>1. wall + 1 \in 0..MaxWall
    BY <1>c, <2>0
  <2>2. ClockTyped' /\ LedgerTyped' /\ SeedTyped'
    BY <2>0, <2>1, LoadTypes
  <2>3. <<bootedAt, wall>> \in Spans /\ journal \in Seq(Spans)
    BY <1>t, <1>c DEF MachineTyped, Spans
  <2>4. journal' \in Seq(Spans)
    BY <2>0, <2>3
  <2>5. MachineTyped' /\ saved' \in State
    BY <1>t, <2>0, <2>1, <2>4 DEF MachineTyped
  <2> QED
    BY <1>p, <2>2, <2>5
<1>11. CASE UNCHANGED vars
  BY <1>t, <1>p, <1>11
     DEF vars, ClockTyped, LedgerTyped, SeedTyped, MachineTyped, clock, ledger, seed, machine
<1> QED
  BY <1>1, <1>2, <1>3, <1>4, <1>5, <1>6, <1>7, <1>8, <1>9, <1>10, <1>11 DEF Next

\* The service starts with nothing credited.
LEMMA TypeInit ==
  ASSUME Init
  PROVE  TypeOK
<1>1. 0 \in 0..MaxWall /\ Installed \in 0..MaxWall /\ Installed \in Nat /\ MaxWall \in Nat
  BY TimeAssumption
<1>2. Day(Installed) \in Days /\ 0 \in Days
  BY <1>1, DayInDays, DayStarts DEF Days, Day
<1>3. uptime \in [Days -> Nat] /\ apps \in [Apps -> Nat]
  BY IdleHasNoSecond DEF Init
<1>4. ClockTyped /\ LedgerTyped /\ saved \in State
  BY <1>1, <1>2, <1>3 DEF Init, ClockTyped, LedgerTyped, State
<1>5. PastBoots \in Seq(Spans)
  <2>1. (0..Installed) \X (0..Installed) \subseteq Spans
    BY <1>1 DEF Spans
  <2>2. PastBoots \in Seq((0..Installed) \X (0..Installed))
    BY BootAssumption
  <2> QED
    BY <2>1, <2>2, SeqMonotonic
<1>6. SeedTyped
  <2>1. boots \in Seq(Spans)
    BY DEF Init
  <2> QED
    BY <2>1 DEF Init, SeedTyped
<1>7. MachineTyped
  BY <1>1, <1>5 DEF Init, MachineTyped
<1>8. HistoryTyped
  BY DEF Init, HistoryTyped
<1> QED
  BY <1>4, <1>6, <1>7, <1>8, TypeParts

\* In every behaviour the state has its type: no day outside the bounds of
\* the clock is ever credited, and no saved ledger lacks a part.
THEOREM TypeCorrect == Spec => []TypeOK
BY TypeInit, TypeStep, PTL DEF Spec

-----------------------------------------------------------------------------
(* The rows of a day.                                                      *)

\* A ledger has no day after that of time t.
NothingAfter(u, t) == \A d \in Days : d > Day(t) => u[d] = 0

\* Boots that ended by time t.
EndedBy(q, t) == \A n \in DOMAIN q : q[n][2] <= t

TimesInv ==
  /\ Installed <= lastWall /\ lastWall <= wall /\ since <= wall - lastWall
  /\ appsDay = Day(lastWall)
  /\ EndedBy(journal, lastWall) /\ EndedBy(boots, lastWall)
  /\ NothingAfter(uptime, lastWall) /\ NothingAfter(saved.uptime, lastWall)

\* The rows of a day are covered by its uptime, but for a gap.
Covered(rows, day, u) == Cardinality(Seconds(rows)) <= u[day] + MaxGap - 1

RowsInv ==
  /\ TimesInv
  /\ Covered(apps, appsDay, uptime)
  /\ Covered(saved.apps, saved.appsDay, saved.uptime)

\* The day that now is is not trimmed.
LEMMA TodayStays ==
  ASSUME NEW u \in [Days -> Nat], NEW s \in 0..MaxWall, NEW t \in 0..MaxWall,
         s <= t, NothingAfter(u, s)
  PROVE  /\ NothingAfter(Trimmed(u), t)
         /\ Day(t) \in Days /\ Trimmed(u)[Day(t)] = u[Day(t)]
<1>1. s \in Nat /\ t \in Nat
  BY TimeAssumption
<1>2. /\ Day(s) \in Nat /\ Day(t) \in Nat /\ Day(t) \in Days /\ Day(s) <= Day(t)
      /\ Days \subseteq Int
  BY <1>1, DayInDays, DaysFollow DEF Days
<1>3. \A d \in Days : d > Day(t) => u[d] = 0
  BY <1>2 DEF NothingAfter
<1>4. \A d \in Days : Trimmed(u)[d] \in {0, u[d]}
  BY Trim
<1>5. Trimmed(u)[Day(t)] = u[Day(t)]
  BY <1>2, <1>3, Trim
<1> QED
  BY <1>2, <1>3, <1>4, <1>5 DEF NothingAfter

\* Crediting what was before t credits no day after that of t.
LEMMA CreditBefore ==
  ASSUME NEW u \in [Days -> Nat], NEW from \in Nat, NEW to \in Nat, NEW t \in Nat,
         to <= t, NothingAfter(u, t)
  PROVE  NothingAfter(Credited(u, from, to), t)
<1> SUFFICES ASSUME NEW d \in Days, d > Day(t)
             PROVE  Credited(u, from, to)[d] = 0
  BY DEF NothingAfter
<1>1. u[d] = 0
  BY DEF NothingAfter
<1>2. d \in Int /\ Day(t) \in Nat
  BY DayStarts DEF Days
<1>3. ASSUME NEW s \in OfDay(Units(from, to), d)
      PROVE  FALSE
  <2>1. s \in Nat /\ s <= t /\ Day(s) = d
    BY DEF OfDay, Units
  <2>2. Day(s) <= Day(t)
    BY <2>1, DaysFollow
  <2> QED
    BY <1>2, <2>1, <2>2
<1>4. Cardinality(OfDay(Units(from, to), d)) = 0
  BY <1>3, FS_EmptySet
<1>5. Credited(u, from, to)[d] = u[d] + Cardinality(OfDay(Units(from, to), d))
  BY Credit
<1> QED
  BY <1>1, <1>4, <1>5

\* An interval within one day is credited to it in full.
LEMMA CreditWithin ==
  ASSUME NEW u \in [Days -> Nat], NEW from \in Nat, NEW to \in 0..MaxWall,
         from <= to, Day(from) = Day(to)
  PROVE  Credited(u, from, to)[Day(to)] = u[Day(to)] + (to - from)
<1>1. to \in Nat /\ Day(to) \in Days /\ Day(to) \in Nat
  BY TimeAssumption, DayInDays
<1>2. ASSUME NEW t \in Units(from, to)
      PROVE  Day(t) = Day(to)
  <2>1. t \in Nat /\ from <= t /\ t <= to
    BY <1>1 DEF Units
  <2>2. Day(from) <= Day(t) /\ Day(t) <= Day(to) /\ Day(t) \in Nat
    BY <1>1, <2>1, DaysFollow, DayStarts
  <2> QED
    BY <1>1, <2>2
<1>3. OfDay(Units(from, to), Day(to)) = Units(from, to)
  BY <1>2 DEF OfDay
<1>4. Units(from, to) = from..(from + (to - from) - 1) /\ to - from \in Nat /\ from \in Int
  BY <1>1 DEF Units
<1>5. Cardinality(Units(from, to)) = to - from
  BY <1>4, IntervalLength
<1>6. Credited(u, from, to)[Day(to)] =
        u[Day(to)] + Cardinality(OfDay(Units(from, to), Day(to)))
  BY <1>1, Credit
<1> QED
  BY <1>3, <1>5, <1>6

\* settle leaves the rows of today covered.
LEMMA SettleRows ==
  ASSUME TypeOK, TimesInv, Covered(apps, appsDay, uptime), Settle
  PROVE  /\ NothingAfter(uptime', wall)
         /\ appsDay' = Day(wall) /\ Covered(apps', Day(wall), uptime')
<1> DEFINE today == Day(wall)
           rows  == TodayRows(apps, appsDay, today)
           kept  == Trimmed(uptime)
<1>1. /\ wall \in 0..MaxWall /\ lastWall \in 0..MaxWall /\ since \in Nat
      /\ wall \in Nat /\ lastWall \in Nat /\ lastWall <= wall /\ since <= wall - lastWall
      /\ uptime \in [Days -> Nat] /\ apps \in [Apps -> Nat]
      /\ active \in Apps \cup {NoApp} /\ MaxGap \in Nat /\ MaxGap > 0
  BY TypeParts, TimeAssumption DEF ClockTyped, LedgerTyped, TimesInv
<1>2. /\ appsDay' = today
      /\ \/ /\ since \in 1..(MaxGap - 1)
            /\ uptime' = Credited(kept, lastWall, wall)
            /\ apps' = [a \in Apps |-> rows[a] + (IF a = active THEN since ELSE 0)]
         \/ uptime' = kept /\ apps' = rows
  BY DEF Settle
<1>3. /\ kept \in [Days -> Nat] /\ NothingAfter(kept, wall)
      /\ today \in Days /\ kept[today] = uptime[today]
  BY <1>1, Trim, TodayStays DEF TimesInv
<1>4. rows \in [Apps -> Nat]
  BY <1>1, RowsTyped
<1>5. \/ appsDay = today /\ rows = apps
      \/ appsDay # today /\ rows = Idle
  BY DEF TodayRows
<1>6. Cardinality(Seconds(apps)) <= uptime[appsDay] + MaxGap - 1
  BY DEF Covered
<1>7. appsDay = Day(lastWall)
  BY DEF TimesInv
<1>8. Cardinality(Seconds(rows)) \in Nat /\ Cardinality(Seconds(Idle)) = 0
  BY <1>4, SecondsFinite, IdleHasNoSecond
<1>9. kept[today] \in Nat
  BY <1>3
<1> HIDE DEF today, rows, kept
<1>10. Cardinality(Seconds(rows)) <= kept[today] + MaxGap - 1
  BY <1>1, <1>3, <1>5, <1>6, <1>8, <1>9
<1>11. CASE uptime' = kept /\ apps' = rows
  BY <1>2, <1>3, <1>10, <1>11 DEF Covered, today
<1>12. CASE /\ since \in 1..(MaxGap - 1)
            /\ uptime' = Credited(kept, lastWall, wall)
            /\ apps' = [a \in Apps |-> rows[a] + (IF a = active THEN since ELSE 0)]
  <2>1. NothingAfter(uptime', wall)
    BY <1>1, <1>3, <1>12, CreditBefore
  <2>2. Cardinality(Seconds(apps')) <= Cardinality(Seconds(rows)) + since
    BY <1>1, <1>4, <1>12, SecondsOfActive
  <2>3. /\ Credited(kept, lastWall, wall) \in [Days -> Nat]
        /\ Cardinality(OfDay(Units(lastWall, wall), today)) \in Nat
        /\ Credited(kept, lastWall, wall)[today] =
             kept[today] + Cardinality(OfDay(Units(lastWall, wall), today))
    BY <1>1, <1>3, Credit
  <2>4. apps' \in [Apps -> Nat]
    BY SettleTypes
  <2>5. Cardinality(Seconds(apps')) \in Nat
    BY <2>4, SecondsFinite
  <2>6. Cardinality(Seconds(apps')) <= uptime'[today] + MaxGap - 1
    <3>1. CASE appsDay = today
      <4>1. Credited(kept, lastWall, wall)[today] = kept[today] + (wall - lastWall)
        BY <1>1, <1>3, <1>7, <3>1, CreditWithin DEF today
      <4> QED
        BY <1>1, <1>8, <1>9, <1>10, <1>12, <2>2, <2>5, <4>1
    <3>2. CASE appsDay # today
      <4>1. Cardinality(Seconds(rows)) = 0 /\ since <= MaxGap - 1
        BY <1>1, <1>5, <1>8, <1>12, <3>2
      <4>2. uptime'[today] \in Nat
        BY <1>3, <1>12, <2>3
      <4> QED
        BY <1>1, <2>2, <2>5, <4>1, <4>2
    <3> QED
      BY <3>1, <3>2
  <2> QED
    BY <1>2, <2>1, <2>6 DEF Covered, today
<1> QED
  BY <1>2, <1>11, <1>12

\* Later, there is still nothing after.
LEMMA StillNothingAfter ==
  ASSUME NEW u, NEW s \in Nat, NEW t \in Nat, s <= t, NothingAfter(u, s)
  PROVE  NothingAfter(u, t)
<1>1. Day(s) \in Nat /\ Day(t) \in Nat /\ Day(s) <= Day(t) /\ Days \subseteq Int
  BY DaysFollow, DayStarts DEF Days
<1> QED
  BY <1>1 DEF NothingAfter

\* Boots that ended by a time ended by any later one.
LEMMA StillEnded ==
  ASSUME NEW q \in Seq(Spans), NEW s \in Nat, NEW t \in Nat, s <= t, EndedBy(q, s)
  PROVE  EndedBy(q, t)
<1>1. \A n \in DOMAIN q : q[n] \in Spans
  OBVIOUS
<1>2. \A n \in DOMAIN q : q[n][2] \in Nat
  BY <1>1, TimeAssumption DEF Spans
<1> QED
  BY <1>2 DEF EndedBy

\* The numbers that the steps compare.
LEMMA Numbers ==
  ASSUME TypeOK
  PROVE  /\ wall \in 0..MaxWall /\ lastWall \in 0..MaxWall
         /\ wall \in Nat /\ lastWall \in Nat /\ since \in Nat /\ Installed \in Nat
         /\ uptime \in [Days -> Nat] /\ saved.uptime \in [Days -> Nat]
         /\ apps \in [Apps -> Nat] /\ saved.apps \in [Apps -> Nat]
         /\ appsDay \in Days /\ saved.appsDay \in Days
         /\ journal \in Seq(Spans) /\ boots \in Seq(Spans)
         /\ MaxGap \in Nat /\ MaxGap > 0
<1>1. ClockTyped /\ LedgerTyped /\ SeedTyped /\ MachineTyped
  BY TypeParts
<1>2. Installed \in Nat /\ MaxGap \in Nat /\ MaxGap > 0 /\ MaxWall \in Nat
  BY TimeAssumption
<1>3. wall \in 0..MaxWall /\ lastWall \in 0..MaxWall /\ since \in Nat
  BY <1>1 DEF ClockTyped
<1>4. wall \in Nat /\ lastWall \in Nat
  BY <1>2, <1>3
<1>5. uptime \in [Days -> Nat] /\ apps \in [Apps -> Nat] /\ appsDay \in Days
  BY <1>1 DEF LedgerTyped
<1>6. journal \in Seq(Spans) /\ boots \in Seq(Spans)
  BY <1>1 DEF SeedTyped, MachineTyped
<1> QED
  BY <1>2, <1>3, <1>4, <1>5, <1>6, SavedParts

\* A step that settles keeps the rows covered, provided it saves nothing but
\* what it leaves.
LEMMA SettlingKeepsRows ==
  ASSUME TypeOK, RowsInv, Settle, wall' = wall, journal' = journal, boots' = boots,
         \/ saved' = saved
         \/ saved'.uptime = uptime' /\ saved'.apps = apps' /\ saved'.appsDay = appsDay'
  PROVE  RowsInv'
<1>1. /\ wall \in Nat /\ lastWall \in Nat /\ Installed \in Nat
      /\ journal \in Seq(Spans) /\ boots \in Seq(Spans)
  BY Numbers
<1>2. lastWall' = wall /\ since' = 0
  BY SettleTypes
<1>3. NothingAfter(uptime', wall) /\ appsDay' = Day(wall) /\ Covered(apps', Day(wall), uptime')
  BY SettleRows DEF RowsInv
<1>4. Installed <= lastWall /\ lastWall <= wall
  BY DEF RowsInv, TimesInv
<1>5. EndedBy(journal, wall) /\ EndedBy(boots, wall) /\ NothingAfter(saved.uptime, wall)
  BY <1>1, <1>4, StillEnded, StillNothingAfter DEF RowsInv, TimesInv
<1>6. NothingAfter(saved'.uptime, wall) /\ Covered(saved'.apps, saved'.appsDay, saved'.uptime)
  BY <1>3, <1>5 DEF RowsInv
<1>7. TimesInv'
  <2>1. Installed <= wall /\ wall <= wall /\ 0 <= wall - wall
    BY <1>1, <1>4
  <2> QED
    BY <1>2, <1>3, <1>5, <1>6, <2>1 DEF TimesInv, NothingAfter, EndedBy
<1>8. Covered(apps, appsDay, uptime)' /\ Covered(saved.apps, saved.appsDay, saved.uptime)'
  BY <1>3, <1>6 DEF Covered
<1> QED
  BY <1>7, <1>8 DEF RowsInv

\* newService at time t finds the saved rows covered, or shows none.
LEMMA LoadKeepsRows ==
  ASSUME TypeOK, RowsInv, NEW t \in 0..MaxWall, wall <= t, Load(t), saved' = saved,
         EndedBy(journal', t)
  PROVE  RowsInv'
<1>1. /\ wall \in Nat /\ lastWall \in 0..MaxWall /\ lastWall \in Nat /\ Installed \in Nat
      /\ t \in Nat /\ saved.uptime \in [Days -> Nat] /\ saved.apps \in [Apps -> Nat]
      /\ saved.appsDay \in Days /\ MaxGap \in Nat /\ MaxGap > 0
  BY Numbers, TimeAssumption
<1>2. /\ wall' = t /\ lastWall' = t /\ since' = 0 /\ boots' = <<>>
      /\ uptime' = Trimmed(saved.uptime) /\ appsDay' = Day(t)
      /\ apps' = TodayRows(saved.apps, saved.appsDay, Day(t))
  BY DEF Load
<1>3. /\ Installed <= lastWall /\ lastWall <= wall /\ NothingAfter(saved.uptime, lastWall)
      /\ Covered(saved.apps, saved.appsDay, saved.uptime)
  BY DEF RowsInv, TimesInv
<1>4. lastWall <= t
  BY <1>1, <1>3
<1>5. /\ NothingAfter(Trimmed(saved.uptime), t)
      /\ Day(t) \in Days /\ Trimmed(saved.uptime)[Day(t)] = saved.uptime[Day(t)]
  BY <1>1, <1>3, <1>4, TodayStays
<1>6. NothingAfter(saved.uptime, t)
  BY <1>1, <1>3, <1>4, StillNothingAfter
<1>7. EndedBy(boots', t)
  BY <1>2 DEF EndedBy
<1>8. TimesInv'
  <2>1. Installed <= t /\ t <= t /\ 0 <= t - t
    BY <1>1, <1>3, <1>4
  <2> QED
    BY <1>2, <1>5, <1>6, <1>7, <2>1 DEF TimesInv, NothingAfter, EndedBy
<1>9. Covered(apps', Day(t), uptime')
  <2>1. CASE saved.appsDay = Day(t)
    BY <1>2, <1>3, <1>5, <2>1 DEF Covered, TodayRows
  <2>2. CASE saved.appsDay # Day(t)
    <3>1. Cardinality(Seconds(apps')) = 0
      BY <1>2, <2>2, IdleHasNoSecond DEF TodayRows
    <3>2. uptime'[Day(t)] \in Nat
      BY <1>1, <1>2, <1>5
    <3> QED
      BY <1>1, <3>1, <3>2 DEF Covered
  <2> QED
    BY <2>1, <2>2
<1>10. Covered(apps, appsDay, uptime)' /\ Covered(saved.apps, saved.appsDay, saved.uptime)'
  BY <1>2, <1>3, <1>9 DEF Covered
<1> QED
  BY <1>8, <1>10 DEF RowsInv

\* No step uncovers the rows.
LEMMA RowsStep ==
  ASSUME TypeOK, RowsInv, [Next]_vars
  PROVE  RowsInv'
<1>n. /\ wall \in 0..MaxWall /\ lastWall \in 0..MaxWall
      /\ wall \in Nat /\ lastWall \in Nat /\ since \in Nat /\ Installed \in Nat
      /\ uptime \in [Days -> Nat] /\ saved.uptime \in [Days -> Nat]
      /\ apps \in [Apps -> Nat] /\ appsDay \in Days
      /\ journal \in Seq(Spans) /\ boots \in Seq(Spans) /\ MaxGap \in Nat /\ MaxGap > 0
  BY Numbers
<1>t. /\ Installed <= lastWall /\ lastWall <= wall /\ since <= wall - lastWall
      /\ appsDay = Day(lastWall)
      /\ EndedBy(journal, lastWall) /\ EndedBy(boots, lastWall)
      /\ NothingAfter(uptime, lastWall) /\ NothingAfter(saved.uptime, lastWall)
      /\ Covered(apps, appsDay, uptime) /\ Covered(saved.apps, saved.appsDay, saved.uptime)
  BY DEF RowsInv, TimesInv
\* A step that only lets time pass.
<1>w. ASSUME UNCHANGED <<lastWall, uptime, apps, appsDay, saved, journal>>,
             EndedBy(boots', lastWall), lastWall <= wall', since' <= wall' - lastWall
      PROVE  RowsInv'
  <2>1. TimesInv'
    BY <1>t, <1>w DEF TimesInv, NothingAfter, EndedBy
  <2>2. Covered(apps, appsDay, uptime)' /\ Covered(saved.apps, saved.appsDay, saved.uptime)'
    BY <1>t, <1>w DEF Covered
  <2> QED
    BY <2>1, <2>2 DEF RowsInv
<1>1. CASE SettleTick
  BY <1>1, SettlingKeepsRows DEF SettleTick, seed, machine
<1>2. CASE Persist
  <2>1. /\ saved'.uptime = uptime' /\ saved'.apps = apps' /\ saved'.appsDay = appsDay'
        /\ Settle /\ wall' = wall /\ journal' = journal /\ boots' = boots
    BY <1>2 DEF Persist, seed, machine
  <2> QED
    BY <2>1, SettlingKeepsRows
<1>3. ASSUME NEW a \in Apps \cup {NoApp}, ActiveApp(a)
      PROVE  RowsInv'
  BY <1>3, SettlingKeepsRows DEF ActiveApp, seed, machine
<1>4. CASE SeedStart
  <2>1. /\ UNCHANGED <<lastWall, uptime, apps, appsDay, saved, journal, wall, since>>
        /\ boots' \in {Listed, <<>>}
    BY <1>4 DEF SeedStart, clock, ledger, machine
  <2>2. EndedBy(boots', lastWall)
    <3>1. \A n \in DOMAIN Listed : n \in DOMAIN journal /\ Listed[n] = journal[n]
      BY <1>n, ListedBoots
    <3> QED
      BY <1>t, <2>1, <3>1 DEF EndedBy
  <2> QED
    BY <1>t, <1>w, <2>1, <2>2
<1>5. CASE SeedBoot
  <2>1. /\ boots # <<>> /\ boots' = Tail(boots)
        /\ \/ uptime' = uptime
           \/ \E from \in {Head(boots)[1], 0} : uptime' = Credited(uptime, from, Head(boots)[2])
        /\ UNCHANGED <<lastWall, apps, appsDay, saved, journal, wall, since>>
    BY <1>5 DEF SeedBoot, clock, machine
  <2>2. /\ Len(boots) > 0 /\ Head(boots) = boots[1] /\ 1 \in DOMAIN boots
        /\ Head(boots) \in Spans
        /\ \A n \in DOMAIN Tail(boots) : n + 1 \in DOMAIN boots /\ Tail(boots)[n] = boots[n + 1]
    BY <1>n, <2>1
  <2>3. /\ Head(boots)[1] \in Nat /\ Head(boots)[2] \in Nat /\ Head(boots)[2] <= lastWall
    BY <1>t, <2>2, TimeAssumption DEF Spans, EndedBy
  <2>4. EndedBy(boots', lastWall)
    BY <1>t, <2>1, <2>2 DEF EndedBy
  <2>5. /\ NothingAfter(uptime', lastWall)
        /\ uptime'[appsDay] \in Nat /\ uptime[appsDay] <= uptime'[appsDay]
    <3>1. CASE uptime' = uptime
      BY <1>n, <1>t, <3>1
    <3>2. ASSUME NEW from \in {Head(boots)[1], 0},
                 uptime' = Credited(uptime, from, Head(boots)[2])
          PROVE  /\ NothingAfter(uptime', lastWall)
                 /\ uptime'[appsDay] \in Nat /\ uptime[appsDay] <= uptime'[appsDay]
      <4> DEFINE to == Head(boots)[2]
      <4>1. from \in Nat /\ to \in Nat /\ to <= lastWall /\ uptime' = Credited(uptime, from, to)
        BY <2>3, <3>2
      <4> HIDE DEF to
      <4>2. NothingAfter(uptime', lastWall)
        BY <1>n, <1>t, <4>1, CreditBefore
      <4>3. /\ Cardinality(OfDay(Units(from, to), appsDay)) \in Nat
            /\ Credited(uptime, from, to)[appsDay] =
                 uptime[appsDay] + Cardinality(OfDay(Units(from, to), appsDay))
        BY <1>n, <4>1, Credit
      <4>4. uptime[appsDay] \in Nat
        BY <1>n
      <4> QED
        BY <4>1, <4>2, <4>3, <4>4
    <3> QED
      BY <2>1, <3>1, <3>2
  <2>6. TimesInv'
    BY <1>t, <2>1, <2>4, <2>5 DEF TimesInv, NothingAfter, EndedBy
  <2>7. Covered(apps, appsDay, uptime)'
    <3>1. Cardinality(Seconds(apps)) \in Nat /\ uptime[appsDay] \in Nat
      BY <1>n, SecondsFinite
    <3>2. Cardinality(Seconds(apps)) <= uptime'[appsDay] + MaxGap - 1
      BY <1>n, <1>t, <2>5, <3>1 DEF Covered
    <3> QED
      BY <2>1, <3>2 DEF Covered
  <2>8. Covered(saved.apps, saved.appsDay, saved.uptime)'
    BY <1>t, <2>1 DEF Covered
  <2> QED
    BY <2>6, <2>7, <2>8 DEF RowsInv
<1>6. CASE SeedEnd
  <2>1. UNCHANGED <<lastWall, uptime, apps, appsDay, saved, journal, wall, since, boots>>
    BY <1>6 DEF SeedEnd, clock, ledger, machine
  <2> QED
    BY <1>t, <1>w, <2>1
<1>7. CASE Tick
  <2>1. /\ UNCHANGED <<lastWall, uptime, apps, appsDay, saved, journal, boots>>
        /\ wall' = wall + 1 /\ since' = since + 1
    BY <1>7 DEF Tick, ledger, seed, machine
  <2>2. lastWall <= wall' /\ since' <= wall' - lastWall
    BY <1>n, <1>t, <2>1
  <2> QED
    BY <1>t, <1>w, <2>1, <2>2
<1>8. CASE Sleep
  <2>1. /\ UNCHANGED <<lastWall, uptime, apps, appsDay, saved, journal, boots, since>>
        /\ wall' = wall + SleepLength /\ SleepLength \in Nat
    BY <1>8, TimeAssumption DEF Sleep, ledger, seed
  <2>2. lastWall <= wall' /\ since' <= wall' - lastWall
    BY <1>n, <1>t, <2>1
  <2> QED
    BY <1>t, <1>w, <2>1, <2>2
<1>9. CASE Restart
  <2>1. Load(wall) /\ saved' = saved /\ journal' = journal /\ wall <= wall
    BY <1>n, <1>9, RestartParts
  <2>2. EndedBy(journal', wall)
    BY <1>n, <1>t, <2>1, StillEnded
  <2> QED
    BY <1>n, <2>1, <2>2, LoadKeepsRows
<1>10. CASE Reboot
  <2>1. /\ Load(wall + 1) /\ saved' = saved /\ journal' = <<<<bootedAt, wall>>>> \o journal
        /\ wall + 1 \in 0..MaxWall /\ wall <= wall + 1
    BY <1>n, <1>10, TimeAssumption DEF Reboot
  <2>2. EndedBy(journal, wall + 1)
    BY <1>n, <1>t, <2>1, StillEnded
  <2>3. EndedBy(journal', wall + 1)
    <3>1. \A n \in DOMAIN journal' :
            journal'[n] = <<bootedAt, wall>> \/ \E m \in DOMAIN journal : journal'[n] = journal[m]
      BY <1>n, <2>1
    <3> QED
      BY <1>n, <2>1, <2>2, <3>1 DEF EndedBy
  <2> QED
    BY <2>1, <2>3, LoadKeepsRows
<1>11. CASE UNCHANGED vars
  <2>1. UNCHANGED <<lastWall, uptime, apps, appsDay, saved, journal, wall, since, boots>>
    BY <1>11 DEF vars, clock, ledger, seed, machine
  <2> QED
    BY <1>t, <1>w, <2>1
<1> QED
  BY <1>1, <1>2, <1>3, <1>4, <1>5, <1>6, <1>7, <1>8, <1>9, <1>10, <1>11 DEF Next

\* The service is installed on a day of its own.
LEMMA RowsInit ==
  ASSUME Init
  PROVE  RowsInv
<1>1. /\ Installed \in Nat /\ MaxGap \in Nat /\ MaxGap > 0
      /\ PastBoots \in Seq((0..Installed) \X (0..Installed))
  BY TimeAssumption, BootAssumption
<1>2. \A n \in DOMAIN PastBoots : PastBoots[n] \in (0..Installed) \X (0..Installed)
  BY <1>1
<1>3. EndedBy(PastBoots, Installed)
  BY <1>1, <1>2 DEF EndedBy
<1>4. TimesInv
  BY <1>1, <1>3 DEF Init, TimesInv, EndedBy, NothingAfter
<1>5. Cardinality(Seconds(Idle)) = 0
  BY IdleHasNoSecond
<1>6. Day(Installed) \in Days /\ 0 \in Days
  BY <1>1, DayInDays, DayStarts, TimeAssumption DEF Days, Day
<1>7. uptime[Day(Installed)] = 0 /\ uptime[0] = 0
  BY <1>6 DEF Init
<1>8. Covered(apps, appsDay, uptime) /\ Covered(saved.apps, saved.appsDay, saved.uptime)
  BY <1>1, <1>5, <1>7 DEF Init, Covered
<1> QED
  BY <1>4, <1>8 DEF RowsInv

\* Whatever midnights, gaps, suspends, restarts and folded boots there are,
\* the app rows never show more of a day than the machine was up, beyond the
\* one gap that a midnight cut in two.
THEOREM RowsAreCovered == Spec => []AppsWithinUptime
<1>1. RowsInv => AppsWithinUptime
  BY DEF RowsInv, Covered, AppsWithinUptime
<1> QED
  BY <1>1, RowsInit, RowsStep, TypeCorrect, PTL DEF Spec

-----------------------------------------------------------------------------
(* A day holds a day.                                                      *)

\* The units that some boot of q covers.
Booted(q) == UNION {Units(q[n][1], q[n][2]) : n \in DOMAIN q}

\* What the journal has and the ledger does not: while a boot after another
\* is folded, what comes after that is of no more use to this service.
Aside == IF seeding = "fold" /\ boots # Listed THEN Booted(boots)
         ELSE IF seeded THEN {} ELSE Booted(journal)

\* Boots before time b, one after the other, newest first.
Orderly(q, b) ==
  /\ q \in Seq((0..b) \X (0..b))
  /\ \A m, n \in DOMAIN q : m < n => q[n][2] <= q[m][1]

\* No day of u has more than its units of S.
Within(u, S) == \A d \in Days : u[d] <= Cardinality(OfDay(S, d))

\* The journal has the boots before this one.
JournalInv ==
  /\ bootedAt <= lastWall /\ Orderly(journal, bootedAt)
  /\ seeding = "fold" =>
       ~seeded /\ Orderly(boots, bootedAt) /\ Len(boots) <= Len(Listed)

\* No unit is credited twice once the saved ledger is loaded, by a restart in
\* this boot or by the reboot after it.
SavedInv ==
  /\ saved.seeded => Within(saved.uptime, Units(0, lastWall))
  /\ ~saved.seeded /\ exposed # "past boots" =>
       Within(saved.uptime, Units(0, lastWall) \ Booted(journal))
  /\ ~saved.seeded /\ exposed = "nothing" =>
       Within(saved.uptime, Units(0, bootedAt) \ Booted(journal))

\* Nor is one before that.
CreditInv == Within(uptime, Units(0, lastWall) \ Aside) /\ SavedInv

FoldInv == JournalInv /\ (~again /\ ~misread => CreditInv)

\* UnitsFinite, DayIsShort and MoreUnits for units before b.
LEMMA OfDayCounts ==
  ASSUME NEW b \in Nat, NEW S \in SUBSET Units(0, b), NEW d
  PROVE  /\ IsFiniteSet(OfDay(S, d)) /\ Cardinality(OfDay(S, d)) \in Nat
         /\ d \in Nat => Cardinality(OfDay(S, d)) <= DayLength
<1> DEFINE e == b - 1
<1>1. e \in Int /\ 0 \in Int /\ S \in SUBSET (0..e)
  BY DEF Units
<1> HIDE DEF e
<1>2. IsFiniteSet(OfDay(S, d)) /\ Cardinality(OfDay(S, d)) \in Nat
  BY <1>1, UnitsFinite
<1>3. ASSUME d \in Nat
      PROVE  Cardinality(OfDay(S, d)) <= DayLength
  BY <1>1, <1>3, DayIsShort
<1> QED
  BY <1>2, <1>3

LEMMA MoreOfDay ==
  ASSUME NEW b \in Nat, NEW S \in SUBSET Units(0, b), NEW T \in SUBSET S, NEW d
  PROVE  Cardinality(OfDay(T, d)) <= Cardinality(OfDay(S, d))
<1> DEFINE e == b - 1
<1>1. e \in Int /\ 0 \in Int /\ S \in SUBSET (0..e)
  BY DEF Units
<1> HIDE DEF e
<1> QED
  BY <1>1, MoreUnits

\* Disjoint units add up in every day.
LEMMA OfDayAddUp ==
  ASSUME NEW b \in Nat, NEW S \in SUBSET Units(0, b), NEW T \in SUBSET Units(0, b),
         S \cap T = {}, NEW d
  PROVE  Cardinality(OfDay(S \cup T, d)) = Cardinality(OfDay(S, d)) + Cardinality(OfDay(T, d))
<1>1. /\ IsFiniteSet(OfDay(S, d)) /\ Cardinality(OfDay(S, d)) \in Nat
      /\ IsFiniteSet(OfDay(T, d)) /\ Cardinality(OfDay(T, d)) \in Nat
  BY OfDayCounts
<1>2. OfDay(S \cup T, d) = OfDay(S, d) \cup OfDay(T, d) /\ OfDay(S, d) \cap OfDay(T, d) = {}
  BY DEF OfDay
<1>3. Cardinality(OfDay(S, d) \cap OfDay(T, d)) = 0
  BY <1>2, FS_EmptySet
<1>4. Cardinality(OfDay(S, d) \cup OfDay(T, d)) =
        Cardinality(OfDay(S, d)) + Cardinality(OfDay(T, d)) - Cardinality(OfDay(S, d) \cap OfDay(T, d))
  BY <1>1, FS_Union
<1>5. Cardinality(OfDay(S \cup T, d)) = Cardinality(OfDay(S, d) \cup OfDay(T, d))
  BY <1>2
<1> QED
  BY <1>1, <1>3, <1>4, <1>5

\* More units can only leave more room.
LEMMA MoreRoom ==
  ASSUME NEW u \in [Days -> Nat], NEW b \in Nat, NEW S \in SUBSET Units(0, b),
         NEW T \in SUBSET S, Within(u, T)
  PROVE  Within(u, S)
<1> SUFFICES ASSUME NEW d \in Days
             PROVE  u[d] <= Cardinality(OfDay(S, d))
  BY DEF Within
<1>2. Cardinality(OfDay(T, d)) <= Cardinality(OfDay(S, d))
  BY MoreOfDay
<1>3. Cardinality(OfDay(S, d)) \in Nat /\ Cardinality(OfDay(T, d)) \in Nat
  <2>1. T \in SUBSET Units(0, b)
    OBVIOUS
  <2> QED
    BY <2>1, OfDayCounts
<1>4. u[d] \in Nat /\ u[d] <= Cardinality(OfDay(T, d))
  BY DEF Within
<1> QED
  BY <1>2, <1>3, <1>4

\* So can fewer credits.
LEMMA TrimmedWithin ==
  ASSUME NEW u \in [Days -> Nat], NEW b \in Nat, NEW S \in SUBSET Units(0, b), Within(u, S)
  PROVE  Within(Trimmed(u), S)
<1> SUFFICES ASSUME NEW d \in Days
             PROVE  Trimmed(u)[d] <= Cardinality(OfDay(S, d))
  BY DEF Within
<1>2. Trimmed(u)[d] \in Nat /\ Trimmed(u)[d] <= u[d] /\ u[d] \in Nat
  BY Trim
<1>3. u[d] <= Cardinality(OfDay(S, d))
  BY DEF Within
<1>4. Cardinality(OfDay(S, d)) \in Nat
  BY OfDayCounts
<1> QED
  BY <1>2, <1>3, <1>4

\* A credit of units that were not credited stays within them all.
LEMMA CreditedWithin ==
  ASSUME NEW u \in [Days -> Nat], NEW b \in Nat, NEW S \in SUBSET Units(0, b), Within(u, S),
         NEW from \in Nat, NEW to \in Nat, to <= b, S \cap Units(from, to) = {}
  PROVE  Within(Credited(u, from, to), S \cup Units(from, to))
<1> DEFINE T == Units(from, to)
<1>1. T \in SUBSET Units(0, b) /\ S \cap T = {}
  BY DEF Units
<1> SUFFICES ASSUME NEW d \in Days
             PROVE  Credited(u, from, to)[d] <= Cardinality(OfDay(S \cup T, d))
  BY DEF Within
<1>2. Credited(u, from, to)[d] = u[d] + Cardinality(OfDay(T, d))
  BY Credit
<1> HIDE DEF T
<1>3. Cardinality(OfDay(S \cup T, d)) = Cardinality(OfDay(S, d)) + Cardinality(OfDay(T, d))
  BY <1>1, OfDayAddUp
<1>4. Cardinality(OfDay(S, d)) \in Nat /\ Cardinality(OfDay(T, d)) \in Nat
  BY <1>1, OfDayCounts
<1>5. u[d] \in Nat /\ u[d] <= Cardinality(OfDay(S, d))
  BY DEF Within
<1> QED
  BY <1>2, <1>3, <1>4, <1>5

\* The first of orderly boots covers nothing that another one covers.
LEMMA FirstBoot ==
  ASSUME NEW b \in Nat, NEW q, Orderly(q, b), q # <<>>
  PROVE  /\ Orderly(Tail(q), b) /\ Len(Tail(q)) = Len(q) - 1 /\ Len(q) \in Nat
         /\ Head(q)[1] \in Nat /\ Head(q)[2] \in Nat /\ Head(q)[2] <= b
         /\ Booted(q) = Units(Head(q)[1], Head(q)[2]) \cup Booted(Tail(q))
         /\ Units(Head(q)[1], Head(q)[2]) \cap Booted(Tail(q)) = {}
<1> DEFINE span == (0..b) \X (0..b)
           r == Tail(q)
<1>1. q \in Seq(span) /\ \A m, n \in DOMAIN q : m < n => q[n][2] <= q[m][1]
  BY DEF Orderly
<1>2. /\ Len(q) \in Nat /\ Len(q) > 0 /\ DOMAIN q = 1..Len(q)
      /\ Head(q) = q[1] /\ 1 \in DOMAIN q
  BY <1>1
<1>3. /\ r \in Seq(span) /\ DOMAIN r = 1..(Len(q) - 1) /\ Len(r) = Len(q) - 1
      /\ \A n \in DOMAIN r : r[n] = q[n + 1]
  BY <1>1, <1>2
<1>4. \A n \in DOMAIN q : q[n] \in span
  BY <1>1, <1>2
<1>5. \A n \in DOMAIN q : q[n][1] \in 0..b /\ q[n][2] \in 0..b
  BY <1>4
<1> HIDE DEF r, span
<1>6. \A n \in DOMAIN r : n + 1 \in DOMAIN q /\ n \in Nat /\ n > 0
  BY <1>2, <1>3
<1>7. Orderly(r, b)
  <2>1. ASSUME NEW m \in DOMAIN r, NEW n \in DOMAIN r, m < n
        PROVE  r[n][2] <= r[m][1]
    <3>1. m + 1 < n + 1 /\ m + 1 \in DOMAIN q /\ n + 1 \in DOMAIN q
      BY <1>6, <2>1
    <3>2. q[n + 1][2] <= q[m + 1][1]
      BY <1>1, <3>1
    <3> QED
      BY <1>3, <3>2
  <2> QED
    BY <1>3, <2>1 DEF Orderly, span
<1>8. Booted(q) = Units(q[1][1], q[1][2]) \cup Booted(r)
  <2>1. ASSUME NEW n \in DOMAIN q, n # 1
        PROVE  n - 1 \in DOMAIN r /\ r[n - 1] = q[n]
    BY <1>2, <1>3, <2>1
  <2>2. ASSUME NEW t, t \in Booted(q)
        PROVE  t \in Units(q[1][1], q[1][2]) \cup Booted(r)
    BY <2>1, <2>2 DEF Booted
  <2>3. ASSUME NEW t, t \in Booted(r)
        PROVE  t \in Booted(q)
    BY <1>3, <1>6, <2>3 DEF Booted
  <2>4. Units(q[1][1], q[1][2]) \subseteq Booted(q)
    BY <1>2 DEF Booted
  <2> QED
    BY <2>2, <2>3, <2>4
<1>9. ASSUME NEW t, t \in Units(q[1][1], q[1][2]), t \in Booted(r)
      PROVE  FALSE
  <2>1. PICK n \in DOMAIN r : t \in Units(r[n][1], r[n][2])
    BY <1>9 DEF Booted
  <2>2. r[n][2] <= q[1][1]
    BY <1>1, <1>2, <1>3, <1>6
  <2>3. q[1][1] \in Nat /\ q[1][2] \in Nat /\ r[n][1] \in Nat /\ r[n][2] \in Nat
    BY <1>2, <1>3, <1>5, <1>6
  <2> QED
    BY <1>9, <2>1, <2>2, <2>3 DEF Units
<1> QED
  BY <1>2, <1>3, <1>5, <1>7, <1>8, <1>9 DEF r

\* Orderly boots cover nothing after their bound.
LEMMA BootedBefore ==
  ASSUME NEW b \in Nat, NEW q, Orderly(q, b)
  PROVE  Booted(q) \subseteq Units(0, b)
<1>1. \A n \in DOMAIN q : q[n] \in (0..b) \X (0..b)
  BY DEF Orderly
<1>2. \A n \in DOMAIN q : q[n][1] \in 0..b /\ q[n][2] \in 0..b
  BY <1>1
<1>3. ASSUME NEW n \in DOMAIN q
      PROVE  Units(q[n][1], q[n][2]) \subseteq Units(0, b)
  BY <1>2 DEF Units
<1> QED
  BY <1>3 DEF Booted

\* The boots that seeding reads are orderly, and boots of the journal.
LEMMA ListedOrderly ==
  ASSUME NEW b \in Nat, Orderly(journal, b)
  PROVE  Orderly(Listed, b) /\ Booted(Listed) \subseteq Booted(journal) /\ Len(Listed) \in Nat
<1> DEFINE span == (0..b) \X (0..b)
<1>1. journal \in Seq(span) /\ \A m, n \in DOMAIN journal : m < n => journal[n][2] <= journal[m][1]
  BY DEF Orderly
<1>2. /\ Listed \in Seq(span) /\ Len(Listed) \in Nat
      /\ \A n \in DOMAIN Listed : n \in DOMAIN journal /\ Listed[n] = journal[n]
  <2> HIDE DEF span
  <2> QED
    BY <1>1, ListedBoots
<1>3. Orderly(Listed, b)
  <2>1. \A m, n \in DOMAIN Listed : m < n => Listed[n][2] <= Listed[m][1]
    BY <1>1, <1>2
  <2> QED
    BY <1>2, <2>1 DEF Orderly
<1>4. Booted(Listed) \subseteq Booted(journal)
  BY <1>2 DEF Booted
<1> QED
  BY <1>2, <1>3, <1>4

\* A boot that ends becomes the newest one.
LEMMA NewestBoot ==
  ASSUME NEW b \in Nat, NEW t \in Nat, b <= t, NEW q, Orderly(q, b)
  PROVE  /\ Orderly(<<<<b, t>>>> \o q, t + 1)
         /\ Booted(<<<<b, t>>>> \o q) = Units(b, t) \cup Booted(q)
<1> DEFINE span == (0..b) \X (0..b)
           more == (0..(t + 1)) \X (0..(t + 1))
           r == <<<<b, t>>>> \o q
<1>1. q \in Seq(span) /\ \A m, n \in DOMAIN q : m < n => q[n][2] <= q[m][1]
  BY DEF Orderly
<1>2. Len(q) \in Nat /\ DOMAIN q = 1..Len(q)
  BY <1>1
<1>3. \A n \in DOMAIN q : q[n] \in span
  BY <1>1, <1>2
<1>4. \A n \in DOMAIN q : q[n][1] \in 0..b /\ q[n][2] \in 0..b
  BY <1>3
<1>5. <<b, t>> \in more /\ q \in Seq(more)
  <2>1. span \subseteq more
    OBVIOUS
  <2> QED
    BY <1>1, <2>1, SeqMonotonic
<1>6. /\ r \in Seq(more) /\ DOMAIN r = 1..(Len(q) + 1)
      /\ r[1] = <<b, t>> /\ \A n \in DOMAIN r : n # 1 => n - 1 \in DOMAIN q /\ r[n] = q[n - 1]
  <2> HIDE DEF more
  <2>1. <<<<b, t>>>> \in Seq(more) /\ Len(<<<<b, t>>>>) = 1 /\ <<<<b, t>>>>[1] = <<b, t>>
    BY <1>5
  <2>2. r \in Seq(more) /\ Len(r) = Len(q) + 1
    BY <1>2, <1>5, <2>1
  <2>3. DOMAIN r = 1..(Len(q) + 1)
    BY <2>2
  <2>4. r[1] = <<b, t>>
    BY <1>2, <1>5, <2>1
  <2>5. ASSUME NEW n \in DOMAIN r, n # 1
        PROVE  n - 1 \in DOMAIN q /\ r[n] = q[n - 1]
    BY <1>2, <1>5, <2>1, <2>3, <2>5
  <2> QED
    BY <2>2, <2>3, <2>4, <2>5
<1>9. /\ Len(q) \in Nat /\ b \in Nat /\ t \in Nat /\ r[1][1] = b
  BY <1>2, <1>6
<1> HIDE DEF r, more
<1>7. ASSUME NEW n \in DOMAIN q
      PROVE  n + 1 \in DOMAIN r /\ r[n + 1] = q[n]
  <2>1. n \in Nat /\ n + 1 \in DOMAIN r /\ n + 1 # 1 /\ (n + 1) - 1 = n
    BY <1>2, <1>6
  <2> QED
    BY <1>6, <2>1
<1>8. Orderly(r, t + 1)
  <2>1. ASSUME NEW m \in DOMAIN r, NEW n \in DOMAIN r, m < n
        PROVE  r[n][2] <= r[m][1]
    <3>1. n \in Nat /\ m \in Nat /\ n # 1 /\ n - 1 \in DOMAIN q /\ r[n] = q[n - 1]
      BY <1>6, <1>9, <2>1
    <3>2. CASE m = 1
      BY <1>4, <1>9, <3>1, <3>2
    <3>3. CASE m # 1
      <4>1. m - 1 \in DOMAIN q /\ r[m] = q[m - 1] /\ m - 1 < n - 1
        BY <1>6, <2>1, <3>1, <3>3
      <4> QED
        BY <1>1, <3>1, <4>1
    <3> QED
      BY <3>2, <3>3
  <2> QED
    BY <1>6, <2>1 DEF Orderly, more
<1>10. Booted(r) = Units(b, t) \cup Booted(q)
  <2>1. 1 \in DOMAIN r /\ Units(r[1][1], r[1][2]) = Units(b, t)
    BY <1>6, <1>9
  <2>2. ASSUME NEW u, u \in Booted(r)
        PROVE  u \in Units(b, t) \cup Booted(q)
    <3>1. PICK n \in DOMAIN r : u \in Units(r[n][1], r[n][2])
      BY <2>2 DEF Booted
    <3>2. CASE n = 1
      BY <2>1, <3>1, <3>2
    <3>3. CASE n # 1
      BY <1>6, <3>1, <3>3 DEF Booted
    <3> QED
      BY <3>2, <3>3
  <2>3. ASSUME NEW u, u \in Booted(q)
        PROVE  u \in Booted(r)
    <3>1. PICK n \in DOMAIN q : u \in Units(q[n][1], q[n][2])
      BY <2>3 DEF Booted
    <3> QED
      BY <1>7, <3>1 DEF Booted
  <2>4. Units(b, t) \subseteq Booted(r)
    BY <2>1 DEF Booted
  <2> QED
    BY <2>2, <2>3, <2>4
<1> QED
  BY <1>8, <1>10 DEF r

\* What is set aside is before this boot, and is all of the journal in a
\* service that has folded nothing.
LEMMA AsideBefore ==
  ASSUME JournalInv, bootedAt \in Nat
  PROVE  /\ Aside \subseteq Units(0, bootedAt)
         /\ Booted(journal) \subseteq Units(0, bootedAt)
         /\ ~seeded /\ ~(seeding = "fold" /\ boots # Listed) => Aside = Booted(journal)
<1>1. Booted(journal) \subseteq Units(0, bootedAt)
  BY BootedBefore DEF JournalInv
<1>2. seeding = "fold" => Booted(boots) \subseteq Units(0, bootedAt)
  BY BootedBefore DEF JournalInv
<1> QED
  BY <1>1, <1>2 DEF Aside

\* A step that leaves the journal and the seeding alone.
LEMMA JournalKept ==
  ASSUME TypeOK, RowsInv, JournalInv, UNCHANGED <<journal, bootedAt, boots, seeding, seeded>>,
         lastWall' = lastWall \/ lastWall' = wall
  PROVE  JournalInv' /\ Aside' = Aside
<1>1. wall \in Nat /\ lastWall \in Nat /\ lastWall <= wall
  BY Numbers DEF RowsInv, TimesInv
<1>2. bootedAt \in Nat
  BY TypeParts, TimeAssumption DEF MachineTyped
<1>3. bootedAt' <= lastWall'
  BY <1>1, <1>2 DEF JournalInv
<1>4. Listed' = Listed
  BY DEF Listed
<1>5. Aside' = Aside
  BY <1>4 DEF Aside
<1>6. JournalInv'
  BY <1>3, <1>4 DEF JournalInv
<1> QED
  BY <1>5, <1>6

\* A service that begins, at time t, with a journal of boots before b.
LEMMA JournalLoaded ==
  ASSUME NEW t \in Nat, NEW b \in Nat, b <= t, Load(t), bootedAt' = b, Orderly(journal', b)
  PROVE  JournalInv' /\ Aside' = (IF seeded' THEN {} ELSE Booted(journal'))
<1>1. lastWall' = t /\ seeding' = "start"
  BY DEF Load
<1> QED
  BY <1>1 DEF JournalInv, Aside

\* The journal has the boots before this one, and seeding those it reads.
LEMMA JournalStep ==
  ASSUME TypeOK, RowsInv, JournalInv, [Next]_vars
  PROVE  JournalInv'
<1>n. /\ wall \in Nat /\ lastWall \in Nat /\ lastWall <= wall /\ boots \in Seq(Spans)
  BY Numbers DEF RowsInv, TimesInv
<1>b. bootedAt \in Nat /\ bootedAt <= lastWall /\ Orderly(journal, bootedAt)
  BY TypeParts, TimeAssumption DEF MachineTyped, JournalInv
<1>1. CASE SettleTick \/ Persist \/ \E a \in Apps \cup {NoApp} : ActiveApp(a)
  <2>1. Settle /\ UNCHANGED seed /\ UNCHANGED machine
    BY <1>1 DEF SettleTick, Persist, ActiveApp
  <2>2. UNCHANGED <<journal, bootedAt, boots, seeding, seeded>> /\ lastWall' = wall
    BY <2>1, SettleTypes DEF seed, machine
  <2> QED
    BY <2>2, JournalKept
<1>2. CASE Tick \/ Sleep \/ UNCHANGED vars
  <2>1. UNCHANGED <<journal, bootedAt, boots, seeding, seeded, lastWall>>
    BY <1>2 DEF Tick, Sleep, vars, clock, seed, machine
  <2> QED
    BY <2>1, JournalKept
<1>3. CASE SeedStart
  <2>1. /\ UNCHANGED <<lastWall, journal, bootedAt, seeded>>
        /\ \/ ~seeded /\ boots' = Listed /\ seeding' = "fold"
           \/ boots' = <<>> /\ seeding' = "off"
    BY <1>3 DEF SeedStart, clock, machine
  <2>2. Listed' = Listed /\ Orderly(Listed, bootedAt) /\ Len(Listed) \in Nat
    <3>1. Listed' = Listed
      BY <2>1 DEF Listed
    <3> QED
      BY <1>b, <3>1, ListedOrderly
  <2> QED
    BY <1>b, <2>1, <2>2 DEF JournalInv
<1>4. CASE SeedBoot
  <2>1. /\ UNCHANGED <<lastWall, journal, bootedAt, seeded, seeding>>
        /\ seeding = "fold" /\ boots # <<>> /\ boots' = Tail(boots)
    BY <1>4 DEF SeedBoot, clock, machine
  <2>2. /\ Listed' = Listed /\ Len(Listed) \in Nat
        /\ ~seeded /\ Orderly(boots, bootedAt) /\ Len(boots) <= Len(Listed)
    <3>1. Listed' = Listed
      BY <2>1 DEF Listed
    <3> QED
      BY <1>b, <2>1, <3>1, ListedOrderly DEF JournalInv
  <2>3. Orderly(Tail(boots), bootedAt) /\ Len(Tail(boots)) = Len(boots) - 1 /\ Len(boots) \in Nat
    BY <1>b, <2>1, <2>2, FirstBoot
  <2>4. Len(boots') <= Len(Listed')
    BY <2>1, <2>2, <2>3
  <2> QED
    BY <1>b, <2>1, <2>2, <2>3, <2>4 DEF JournalInv
<1>5. CASE SeedEnd
  <2>1. /\ UNCHANGED <<lastWall, journal, bootedAt>> /\ seeding' = "off"
    BY <1>5 DEF SeedEnd, clock, machine
  <2> QED
    BY <1>b, <2>1 DEF JournalInv
<1>6. CASE Restart
  <2>1. Load(wall) /\ journal' = journal /\ bootedAt' = bootedAt
    BY <1>6, RestartParts
  <2>2. bootedAt <= wall /\ Orderly(journal', bootedAt)
    BY <1>n, <1>b, <2>1
  <2> QED
    BY <1>n, <1>b, <2>1, <2>2, JournalLoaded
<1>7. CASE Reboot
  <2>1. Load(wall + 1) /\ journal' = <<<<bootedAt, wall>>>> \o journal /\ bootedAt' = wall + 1
    BY <1>7, RebootParts
  <2>2. wall + 1 \in Nat /\ wall + 1 <= wall + 1 /\ bootedAt <= wall
    BY <1>n, <1>b
  <2>3. Orderly(journal', wall + 1)
    BY <1>n, <1>b, <2>1, <2>2, NewestBoot
  <2> QED
    BY <2>1, <2>2, <2>3, JournalLoaded
<1> QED
  BY <1>1, <1>2, <1>3, <1>4, <1>5, <1>6, <1>7 DEF Next

\* settle() credits only what passed since the last settle.
LEMMA SettlingCredits ==
  ASSUME TypeOK, RowsInv, JournalInv, Settle, Within(uptime, Units(0, lastWall) \ Aside)
  PROVE  Within(uptime', Units(0, wall) \ Aside)
<1>1. /\ wall \in Nat /\ lastWall \in Nat /\ uptime \in [Days -> Nat]
      /\ uptime' \in [Days -> Nat] /\ lastWall <= wall
  BY Numbers, SettleTypes DEF RowsInv, TimesInv
<1>2. bootedAt \in Nat /\ bootedAt <= lastWall
  BY TypeParts, TimeAssumption DEF MachineTyped, JournalInv
<1>3. Aside \subseteq Units(0, bootedAt)
  BY <1>2, AsideBefore
<1> DEFINE S == Units(0, lastWall) \ Aside
           T == Units(lastWall, wall)
           U == Units(0, wall) \ Aside
<1>4. S \in SUBSET Units(0, lastWall) /\ Within(uptime, S)
  OBVIOUS
<1>5. /\ S \in SUBSET Units(0, wall) /\ S \cap T = {}
      /\ S \in SUBSET U /\ S \cup T \in SUBSET U /\ U \in SUBSET Units(0, wall)
  BY <1>1, <1>2, <1>3 DEF Units
<1>6. T = Units(lastWall, wall)
  OBVIOUS
<1> SUFFICES Within(uptime', U)
  OBVIOUS
<1> HIDE DEF S, T, U
<1>7. Trimmed(uptime) \in [Days -> Nat] /\ Within(Trimmed(uptime), S)
  BY <1>1, <1>4, <1>5, TrimmedWithin, Trim
<1>8. CASE uptime' = Trimmed(uptime)
  BY <1>1, <1>5, <1>7, <1>8, MoreRoom
<1>9. CASE uptime' = Credited(Trimmed(uptime), lastWall, wall)
  <2>1. wall <= wall /\ S \cap Units(lastWall, wall) = {}
    BY <1>1, <1>5, <1>6
  <2>2. Within(uptime', S \cup T)
    BY <1>1, <1>5, <1>6, <1>7, <1>9, <2>1, CreditedWithin
  <2> QED
    BY <1>1, <1>5, <2>2, MoreRoom
<1> QED
  BY <1>8, <1>9 DEF Settle

\* Later, and with no more set aside, there can only be more room.
LEMMA RoomLeft ==
  ASSUME NEW u \in [Days -> Nat], NEW b \in Nat, NEW c \in Nat, b <= c, NEW A, NEW B,
         Within(u, Units(0, b) \ A), B \cap Units(0, b) \subseteq A
  PROVE  Within(u, Units(0, c) \ B)
<1> DEFINE S == Units(0, c) \ B
           T == Units(0, b) \ A
<1>1. S \in SUBSET Units(0, c) /\ T \in SUBSET S
  BY DEF Units
<1>2. Within(u, T)
  OBVIOUS
<1> SUFFICES Within(u, S)
  OBVIOUS
<1> HIDE DEF S, T
<1> QED
  BY <1>1, <1>2, MoreRoom

\* A step that leaves what is saved alone.
LEMMA SavedKept ==
  ASSUME TypeOK, SavedInv, UNCHANGED <<saved, exposed, journal, bootedAt>>,
         lastWall' \in Nat, lastWall <= lastWall'
  PROVE  SavedInv'
<1>1. /\ lastWall \in Nat /\ saved.uptime \in [Days -> Nat]
      /\ Units(0, lastWall) = Units(0, lastWall) \ {}
      /\ Units(0, lastWall') = Units(0, lastWall') \ {}
  BY Numbers
<1>2. saved.seeded => Within(saved.uptime, Units(0, lastWall'))
  <2>1. SUFFICES ASSUME saved.seeded
                 PROVE  Within(saved.uptime, Units(0, lastWall') \ {})
    BY <1>1
  <2>2. Within(saved.uptime, Units(0, lastWall) \ {})
    BY <1>1, <2>1 DEF SavedInv
  <2> QED
    BY <1>1, <2>2, RoomLeft
<1>3. ~saved.seeded /\ exposed # "past boots" =>
        Within(saved.uptime, Units(0, lastWall') \ Booted(journal))
  <2>1. SUFFICES ASSUME Within(saved.uptime, Units(0, lastWall) \ Booted(journal))
                 PROVE  Within(saved.uptime, Units(0, lastWall') \ Booted(journal))
    BY DEF SavedInv
  <2> QED
    BY <1>1, <2>1, RoomLeft
<1> QED
  BY <1>2, <1>3 DEF SavedInv

\* newService has credited what was saved, and nothing else.
LEMMA LoadCredits ==
  ASSUME TypeOK, NEW t \in Nat, Load(t),
         Aside' = (IF seeded' THEN {} ELSE Booted(journal')),
         saved.seeded => Within(saved.uptime, Units(0, t)),
         ~saved.seeded => Within(saved.uptime, Units(0, t) \ Booted(journal'))
  PROVE  Within(uptime', Units(0, lastWall') \ Aside')
<1> DEFINE S == IF saved.seeded THEN Units(0, t) ELSE Units(0, t) \ Booted(journal')
<1>1. /\ saved.uptime \in [Days -> Nat] /\ S \in SUBSET Units(0, t)
      /\ Within(saved.uptime, S)
  BY Numbers
<1>2. lastWall' = t /\ uptime' = Trimmed(saved.uptime) /\ seeded' = saved.seeded
  BY DEF Load
<1>3. S = Units(0, lastWall') \ Aside'
  BY <1>2
<1> HIDE DEF S
<1>4. Within(Trimmed(saved.uptime), S)
  BY <1>1, TrimmedWithin
<1> QED
  BY <1>2, <1>3, <1>4

\* No step credits a unit twice, but for the named exceptions.
LEMMA CreditStep ==
  ASSUME TypeOK, RowsInv, JournalInv, CreditInv, [Next]_vars, ~again', ~misread'
  PROVE  CreditInv'
<1>n. /\ wall \in Nat /\ lastWall \in Nat /\ lastWall <= wall
      /\ uptime \in [Days -> Nat] /\ saved.uptime \in [Days -> Nat]
  BY Numbers DEF RowsInv, TimesInv
<1>b. /\ bootedAt \in Nat /\ bootedAt <= lastWall /\ Orderly(journal, bootedAt)
      /\ Aside \subseteq Units(0, bootedAt) /\ Booted(journal) \subseteq Units(0, bootedAt)
      /\ ~seeded /\ ~(seeding = "fold" /\ boots # Listed) => Aside = Booted(journal)
  <2>1. bootedAt \in Nat
    BY TypeParts, TimeAssumption DEF MachineTyped
  <2> QED
    BY <2>1, AsideBefore DEF JournalInv
<1>c. Within(uptime, Units(0, lastWall) \ Aside) /\ SavedInv
  BY DEF CreditInv
\* A step that leaves the ledger alone, and sets no more aside.
<1>k. ASSUME UNCHANGED <<uptime, lastWall, saved, exposed, journal, bootedAt>>,
             Aside' \subseteq Aside
      PROVE  CreditInv'
  <2>1. SavedInv'
    BY <1>n, <1>c, <1>k, SavedKept
  <2>2. Within(uptime, Units(0, lastWall) \ Aside')
    <3> DEFINE B == Aside'
    <3>1. B \cap Units(0, lastWall) \subseteq Aside /\ lastWall <= lastWall
      BY <1>n, <1>k
    <3> HIDE DEF B
    <3>2. Within(uptime, Units(0, lastWall) \ B)
      BY <1>n, <1>c, <3>1, RoomLeft
    <3> QED
      BY <3>2 DEF B
  <2>3. Within(uptime', Units(0, lastWall') \ Aside')
    BY <1>k, <2>2
  <2> QED
    BY <2>1, <2>3 DEF CreditInv
<1>1. CASE SettleTick \/ \E a \in Apps \cup {NoApp} : ActiveApp(a)
  <2>1. Settle /\ UNCHANGED seed /\ UNCHANGED machine /\ UNCHANGED history /\ saved' = saved
    BY <1>1 DEF SettleTick, ActiveApp
  <2>2. UNCHANGED <<journal, bootedAt, boots, seeding, seeded, exposed, saved>> /\ lastWall' = wall
    BY <2>1, SettleTypes DEF seed, machine, history
  <2>3. Aside' = Aside
    BY <2>2, JournalKept
  <2>4. Within(uptime', Units(0, wall) \ Aside)
    BY <1>c, <2>1, SettlingCredits
  <2>5. SavedInv'
    BY <1>n, <1>c, <2>2, SavedKept
  <2> QED
    BY <2>2, <2>3, <2>4, <2>5 DEF CreditInv
<1>2. CASE Persist
  <2>1. /\ Settle /\ UNCHANGED seed /\ UNCHANGED machine
        /\ saved' = [uptime |-> uptime', apps |-> apps', appsDay |-> appsDay',
                     active |-> active, seeded |-> seeded]
        /\ exposed' = IF seeded THEN "nothing"
                      ELSE IF seeding = "fold" /\ boots # Listed THEN "past boots" ELSE "this boot"
    BY <1>2 DEF Persist
  <2>2. /\ UNCHANGED <<journal, bootedAt, boots, seeding, seeded>> /\ lastWall' = wall
        /\ saved'.uptime = uptime' /\ saved'.seeded = seeded /\ uptime' \in [Days -> Nat]
    BY <2>1, SettleTypes DEF seed, machine
  <2>3. Aside' = Aside
    BY <2>2, JournalKept
  <2>4. Within(uptime', Units(0, wall) \ Aside)
    BY <1>c, <2>1, SettlingCredits
  <2>5. seeded => Within(uptime', Units(0, wall))
    <3>1. {} \cap Units(0, wall) \subseteq Aside /\ Units(0, wall) = Units(0, wall) \ {} /\ wall <= wall
      BY <1>n
    <3>2. Within(uptime', Units(0, wall) \ {})
      BY <1>n, <2>2, <2>4, <3>1, RoomLeft
    <3> QED
      BY <3>1, <3>2
  <2>6. ~seeded /\ exposed' # "past boots" => Within(uptime', Units(0, wall) \ Booted(journal))
    BY <1>b, <2>1, <2>4
  <2>7. ~seeded => exposed' # "nothing"
    BY <2>1
  <2>8. SavedInv'
    BY <2>2, <2>5, <2>6, <2>7 DEF SavedInv
  <2> QED
    BY <2>2, <2>3, <2>4, <2>8 DEF CreditInv
<1>3. CASE Tick \/ Sleep \/ UNCHANGED vars
  <2>1. UNCHANGED <<journal, bootedAt, boots, seeding, seeded, lastWall, uptime, saved, exposed>>
    BY <1>3 DEF Tick, Sleep, vars, ledger, clock, seed, machine, history
  <2>2. Aside' = Aside
    BY <2>1, JournalKept
  <2> QED
    BY <1>k, <2>1, <2>2
<1>4. CASE SeedStart
  <2>1. /\ UNCHANGED <<uptime, lastWall, saved, exposed, journal, bootedAt, seeded>>
        /\ seeding = "start"
        /\ \/ ~seeded /\ boots' = Listed /\ seeding' = "fold"
           \/ boots' = <<>> /\ seeding' = "off"
    BY <1>4 DEF SeedStart, clock, ledger, history, machine
  <2>2. Listed' = Listed
    BY <2>1 DEF Listed
  <2>3. Aside' = Aside
    BY <2>1, <2>2 DEF Aside
  <2> QED
    BY <1>k, <2>1, <2>3
<1>5. CASE SeedBoot
  <2> DEFINE from == Head(boots)[1]
             to == Head(boots)[2]
             B == Booted(Tail(boots))
             S == Units(0, lastWall) \ Aside
             W == Units(0, lastWall) \ B
  <2>1. /\ seeding = "fold" /\ boots # <<>> /\ boots' = Tail(boots)
        /\ UNCHANGED <<lastWall, saved, exposed, journal, bootedAt, seeded, seeding>>
    BY <1>5 DEF SeedBoot, clock, machine
  <2>2. uptime' = uptime \/ uptime' = Credited(uptime, from, to)
    BY <1>5 DEF SeedBoot
  <2>3. /\ ~seeded /\ Orderly(boots, bootedAt) /\ Len(boots) <= Len(Listed) /\ Len(Listed) \in Nat
    BY <1>b, <2>1, ListedOrderly DEF JournalInv
  <2>4. /\ Len(Tail(boots)) = Len(boots) - 1 /\ Len(boots) \in Nat
        /\ from \in Nat /\ to \in Nat /\ to <= bootedAt
        /\ Booted(boots) = Units(from, to) \cup B /\ Units(from, to) \cap B = {}
    BY <1>b, <2>1, <2>3, FirstBoot
  <2>5. Aside' = B
    <3>1. Listed' = Listed
      BY <2>1 DEF Listed
    <3>2. Tail(boots) # Listed
      BY <2>3, <2>4
    <3> QED
      BY <2>1, <3>1, <3>2 DEF Aside
  <2>6. Booted(boots) \subseteq Aside
    <3>1. CASE boots = Listed
      BY <1>b, <2>3, <3>1, ListedOrderly
    <3>2. CASE boots # Listed
      BY <2>1, <3>2 DEF Aside
    <3> QED
      BY <3>1, <3>2
  <2>w. W = Units(0, lastWall) \ B /\ S = Units(0, lastWall) \ Aside
    OBVIOUS
  <2> HIDE DEF from, to, B, S, W
  <2>7. to <= lastWall /\ Units(from, to) \in SUBSET Units(0, lastWall)
    BY <1>n, <1>b, <2>4 DEF Units
  <2>8. /\ S \in SUBSET Units(0, lastWall) /\ W \in SUBSET Units(0, lastWall)
        /\ S \in SUBSET W /\ S \cap Units(from, to) = {} /\ S \cup Units(from, to) \in SUBSET W
        /\ Within(uptime, S)
    BY <1>c, <2>4, <2>6, <2>7, <2>w
  <2>9. Within(uptime', W)
    <3>1. CASE uptime' = uptime
      BY <1>n, <2>8, <3>1, MoreRoom
    <3>2. CASE uptime' = Credited(uptime, from, to)
      <4>1. Within(Credited(uptime, from, to), S \cup Units(from, to))
        BY <1>n, <2>4, <2>7, <2>8, CreditedWithin
      <4>2. Credited(uptime, from, to) \in [Days -> Nat]
        BY <1>n, <2>4, Credit
      <4>3. Within(Credited(uptime, from, to), W)
        BY <1>n, <2>8, <4>1, <4>2, MoreRoom
      <4> QED
        BY <3>2, <4>3
    <3> QED
      BY <2>2, <3>1, <3>2
  <2>10. SavedInv'
    BY <1>n, <1>c, <2>1, SavedKept
  <2> QED
    BY <2>1, <2>5, <2>9, <2>10, <2>w DEF CreditInv
<1>6. CASE SeedEnd
  <2>1. /\ UNCHANGED <<uptime, lastWall, saved, exposed, journal, bootedAt>>
        /\ seeded' /\ seeding' = "off"
    BY <1>6 DEF SeedEnd, clock, ledger, history, machine
  <2>2. Aside' = {}
    BY <2>1 DEF Aside
  <2> QED
    BY <1>k, <2>1, <2>2
<1>7. CASE Restart
  <2>1. Load(wall) /\ UNCHANGED <<saved, exposed, journal, bootedAt>>
    BY <1>7, RestartParts
  <2>2. exposed # "past boots"
    BY <1>7, Zenon DEF Restart
  <2>3. lastWall' = wall
    BY <2>1 DEF Load
  <2>4. SavedInv'
    BY <1>n, <1>c, <2>1, <2>3, SavedKept
  <2>5. /\ saved.seeded => Within(saved.uptime, Units(0, wall))
        /\ ~saved.seeded => Within(saved.uptime, Units(0, wall) \ Booted(journal'))
    BY <2>1, <2>2, <2>3, <2>4 DEF SavedInv
  <2>6. Aside' = (IF seeded' THEN {} ELSE Booted(journal'))
    <3>1. bootedAt <= wall /\ Orderly(journal', bootedAt)
      BY <1>n, <1>b, <2>1
    <3> QED
      BY <1>n, <1>b, <2>1, <3>1, JournalLoaded
  <2> QED
    BY <1>n, <2>1, <2>4, <2>5, <2>6, LoadCredits DEF CreditInv
<1>8. CASE Reboot
  <2>1. /\ Load(wall + 1) /\ saved' = saved /\ exposed' = "nothing"
        /\ journal' = <<<<bootedAt, wall>>>> \o journal /\ bootedAt' = wall + 1
    BY <1>8, RebootParts
  <2>2. exposed = "nothing"
    BY <1>8, Zenon DEF Reboot
  <2>3. /\ lastWall' = wall + 1 /\ wall + 1 \in Nat /\ wall + 1 <= wall + 1
        /\ bootedAt <= wall /\ bootedAt <= wall + 1 /\ lastWall <= wall + 1
    BY <1>n, <1>b, <2>1 DEF Load
  <2>4. Orderly(journal', wall + 1) /\ Booted(journal') = Units(bootedAt, wall) \cup Booted(journal)
    BY <1>n, <1>b, <2>1, <2>3, NewestBoot
  <2>5. saved.seeded => Within(saved.uptime, Units(0, wall + 1))
    <3> SUFFICES ASSUME saved.seeded
                 PROVE  Within(saved.uptime, Units(0, wall + 1))
      OBVIOUS
    <3>1. /\ Units(0, lastWall) = Units(0, lastWall) \ {}
          /\ Units(0, wall + 1) = Units(0, wall + 1) \ {}
      OBVIOUS
    <3>2. Within(saved.uptime, Units(0, lastWall) \ {})
      BY <1>c, <3>1 DEF SavedInv
    <3>3. Within(saved.uptime, Units(0, wall + 1) \ {})
      BY <1>n, <2>3, <3>2, RoomLeft
    <3> QED
      BY <3>1, <3>3
  <2>6. ~saved.seeded => Within(saved.uptime, Units(0, wall + 1) \ Booted(journal'))
    <3> SUFFICES ASSUME ~saved.seeded
                 PROVE  Within(saved.uptime, Units(0, wall + 1) \ Booted(journal'))
      OBVIOUS
    <3> DEFINE B == Booted(journal')
    <3>1. Within(saved.uptime, Units(0, bootedAt) \ Booted(journal))
      BY <1>c, <2>2 DEF SavedInv
    <3>2. B \cap Units(0, bootedAt) \subseteq Booted(journal)
      BY <1>n, <1>b, <2>4 DEF Units
    <3> HIDE DEF B
    <3>3. Within(saved.uptime, Units(0, wall + 1) \ B)
      BY <1>n, <1>b, <2>3, <3>1, <3>2, RoomLeft
    <3> QED
      BY <3>3 DEF B
  <2>7. SavedInv'
    BY <2>1, <2>3, <2>5, <2>6 DEF SavedInv
  <2>8. Aside' = (IF seeded' THEN {} ELSE Booted(journal'))
    BY <2>1, <2>3, <2>4, JournalLoaded
  <2>9. Within(uptime', Units(0, lastWall') \ Aside')
    BY <2>1, <2>3, <2>5, <2>6, <2>8, LoadCredits
  <2> QED
    BY <2>7, <2>9 DEF CreditInv
<1> QED
  BY <1>1, <1>2, <1>3, <1>4, <1>5, <1>6, <1>7, <1>8 DEF Next

\* Both parts together.
LEMMA FoldStep ==
  ASSUME TypeOK, RowsInv, FoldInv, [Next]_vars
  PROVE  FoldInv'
<1>1. JournalInv /\ JournalInv' /\ (again => again') /\ (misread => misread')
  BY JournalStep, HistorySteps DEF FoldInv
<1>2. ASSUME ~again', ~misread'
      PROVE  CreditInv'
  <2>1. ~again /\ ~misread
    BY <1>1, <1>2, Zenon
  <2>2. CreditInv
    BY <2>1, Zenon DEF FoldInv
  <2> QED
    BY <1>1, <1>2, <2>2, CreditStep
<1> QED
  BY <1>1, <1>2, Zenon DEF FoldInv

\* A new ledger has credited nothing.
LEMMA FoldInit ==
  ASSUME Init
  PROVE  FoldInv
<1>1. /\ Installed \in Nat /\ lastWall = Installed /\ bootedAt = Installed
      /\ uptime = [d \in Days |-> 0] /\ journal = PastBoots /\ seeding = "start"
      /\ saved.uptime = uptime /\ ~saved.seeded
  BY TimeAssumption DEF Init
<1>2. JournalInv
  BY <1>1, BootAssumption DEF JournalInv, Orderly
<1>3. ASSUME NEW S \in SUBSET Units(0, Installed)
      PROVE  Within(uptime, S)
  <2>1. \A d \in Days : Cardinality(OfDay(S, d)) \in Nat
    BY <1>1, OfDayCounts
  <2> QED
    BY <1>1, <2>1 DEF Within
<1>4. CreditInv
  BY <1>1, <1>3 DEF CreditInv, SavedInv
<1> QED
  BY <1>2, <1>4 DEF FoldInv

\* Neither the journal and settle() together nor a second reading of the
\* journal credit a day with more time than it has, for any boots, restarts
\* and reboots, however the reading of the journal fails - unless a service
\* begins with a ledger saved in the middle of the folding, or after a reboot
\* with one saved before the marker, or a boot's first entry was unreadable.
\* What the journal has is set aside until it is folded, and the ledger that
\* is saved leaves it out wherever it will be folded again.
THEOREM DaysHoldDays == Spec => []DayHoldsADay
<1>1. ASSUME TypeOK, FoldInv
      PROVE  DayHoldsADay
  <2> SUFFICES ASSUME ~again, ~misread, NEW d \in Days
               PROVE  uptime[d] <= DayLength
    BY Zenon DEF DayHoldsADay
  <2> DEFINE S == Units(0, lastWall) \ Aside
  <2>0. CreditInv
    BY <1>1, Zenon DEF FoldInv
  <2>1. /\ lastWall \in Nat /\ uptime \in [Days -> Nat] /\ S \in SUBSET Units(0, lastWall)
        /\ Within(uptime, S)
    BY <1>1, <2>0, Numbers DEF CreditInv
  <2>2. d \in Nat /\ DayLength \in Nat
    BY TimeAssumption DEF Days
  <2> HIDE DEF S
  <2>3. Cardinality(OfDay(S, d)) \in Nat /\ Cardinality(OfDay(S, d)) <= DayLength
    BY <2>1, <2>2, OfDayCounts
  <2>4. uptime[d] \in Nat /\ uptime[d] <= Cardinality(OfDay(S, d))
    BY <2>1 DEF Within
  <2> QED
    BY <2>2, <2>3, <2>4
<1> QED
  BY <1>1, FoldInit, FoldStep, RowsInit, RowsStep, TypeCorrect, PTL DEF Spec

=============================================================================
