------------------------ MODULE WeatherRefreshProofs ------------------------
(***************************************************************************)
(* Theorems about WeatherRefresh for every set of locations, units and     *)
(* goroutines.  The serial is what ties an answer to the selection: every  *)
(* request that carries the current serial asks for what is selected now,  *)
(* because both change in one critical section.                            *)
(***************************************************************************)
EXTENDS WeatherRefresh, TLAPS

Live == {"forecast", "commit"}

\* Whatever carries the current serial asks for the current selection.
SerialInv ==
  /\ \A t \in Threads : launching[t].serial <= serial
  /\ \A t \in Threads : pc[t] = "launch" /\ launching[t].serial = serial
                         => launching[t].selected = weather.selected
  /\ \A r \in requests : r.serial <= serial
  /\ \A r \in requests : r.stage \in Live /\ r.serial = serial
                         => r.selected = weather.selected

\* What was saved was shown, and is what its own selection asked for.
SavedInv == saved.current # NoReading => saved.current = saved.selected

IInv == TypeOK /\ SerialInv /\ SavedInv /\ ShownIsSelected /\ LoadingHasRequest

-----------------------------------------------------------------------------

LEMMA SelectionUpdates ==
  ASSUME NEW s \in Selection, NEW p \in Places, NEW u \in Units
  PROVE  [s EXCEPT !.place = p] \in Selection /\ [s EXCEPT !.units = u] \in Selection
  BY DEF Selection

LEMMA SelectionPlace == \A s \in Selection : s.place \in Places /\ s.units \in Units
  BY DEF Selection

LEMMA DefaultWeatherType == DefaultWeather \in Weather
  BY DefaultAssumption DEF Weather, DefaultWeather, Statuses, Errors

LEMMA InitIInv == Init => IInv
<1> SUFFICES ASSUME Init PROVE IInv
  OBVIOUS
<1>1. TypeOK
  BY DefaultAssumption, DefaultWeatherType DEF Init, TypeOK, NoLaunch, Errors
<1>2. SerialInv /\ SavedInv /\ ShownIsSelected /\ LoadingHasRequest
  BY DefaultAssumption
  DEF Init, SerialInv, SavedInv, ShownIsSelected, LoadingHasRequest,
      DefaultWeather, NoLaunch
<1> QED
  BY <1>1, <1>2 DEF IInv

LEMMA ClearedType ==
  ASSUME NEW s \in Selection, NEW w \in Weather
  PROVE  Cleared(w, s) \in Weather
  BY DEF Cleared, Weather, Statuses, Errors

\* startWeatherRefresh either refuses or takes the next serial.
Refuses(t) ==
  pc' = [pc EXCEPT ![t] = "idle"] /\ UNCHANGED <<weather, serial, launching>>
Takes(t) ==
  /\ serial' = serial + 1
  /\ weather' = [weather EXCEPT !.status = "loading", !.error = "none"]
  /\ launching' = [launching EXCEPT ![t] =
                     [serial |-> serial', selected |-> weather.selected]]
  /\ pc' = [pc EXCEPT ![t] = "launch"]
Starts(t) ==
  /\ pc[t] # "launch"
  /\ Refuses(t) \/ Takes(t)
  /\ UNCHANGED <<saved, next, requests, provider, bounds>>

LEMMA StartCases ==
  ASSUME NEW t \in Threads, StartRefresh(t, TRUE) \/ StartRefresh(t, FALSE)
  PROVE  Starts(t)
  BY DEF StartRefresh, Starts, Refuses, Takes

\* What a request becomes when its forecast is there.
Answered(q, r) ==
  /\ q.serial = r.serial /\ q.selected = r.selected /\ q.stage = "commit"
  /\ q \in RequestType

LEMMA ForecastAnswers ==
  ASSUME NEW r \in RequestType, Forecast(r)
  PROVE  \E q : Answered(q, r) /\ requests' = (requests \ {r}) \cup {q}
<1>1. PICK air \in {NoReading, r.selected.place}, batch \in {{}, Places} :
        requests' = (requests \ {r}) \cup
          {IF provider = "up"
           THEN [r EXCEPT !.stage = "commit", !.air = air,
                          !.summaries = batch \cup {r.selected.place}]
           ELSE [r EXCEPT !.stage = "commit", !.error = "unreachable"]}
  BY DEF Forecast
<1>2. r.selected.place \in Places
  BY SelectionPlace DEF RequestType
<1>3. Answered([r EXCEPT !.stage = "commit", !.air = air,
                         !.summaries = batch \cup {r.selected.place}], r)
  BY <1>2 DEF Answered, RequestType
<1>4. Answered([r EXCEPT !.stage = "commit", !.error = "unreachable"], r)
  BY DEF Answered, RequestType, Errors
<1> QED
  BY <1>1, <1>3, <1>4

LEMMA SelectType ==
  ASSUME TypeOK, NEW t \in Threads, NEW s \in Selection, NEW w \in Weather, Select(t, s, w)
  PROVE  TypeOK'
  BY BoundAssumption, ClearedType DEF TypeOK, Select, Errors, bounds

LEMMA NextTypeOK == TypeOK /\ [Next]_vars => TypeOK'
<1> SUFFICES ASSUME TypeOK, [Next]_vars PROVE TypeOK'
  OBVIOUS
<1> USE ThreadAssumption, DefaultAssumption, BoundAssumption DEF TypeOK, bounds, NoLaunch
<1>1. ASSUME NEW t \in Threads, NEW p \in Places, SetLocation(t, p)
      PROVE  TypeOK'
  <2>1. PICK carried \in {NoReading, weather.summary[p]} :
          Select(t, [weather.selected EXCEPT !.place = p],
                 [weather EXCEPT !.summary[p] = carried])
    BY <1>1 DEF SetLocation
  <2>2. [weather.selected EXCEPT !.place = p] \in Selection
    BY SelectionUpdates, SelectionPlace DEF Weather
  <2>3. [weather EXCEPT !.summary[p] = carried] \in Weather
    BY DEF Weather
  <2> QED
    BY <2>1, <2>2, <2>3, SelectType
<1>2. ASSUME NEW t \in Threads, NEW u \in Units, SetUnits(t, u)
      PROVE  TypeOK'
  <2>1. [weather.selected EXCEPT !.units = u] \in Selection
    BY SelectionUpdates, SelectionPlace DEF Weather
  <2> QED
    BY <1>2, <2>1, SelectType DEF SetUnits
<1>3. ASSUME NEW t \in Threads, RefreshRequest(t)
      PROVE  TypeOK'
  BY <1>3 DEF RefreshRequest
<1>4. ASSUME NEW t \in Threads, StartRefresh(t, TRUE) \/ StartRefresh(t, FALSE)
      PROVE  TypeOK'
  <2>1. [weather EXCEPT !.status = "loading", !.error = "none"] \in Weather
        /\ weather.selected \in Selection
    BY DEF Weather, Statuses, Errors
  <2>2. Starts(t)
    BY <1>4, StartCases
  <2>3. CASE Refuses(t)
    BY <2>2, <2>3 DEF Starts, Refuses
  <2>4. CASE Takes(t)
    <3>1. weather' \in Weather /\ serial' \in Nat
      BY <2>1, <2>4 DEF Takes
    <3>2. pc' \in [Threads -> {"idle", "start", "launch"}]
      BY <2>4 DEF Takes
    <3>3. launching' \in [Threads -> [serial : Nat, selected : Selection]]
      BY <2>1, <2>4, <3>1 DEF Takes
    <3> QED
      BY <2>2, <3>1, <3>2, <3>3 DEF Starts
  <2> QED
    BY <2>2, <2>3, <2>4 DEF Starts
<1>5. ASSUME NEW t \in Threads, Launch(t)
      PROVE  TypeOK'
  BY <1>5 DEF Launch, RequestType, Errors
<1>6. ASSUME NEW r \in requests, Forecast(r)
      PROVE  TypeOK'
  BY <1>6, ForecastAnswers DEF Forecast, Answered
<1>7. ASSUME NEW r \in requests, Drop(r)
      PROVE  TypeOK'
  BY <1>7 DEF Drop
<1>8. ASSUME NEW r \in requests, Commit(r)
      PROVE  TypeOK'
  <2>1. Failed(weather) \in Weather
    BY DEF Failed, Weather, Statuses, Errors
  <2>2. r \in RequestType /\ r.selected \in Selection
    BY DEF RequestType
  <2>3. Succeeded(weather, r) \in Weather
    BY <2>2, SelectionPlace DEF Succeeded, Weather, Statuses, Errors, RequestType
  <2>4. weather' \in Weather
    BY <1>8, <2>1, <2>3 DEF Commit
  <2>5. [r EXCEPT !.stage = "publish"] \in RequestType
    BY <2>2 DEF RequestType
  <2>6. requests' \subseteq RequestType
    BY <1>8, <2>5 DEF Commit
  <2> QED
    BY <1>8, <2>2, <2>4, <2>6 DEF Commit, RequestType
<1>9. ASSUME NEW r \in requests, PublishResult(r)
      PROVE  TypeOK'
  BY <1>9 DEF PublishResult
<1>10. CASE Save \/ Elapse \/ ProviderChanges
  BY <1>10 DEF Save, Elapse, ProviderChanges
<1>11. CASE Crash
  <2>1. weather' \in Weather
    BY <1>11 DEF Crash, Normalize, Weather, Statuses
  <2> QED
    BY <1>11, <2>1 DEF Crash, Errors
<1>12. CASE UNCHANGED vars
  BY <1>12 DEF vars
<1> QED
  BY <1>1, <1>2, <1>3, <1>4, <1>5, <1>6, <1>7, <1>8, <1>9, <1>10, <1>11, <1>12
  DEF Next, RequestStep, ThreadStep

\* The serials are numbers: all that the invariant needs of the types.
LEMMA Serials ==
  ASSUME TypeOK
  PROVE  /\ serial \in Nat /\ pc \in [Threads -> {"idle", "start", "launch"}]
         /\ DOMAIN launching = Threads
         /\ \A t \in Threads : launching[t].serial \in Nat
         /\ \A r \in requests : r.serial \in Nat
         /\ \A r \in requests : r = [serial |-> r.serial, selected |-> r.selected,
               stage |-> r.stage, error |-> r.error, air |-> r.air, summaries |-> r.summaries]
         /\ weather = [selected |-> weather.selected, status |-> weather.status,
               error |-> weather.error, current |-> weather.current,
               air |-> weather.air, summary |-> weather.summary]
  BY DEF TypeOK, RequestType, Weather

Rest == SerialInv /\ SavedInv /\ ShownIsSelected /\ LoadingHasRequest

LEMMA NextIInv == IInv /\ [Next]_vars => IInv'
<1> SUFFICES ASSUME IInv, [Next]_vars PROVE Rest'
  BY NextTypeOK DEF IInv, Rest
<1>s. TypeOK
  BY DEF IInv
<1> USE Serials, <1>s, ThreadAssumption, DefaultAssumption, BoundAssumption
    DEF IInv, Rest, bounds, NoLaunch, SerialInv, SavedInv, ShownIsSelected,
        LoadingHasRequest, Live
<1>1. ASSUME NEW t \in Threads, NEW s, NEW w, Select(t, s, w)
      PROVE  Rest'
  BY <1>1 DEF Select, Cleared
<1>2. ASSUME NEW t \in Threads, RefreshRequest(t)
      PROVE  Rest'
  BY <1>2 DEF RefreshRequest
<1>4. ASSUME NEW t \in Threads, StartRefresh(t, TRUE) \/ StartRefresh(t, FALSE)
      PROVE  Rest'
  <2>1. Starts(t)
    BY <1>4, StartCases
  <2>2. CASE Refuses(t)
    BY <2>1, <2>2 DEF Starts, Refuses
  <2>3. CASE Takes(t)
    <3>1. UNCHANGED <<requests, saved>> /\ serial' = serial + 1
          /\ weather'.selected = weather.selected /\ weather'.current = weather.current
      BY <2>1, <2>3 DEF Starts, Takes
    <3>2. /\ pc'[t] = "launch"
          /\ launching'[t] = [serial |-> serial', selected |-> weather.selected]
          /\ \A o \in Threads \ {t} : launching'[o] = launching[o]
      BY <2>3 DEF Takes
    <3>3. LoadingHasRequest'
      BY <3>2
    <3>4. SerialInv'
      BY <3>1, <3>2
    <3> QED
      BY <3>1, <3>3, <3>4
  <2> QED
    BY <2>1, <2>2, <2>3 DEF Starts
<1>5. ASSUME NEW t \in Threads, Launch(t)
      PROVE  Rest'
  <2> DEFINE q == [serial |-> launching[t].serial, selected |-> launching[t].selected,
                   stage |-> "forecast", error |-> "none", air |-> NoReading, summaries |-> {}]
  <2>1. requests' = requests \cup {q} /\ UNCHANGED <<weather, serial, saved>>
        /\ pc' = [pc EXCEPT ![t] = "idle"] /\ pc[t] = "launch"
        /\ launching' = [launching EXCEPT ![t] = NoLaunch]
    BY <1>5 DEF Launch
  <2>2. q.serial = launching[t].serial /\ q.selected = launching[t].selected
        /\ q.stage = "forecast"
    OBVIOUS
  <2> HIDE DEF q
  <2>3. SerialInv' /\ SavedInv' /\ ShownIsSelected'
    BY <2>1, <2>2
  <2>4. LoadingHasRequest'
    BY <2>1, <2>2
  <2> QED
    BY <2>3, <2>4
<1>6. ASSUME NEW r \in requests, Forecast(r)
      PROVE  Rest'
  <2>1. PICK q : Answered(q, r) /\ requests' = (requests \ {r}) \cup {q}
    BY <1>6, ForecastAnswers DEF TypeOK
  <2>2. UNCHANGED <<weather, serial, saved, pc, launching>> /\ r.stage = "forecast"
    BY <1>6 DEF Forecast
  <2> QED
    BY <2>1, <2>2 DEF Answered
<1>7. ASSUME NEW r \in requests, Drop(r)
      PROVE  Rest'
  BY <1>7 DEF Drop
<1>8. ASSUME NEW r \in requests, Commit(r)
      PROVE  Rest'
  BY <1>8 DEF Commit, Succeeded, Failed
<1>9. ASSUME NEW r \in requests, PublishResult(r)
      PROVE  Rest'
  BY <1>9 DEF PublishResult
<1>10. CASE Save \/ Elapse \/ ProviderChanges
  BY <1>10 DEF Save, Elapse, ProviderChanges
<1>11. CASE Crash
  BY <1>11 DEF Crash, Normalize, TypeOK, Weather
<1>12. CASE UNCHANGED vars
  BY <1>12 DEF vars
<1> QED
  BY <1>1, <1>2, <1>4, <1>5, <1>6, <1>7, <1>8, <1>9, <1>10, <1>11, <1>12
  DEF Next, RequestStep, ThreadStep, SetLocation, SetUnits

\* The types of WeatherRefresh.
THEOREM TypeCorrect == Spec => []TypeOK
<1>1. IInv => TypeOK
  BY DEF IInv
<1> QED
  BY <1>1, InitIInv, NextIInv, PTL DEF Spec

\* No answer, however late, and no restart shows the weather of another
\* place or in other units than those selected.
THEOREM ShownWeatherIsSelected == Spec => []ShownIsSelected
<1>1. IInv => ShownIsSelected
  BY DEF IInv
<1> QED
  BY <1>1, InitIInv, NextIInv, PTL DEF Spec

\* "loading" always has a request behind it that can end it.
THEOREM LoadingIsLive == Spec => []LoadingHasRequest
<1>1. IInv => LoadingHasRequest
  BY DEF IInv
<1> QED
  BY <1>1, InitIInv, NextIInv, PTL DEF Spec
=============================================================================
