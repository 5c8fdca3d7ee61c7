--------------------------- MODULE WeatherRefresh ---------------------------
(***************************************************************************)
(* The weather of kos-data-service (weather.go 164-252 and 676-882):       *)
(* handlers select a location and units, tickers and handlers start        *)
(* refreshes, requests answer later or fail, and only an answer whose      *)
(* serial is still current may be shown.                                   *)
(*                                                                         *)
(* A reading is abstracted to what it is a reading OF: its location and    *)
(* units.  Time is abstracted to one bit: whether NextRefreshAt is past.   *)
(***************************************************************************)
EXTENDS Naturals, FiniteSets

CONSTANTS
  Places, Units, Threads,
  Main,         \* the main loop, whose ticks start automatic refreshes
  Default,      \* the built-in location and units
  NoReading,
  MaxSerial,    \* bound: weatherRequestSerial; a start at the bound is refused
  MaxOutages,   \* bound: changes of the provider's health
  MaxCrashes    \* bound: crashes of the service

Selection == [place : Places, units : Units]

ASSUME ThreadAssumption  == Main \in Threads
ASSUME DefaultAssumption == Default \in Selection /\ NoReading \notin Selection
                            /\ NoReading \notin Places /\ NoReading \notin Units
ASSUME BoundAssumption   == MaxSerial \in Nat /\ MaxOutages \in Nat /\ MaxCrashes \in Nat

VARIABLES
  weather,   \* s.state.Weather
  serial,    \* s.weatherRequestSerial
  saved,     \* the weather of state.json
  next,      \* NextRefreshAt: "due" or still "later"
  pc,        \* handler or tick: "idle", "start" (after a change), "launch"
  launching, \* the request it will issue
  requests,  \* fetchWeather goroutines
  provider,  \* "up" or "down"
  outages, crashes

bounds == <<outages, crashes>>
vars == <<weather, serial, saved, next, pc, launching, requests, provider, bounds>>

Statuses == {"idle", "loading", "ready", "error"}
Errors   == {"none", "unreachable"}
Weather ==
  [selected : Selection, status : Statuses, error : Errors,
   current : Selection \cup {NoReading},      \* Current, Hourly, Daily
   air : Places \cup {NoReading},             \* AirQuality
   summary : [Places -> Units \cup {NoReading}]]  \* Locations[i].Summary
RequestType ==
  [serial : Nat, selected : Selection,
   stage : {"forecast", "commit", "publish"}, error : Errors,
   air : Places \cup {NoReading}, summaries : SUBSET Places]

TypeOK ==
  /\ weather \in Weather /\ saved \in Weather
  /\ serial \in Nat
  /\ next \in {"due", "later"} /\ provider \in {"up", "down"}
  /\ pc \in [Threads -> {"idle", "start", "launch"}]
  /\ launching \in [Threads -> [serial : Nat, selected : Selection]]
  /\ requests \subseteq RequestType
  /\ outages \in Nat /\ crashes \in Nat

NoLaunch == [serial |-> 0, selected |-> Default]

\* defaultWeatherState.
DefaultWeather ==
  [selected |-> Default, status |-> "idle", error |-> "none",
   current |-> NoReading, air |-> NoReading,
   summary |-> [p \in Places |-> NoReading]]

Init ==
  /\ weather = DefaultWeather /\ saved = DefaultWeather
  /\ serial = 0 /\ next = "due"
  /\ pc = [t \in Threads |-> "idle"]
  /\ launching = [t \in Threads |-> NoLaunch]
  /\ requests = {}
  /\ provider = "up"
  /\ outages = 0 /\ crashes = 0

\* normalizeWeatherState: "a persisted loading marker means the process
\* stopped mid-request".
Normalize(w) ==
  [w EXCEPT !.status = IF w.current # NoReading THEN "ready"
                       ELSE IF w.status = "error" THEN "error" ELSE "idle"]

-----------------------------------------------------------------------------
(* Handlers and ticks.                                                     *)

\* Faulty variant: the refresh that follows is announced by the handler.
ClearedLoading(w, selection) ==
  [w EXCEPT !.selected = selection, !.status = "loading", !.error = "none",
            !.current = NoReading]

\* What set-location and set-units forget: everything but air quality and
\* the summaries of the locations.
Cleared(w, selection) ==
  [w EXCEPT !.selected = selection, !.status = "idle", !.error = "none",
            !.current = NoReading]

Select(t, selection, w) ==
  /\ pc[t] = "idle" /\ t # Main /\ serial < MaxSerial
  /\ serial' = serial + 1
  /\ weather' = Cleared(w, selection)
  /\ next' = "due"
  /\ pc' = [pc EXCEPT ![t] = "start"]
  /\ UNCHANGED <<saved, launching, requests, provider, bounds>>

\* The location in the request may carry the summary of its sidebar card.
SetLocation(t, p) ==
  \E carried \in {NoReading, weather.summary[p]} :
    Select(t, [weather.selected EXCEPT !.place = p],
           [weather EXCEPT !.summary[p] = carried])

SetUnits(t, u) ==
  /\ u # weather.selected.units
  /\ Select(t, [weather.selected EXCEPT !.units = u], weather)

\* startWeatherRefresh, forced after a change or automatic on a tick.
StartRefresh(t, force) ==
  /\ pc[t] = IF force THEN "start" ELSE "idle"
  /\ IF weather.status = "loading" \/ (~force /\ next = "later") \/ serial = MaxSerial
     THEN /\ pc' = [pc EXCEPT ![t] = "idle"]
          /\ UNCHANGED <<weather, serial, launching>>
     ELSE /\ serial' = serial + 1
          /\ weather' = [weather EXCEPT !.status = "loading", !.error = "none"]
          /\ launching' = [launching EXCEPT ![t] =
                             [serial |-> serial', selected |-> weather.selected]]
          /\ pc' = [pc EXCEPT ![t] = "launch"]
  /\ UNCHANGED <<saved, next, requests, provider, bounds>>

\* weather.refresh: a forced start with no change before it.
RefreshRequest(t) ==
  /\ pc[t] = "idle" /\ t # Main
  /\ pc' = [pc EXCEPT ![t] = "start"]
  /\ UNCHANGED <<weather, serial, saved, next, launching, requests, provider, bounds>>

\* persist, publish, then `go s.fetchWeather(...)`.
Launch(t) ==
  /\ pc[t] = "launch"
  /\ requests' = requests \cup
       {[serial |-> launching[t].serial, selected |-> launching[t].selected, stage |-> "forecast",
         error |-> "none", air |-> NoReading, summaries |-> {}]}
  /\ launching' = [launching EXCEPT ![t] = NoLaunch]
  /\ pc' = [pc EXCEPT ![t] = "idle"]
  /\ UNCHANGED <<weather, serial, saved, next, provider, bounds>>

-----------------------------------------------------------------------------
(* fetchWeather.                                                           *)

\* Forecast returns or the 20-second context expires; air quality and the
\* batch of summaries are best effort.
Forecast(r) ==
  /\ r.stage = "forecast"
  /\ \E air \in {NoReading, r.selected.place}, batch \in {{}, Places} :
       LET answer == IF provider = "up"
             THEN [r EXCEPT !.stage = "commit", !.air = air,
                            !.summaries = batch \cup {r.selected.place}]
             ELSE [r EXCEPT !.stage = "commit", !.error = "unreachable"]
       IN  requests' = (requests \ {r}) \cup {answer}
  /\ UNCHANGED <<weather, serial, saved, next, pc, launching, provider, bounds>>

\* "serial != s.weatherRequestSerial": a late answer is dropped.
Drop(r) ==
  /\ r.stage = "commit" /\ r.serial # serial
  /\ requests' = requests \ {r}
  /\ UNCHANGED <<weather, serial, saved, next, pc, launching, provider, bounds>>

Failed(w) ==
  [w EXCEPT !.error = "unreachable",
            !.status = IF w.current # NoReading THEN "ready" ELSE "error"]

\* Faulty variant: the reading is filed under the request, not its place.
SucceededMisfiled(w, r) ==
  [w EXCEPT !.error = "none", !.status = "ready", !.current = r.selected,
            !.air = IF r.air # NoReading THEN r.selected ELSE @,
            !.summary = [p \in Places |->
               IF p \in r.summaries THEN r.selected.units ELSE w.summary[p]]]

Succeeded(w, r) ==
  [w EXCEPT !.error = "none", !.status = "ready", !.current = r.selected,
            !.air = IF r.air # NoReading THEN r.air ELSE @,
            !.summary = [p \in Places |->
               IF p \in r.summaries THEN r.selected.units ELSE w.summary[p]]]

\* Faulty variant: any answer is shown.
CommitAny(r) ==
  /\ r.stage = "commit"
  /\ weather' = IF r.error = "none" THEN Succeeded(weather, r) ELSE Failed(weather)
  /\ next' = "later"
  /\ requests' = (requests \ {r}) \cup {[r EXCEPT !.stage = "publish"]}
  /\ UNCHANGED <<serial, saved, pc, launching, provider, bounds>>

\* The answer is current: show it or record the failure, and set
\* NextRefreshAt; nothing is published if status and error did not change.
Commit(r) ==
  /\ r.stage = "commit" /\ r.serial = serial
  /\ weather' = IF r.error = "none" THEN Succeeded(weather, r) ELSE Failed(weather)
  /\ next' = "later"
  /\ LET unchanged == /\ r.error # "none"
                      /\ weather'.status = weather.status /\ weather'.error = weather.error
     IN  requests' = (requests \ {r}) \cup
           (IF unchanged THEN {} ELSE {[r EXCEPT !.stage = "publish"]})
  /\ UNCHANGED <<serial, saved, pc, launching, provider, bounds>>

\* persist and publishWeather end the goroutine.
PublishResult(r) ==
  /\ r.stage = "publish"
  /\ requests' = requests \ {r}
  /\ saved' = weather
  /\ UNCHANGED <<weather, serial, next, pc, launching, provider, bounds>>

-----------------------------------------------------------------------------
(* Around it.                                                              *)

\* persist() by any caller at any time (see Persistence).
Save ==
  /\ saved # weather /\ saved' = weather
  /\ UNCHANGED <<weather, serial, next, pc, launching, requests, provider, bounds>>

\* The clock reaches NextRefreshAt.
Elapse ==
  /\ next = "later" /\ next' = "due"
  /\ UNCHANGED <<weather, serial, saved, pc, launching, requests, provider, bounds>>

ProviderChanges ==
  /\ outages < MaxOutages
  /\ outages' = outages + 1 /\ provider' = (IF provider = "up" THEN "down" ELSE "up")
  /\ UNCHANGED <<weather, serial, saved, next, pc, launching, requests, crashes>>

\* A crash and the next start; NextRefreshAt is saved, so it may be due or not.
Crash ==
  /\ crashes < MaxCrashes
  /\ crashes' = crashes + 1
  /\ weather' = Normalize(saved)
  /\ serial' = 0 /\ next' \in {"due", "later"}
  /\ pc' = [t \in Threads |-> "idle"]
  /\ launching' = [t \in Threads |-> NoLaunch]
  /\ requests' = {}
  /\ UNCHANGED <<saved, provider, outages>>

RequestStep(r) == Forecast(r) \/ Drop(r) \/ Commit(r) \/ PublishResult(r)
ThreadStep(t)  == StartRefresh(t, TRUE) \/ Launch(t)

Next ==
  \/ \E t \in Threads : \/ \E p \in Places : SetLocation(t, p)
                        \/ \E u \in Units : SetUnits(t, u)
                        \/ RefreshRequest(t) \/ ThreadStep(t)
  \/ StartRefresh(Main, FALSE)
  \/ \E r \in requests : RequestStep(r)
  \/ Save \/ Elapse \/ ProviderChanges \/ Crash

\* Goroutines run, requests end (they carry a timeout), the ticker ticks and
\* time passes.
Fairness ==
  /\ \A t \in Threads : WF_vars(ThreadStep(t))
  /\ WF_vars(StartRefresh(Main, FALSE)) /\ WF_vars(Elapse)
  /\ WF_vars(\E r \in requests : RequestStep(r))

Spec == Init /\ [][Next]_vars
FairSpec == Spec /\ Fairness

-----------------------------------------------------------------------------
(* Properties.                                                             *)

\* The conditions shown are those of the selected location in the selected
\* units, however many requests answer late and whatever was saved.
ShownIsSelected ==
  weather.current # NoReading => weather.current = weather.selected

\* Why a spinner ends (a part of the proof's invariant): "loading" means that a request with
\* the current serial is being launched or in flight.
LoadingHasRequest ==
  weather.status = "loading" =>
    \/ \E t \in Threads : pc[t] = "launch" /\ launching[t].serial = serial
    \/ \E r \in requests : r.serial = serial /\ r.stage \in {"forecast", "commit"}

\* A refresh ends: no client is left with a spinner.
LoadingEnds == weather.status = "loading" ~> weather.status # "loading"

\* AirQuality is "the current US AQI reading for the selected location".
AirIsForSelected == weather.air \in {NoReading, weather.selected.place}
=============================================================================
