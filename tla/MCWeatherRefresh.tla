-------------------------- MODULE MCWeatherRefresh --------------------------
(* Two locations, two units and one connection beside the main loop: the   *)
(* least in which an answer can be late for the location, for the units or *)
(* for both.                                                               *)
EXTENDS WeatherRefresh

CONSTANTS Here, Metric

Selected == [place |-> Here, units |-> Metric]
=============================================================================
