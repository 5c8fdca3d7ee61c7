-------------------------- MODULE DurableDocument --------------------------
(* What kos-data-service promises about its state: a document is changed   *)
(* in memory, saved, shown to readers and announced, in that order, and a  *)
(* restart continues from what was saved.                                  *)
EXTENDS Naturals

VARIABLES
  working,  \* the newest version, in memory
  saved,    \* the version a restart would load
  shown,    \* the version a reader finds on disk
  told,     \* the newest version anybody was told of
  up        \* is the process running?

docVars == <<working, saved, shown, told, up>>

Init == working = 0 /\ saved = 0 /\ shown = 0 /\ told = 0 /\ up = FALSE

Modify ==
  /\ up /\ working' = working + 1
  /\ UNCHANGED <<saved, shown, told, up>>

Save ==
  /\ up /\ saved' \in saved..working
  /\ UNCHANGED <<working, shown, told, up>>

Show ==
  /\ up /\ shown' \in shown..saved
  /\ UNCHANGED <<working, saved, told, up>>

Tell ==
  /\ up /\ told' \in told..shown
  /\ UNCHANGED <<working, saved, shown, up>>

Stop ==
  /\ up /\ up' = FALSE /\ working' = 0
  /\ UNCHANGED <<saved, shown, told>>

Resume ==
  /\ ~up /\ up' = TRUE /\ working' \in {saved, saved + 1}
  /\ UNCHANGED <<saved, shown, told>>

Next == Modify \/ Save \/ Show \/ Tell \/ Stop \/ Resume

Spec == Init /\ [][Next]_docVars
=============================================================================
