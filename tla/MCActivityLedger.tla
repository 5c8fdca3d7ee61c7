-------------------------- MODULE MCActivityLedger --------------------------
(* Days of three units: the past boot ends, and the service is installed,  *)
(* in the middle of one, a gap can straddle midnight, and the ledger of    *)
(* two days has days to forget.  Two boots are folded: after a reboot the  *)
(* oldest of three is beyond the limit.                                    *)
EXTENDS ActivityLedger, TLC

Boots == <<<<3, 4>>, <<1, 3>>>>

\* Nothing tells two apps apart.
Interchangeable == Permutations(Apps)
=============================================================================
