---------------------------- MODULE MCReplyCache ----------------------------
(* Two clients on the network page: a refresh whose worker also has the    *)
(* details of the connected device, those details, and a scan, which is    *)
(* never cached.                                                           *)
EXTENDS ReplyCache

CONSTANTS Refresh, Details, Scan, Network

KeyDomain == [k \in Keys |-> Network]
KeyTtl    == [k \in Keys |-> IF k = Scan THEN 0 ELSE 1]
Extras    == [k \in Keys |-> IF k = Refresh THEN {Details} ELSE {}]
=============================================================================
