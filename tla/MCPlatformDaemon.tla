-------------------------- MODULE MCPlatformDaemon --------------------------
(* Two clients, two leases and one end of a service; an image and a text; *)
(* two sources with the same name, two slots, two jobs and three things.  *)
EXTENDS PlatformDaemon, TLC

CONSTANTS Left, Right, Notes, Photo

Homes == Left :> {Notes} @@ Right :> {Photo}
=============================================================================
