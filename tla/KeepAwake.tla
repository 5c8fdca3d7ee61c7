------------------------------ MODULE KeepAwake ------------------------------
(***************************************************************************)
(* Keep-awake leases (platform/src/daemon/KeepAwakeLease.cpp and the       *)
(* keepawake requests of PlatformServer.cpp).                              *)
(*                                                                         *)
(* Each client that keeps the session awake has a lease, and each lease a  *)
(* connection to the bus of its own.  The lease asks the power service and *)
(* then the screen saver for an inhibition and gets a cookie from each.    *)
(* Both services can restart and forget everything.  Requests reach them,  *)
(* and their replies and the changes of their owner reach the lease, later *)
(* than they are sent, in the order in which they are sent.                *)
(***************************************************************************)
EXTENDS Naturals, Sequences, FiniteSets

CONSTANTS
  Clients,       \* sockets of the daemon
  Leases,        \* bound: leases ever created
  NoLease,
  MaxRestarts    \* bound: ends of a service

ASSUME AwakeAssumption ==
  NoLease \notin Leases /\ IsFiniteSet(Leases) /\ MaxRestarts \in Nat

Services == {"power", "screen"}

VARIABLES
  lease,      \* m_keepAwakeLeases
  asking,     \* clients whose request to enable has not been answered
  stage,      \* of each lease; dropped: deleteLater() was called
  cookie,     \* m_powerCookie and m_screenCookie; 0: none
  waits,      \* the service that each lease awaits a reply of
  mail,       \* what the connection of each lease received and the daemon has not handled
  up,         \* whether each service runs
  inbox,      \* what each service has not handled
  held,       \* the inhibitions of each service
  issued,     \* cookies given out by each service since its start
  crossed,    \* history: leases released by a cookie of an earlier service
  restarts    \* counter of the bound

leaseVars   == <<lease, asking, stage, cookie, waits, mail>>
serviceVars == <<up, inbox, held, issued, crossed, restarts>>
awakeVars   == <<leaseVars, serviceVars>>

AwakeInit ==
  /\ lease = [c \in Clients |-> NoLease] /\ asking = {}
  /\ stage = [l \in Leases |-> "unused"]
  /\ cookie = [l \in Leases |-> [s \in Services |-> 0]]
  /\ waits = [l \in Leases |-> "none"] /\ mail = [l \in Leases |-> <<>>]
  /\ up = [s \in Services |-> TRUE] /\ inbox = [s \in Services |-> <<>>]
  /\ held = [s \in Services |-> {}] /\ issued = [s \in Services |-> 0]
  /\ crossed = {} /\ restarts = 0

Connected(l) == stage[l] \notin {"unused", "gone"}
Holds(s, l)  == \E h \in held[s] : h.lease = l
Event(k, s, n) == [kind |-> k, of |-> s, cookie |-> n]

\* The lease has been sent a change of the owner of s.
OwnerGone(l, s) == \E n \in DOMAIN mail[l] : mail[l][n] = Event("owner", s, 0)

-----------------------------------------------------------------------------
(* The life of a lease.                                                    *)

\* Faulty variant: confirmed cookies are released, but the connection is one
\* that stays open.
FarewellByCookie(l, s) ==
  IF cookie[l][s] # 0
  THEN <<[kind |-> "uninhibit", cookie |-> cookie[l][s], from |-> {l}, stale |-> OwnerGone(l, s)]>>
  ELSE <<>>

\* What the destructor lets s know: the release of a confirmed cookie, and
\* the end of the connection.  stale: the cookie was that of an earlier
\* service, but the lease had not handled the change yet.
Farewell(l, s) ==
  (IF cookie[l][s] # 0
   THEN <<[kind |-> "uninhibit", cookie |-> cookie[l][s], from |-> {l}, stale |-> OwnerGone(l, s)]>>
   ELSE <<>>)
  \o <<[kind |-> "vanish", cookie |-> 0, from |-> {l}, stale |-> FALSE]>>

Destroy(l) ==
  /\ stage' = [stage EXCEPT ![l] = "gone"]
  /\ cookie' = [cookie EXCEPT ![l] = [s \in Services |-> 0]]
  /\ waits' = [waits EXCEPT ![l] = "none"]
  /\ mail' = [mail EXCEPT ![l] = <<>>]
  /\ inbox' = [s \in Services |-> IF up[s] THEN inbox[s] \o Farewell(l, s) ELSE <<>>]

\* inhibit(): the request to s, with rest left in the mail of the lease.
Inhibit(l, s, rest) ==
  IF up[s]
  THEN /\ waits' = [waits EXCEPT ![l] = s]
       /\ mail' = [mail EXCEPT ![l] = rest]
       /\ inbox' = [inbox EXCEPT ![s] = Append(@,
            [kind |-> "inhibit", cookie |-> 0, from |-> {l}, stale |-> FALSE])]
  ELSE /\ mail' = [mail EXCEPT ![l] = Append(rest, Event("error", s, 0))]
       /\ UNCHANGED <<waits, inbox>>

\* keepawake.set with true.  A client that is being served is told that it is
\* busy, one that has its lease that it is enabled, any that KDE is not
\* available while a service is down; none of that changes the leases.
Enable(c) ==
  /\ lease[c] = NoLease /\ \A s \in Services : up[s]
  /\ \E l \in Leases :
       /\ stage[l] = "unused"
       /\ lease' = [lease EXCEPT ![c] = l]
       /\ stage' = [stage EXCEPT ![l] = "power"]
       /\ Inhibit(l, "power", <<>>)
  /\ asking' = asking \cup {c}
  /\ UNCHANGED <<cookie, up, held, issued, crossed, restarts>>

\* keepawake.set with false, refused as busy until the lease is enabled.
Disable(c) ==
  /\ lease[c] # NoLease /\ stage[lease[c]] = "enabled"
  /\ Destroy(lease[c])
  /\ lease' = [lease EXCEPT ![c] = NoLease]
  /\ UNCHANGED <<asking, up, held, issued, crossed, restarts>>

\* clientDisconnected.
Leave(c) ==
  /\ lease[c] # NoLease
  /\ Destroy(lease[c])
  /\ lease' = [lease EXCEPT ![c] = NoLease]
  /\ asking' = asking \ {c}
  /\ UNCHANGED <<up, held, issued, crossed, restarts>>

\* The handlers of finished(false) and invalidated(): the client is answered
\* if it still waits for this lease, and the lease is deleted soon.
Drop(l) ==
  /\ asking' = {c \in asking : lease[c] # l}
  /\ lease' = [c \in Clients |-> IF lease[c] = l THEN NoLease ELSE lease[c]]
  /\ stage' = [stage EXCEPT ![l] = "dropped"]

\* serviceOwnerChanged.  The cookies are those of the owner that has gone.
OwnerChanged(l) ==
  /\ mail[l] # <<>> /\ Head(mail[l]).kind = "owner"
  /\ cookie' = [cookie EXCEPT ![l] = [s \in Services |-> 0]]
  /\ Drop(l)
  /\ mail' = [mail EXCEPT ![l] = Tail(@)]
  /\ UNCHANGED <<waits, serviceVars>>

\* Faulty variant: a cookie is taken whether or not the lease is valid.
GotCookieAlways(l) ==
  /\ mail[l] # <<>> /\ Head(mail[l]).kind = "cookie"
  /\ LET e == Head(mail[l]) IN
       /\ cookie' = [cookie EXCEPT ![l][e.of] = e.cookie]
       /\ IF e.of = "power"
          THEN /\ Inhibit(l, "screen", Tail(mail[l]))
               /\ stage' = [stage EXCEPT ![l] = "screen"]
               /\ UNCHANGED asking
          ELSE /\ stage' = [stage EXCEPT ![l] = "enabled"]
               /\ asking' = {c \in asking : lease[c] # l}
               /\ mail' = [mail EXCEPT ![l] = Tail(@)]
               /\ UNCHANGED <<waits, inbox>>
  /\ UNCHANGED <<lease, up, held, issued, crossed, restarts>>

\* A reply that grants the inhibition.  A dropped lease ignores it: it is not
\* m_valid (a lease that was dropped by an error awaits no reply).
GotCookie(l) ==
  /\ mail[l] # <<>> /\ Head(mail[l]).kind = "cookie"
  /\ LET e == Head(mail[l]) IN
       IF stage[l] = "dropped"
       THEN /\ mail' = [mail EXCEPT ![l] = Tail(@)]
            /\ UNCHANGED <<asking, stage, cookie, waits, inbox>>
       ELSE /\ cookie' = [cookie EXCEPT ![l][e.of] = e.cookie]
            /\ IF e.of = "power"
               THEN /\ Inhibit(l, "screen", Tail(mail[l]))
                    /\ stage' = [stage EXCEPT ![l] = "screen"]
                    /\ UNCHANGED asking
               ELSE /\ stage' = [stage EXCEPT ![l] = "enabled"]
                    /\ asking' = {c \in asking : lease[c] # l}
                    /\ mail' = [mail EXCEPT ![l] = Tail(@)]
                    /\ UNCHANGED <<waits, inbox>>
  /\ UNCHANGED <<lease, up, held, issued, crossed, restarts>>

\* A reply that refuses it, or the timeout.
GotError(l) ==
  /\ mail[l] # <<>> /\ Head(mail[l]).kind = "error"
  /\ IF stage[l] = "dropped" THEN UNCHANGED <<asking, lease, stage>> ELSE Drop(l)
  /\ mail' = [mail EXCEPT ![l] = Tail(@)]
  /\ UNCHANGED <<cookie, waits, serviceVars>>

\* Two seconds without a reply; the reply is not delivered any more.
CallTimeout(l) ==
  /\ waits[l] # "none"
  /\ mail' = [mail EXCEPT ![l] = Append(@, Event("error", waits[l], 0))]
  /\ waits' = [waits EXCEPT ![l] = "none"]
  /\ UNCHANGED <<lease, asking, stage, cookie, serviceVars>>

\* The event loop deletes what deleteLater() left.
Delete(l) ==
  /\ stage[l] = "dropped"
  /\ Destroy(l)
  /\ UNCHANGED <<lease, asking, up, held, issued, crossed, restarts>>

\* The daemon is killed: its connections end and its clients leave.
AwakeCrash ==
  /\ \E l \in Leases : Connected(l)
  /\ lease' = [c \in Clients |-> NoLease] /\ asking' = {}
  /\ stage' = [l \in Leases |-> IF Connected(l) THEN "gone" ELSE stage[l]]
  /\ cookie' = [l \in Leases |-> [s \in Services |-> 0]]
  /\ waits' = [l \in Leases |-> "none"] /\ mail' = [l \in Leases |-> <<>>]
  /\ inbox' = [s \in Services |-> IF up[s] THEN Append(inbox[s],
       [kind |-> "vanish", cookie |-> 0, from |-> {l \in Leases : Connected(l)},
        stale |-> FALSE]) ELSE <<>>]
  /\ UNCHANGED <<up, held, issued, crossed, restarts>>

-----------------------------------------------------------------------------
(* The services, as the bus and the daemon's use of them show them: they   *)
(* grant or refuse, release by cookie whoever asks, and release what a     *)
(* connection held when it ends.                                           *)

\* Delivers e of s to the lease, if it still waits for it.
Answer(l, s, e) ==
  IF waits[l] = s
  THEN /\ mail' = [mail EXCEPT ![l] = Append(@, e)]
       /\ waits' = [waits EXCEPT ![l] = "none"]
  ELSE UNCHANGED <<mail, waits>>

Grant(s) ==
  /\ up[s] /\ inbox[s] # <<>> /\ Head(inbox[s]).kind = "inhibit"
  /\ \E l \in Head(inbox[s]).from :
       /\ issued' = [issued EXCEPT ![s] = @ + 1]
       /\ held' = [held EXCEPT ![s] = @ \cup {[cookie |-> issued[s] + 1, lease |-> l]}]
       /\ Answer(l, s, Event("cookie", s, issued[s] + 1))
  /\ inbox' = [inbox EXCEPT ![s] = Tail(@)]
  /\ UNCHANGED <<lease, asking, stage, cookie, up, crossed, restarts>>

Refuse(s) ==
  /\ up[s] /\ inbox[s] # <<>> /\ Head(inbox[s]).kind = "inhibit"
  /\ \E l \in Head(inbox[s]).from : Answer(l, s, Event("error", s, 0))
  /\ inbox' = [inbox EXCEPT ![s] = Tail(@)]
  /\ UNCHANGED <<lease, asking, stage, cookie, up, held, issued, crossed, restarts>>

Release(s) ==
  /\ up[s] /\ inbox[s] # <<>> /\ Head(inbox[s]).kind # "inhibit"
  /\ LET m == Head(inbox[s])
         ends == {h \in held[s] : IF m.kind = "vanish" THEN h.lease \in m.from
                                  ELSE h.cookie = m.cookie}
     IN  /\ held' = [held EXCEPT ![s] = @ \ ends]
         /\ crossed' = IF m.stale
              THEN crossed \cup {h.lease : h \in {g \in ends : g.lease \notin m.from}}
              ELSE crossed
  /\ inbox' = [inbox EXCEPT ![s] = Tail(@)]
  /\ UNCHANGED <<leaseVars, up, issued, restarts>>

\* The service ends.  The bus tells every connection, and fails the calls
\* that it had not answered.
ServiceEnds(s) ==
  /\ up[s] /\ restarts < MaxRestarts
  /\ restarts' = restarts + 1
  /\ up' = [up EXCEPT ![s] = FALSE]
  /\ inbox' = [inbox EXCEPT ![s] = <<>>]
  /\ held' = [held EXCEPT ![s] = {}] /\ issued' = [issued EXCEPT ![s] = 0]
  /\ mail' = [l \in Leases |->
       (IF Connected(l) THEN Append(mail[l], Event("owner", s, 0)) ELSE mail[l])
       \o (IF waits[l] = s THEN <<Event("error", s, 0)>> ELSE <<>>)]
  /\ waits' = [l \in Leases |-> IF waits[l] = s THEN "none" ELSE waits[l]]
  /\ UNCHANGED <<lease, asking, stage, cookie, crossed>>

ServiceStarts(s) ==
  /\ ~up[s]
  /\ up' = [up EXCEPT ![s] = TRUE]
  /\ UNCHANGED <<leaseVars, inbox, held, issued, crossed, restarts>>

-----------------------------------------------------------------------------
Handle(l) == OwnerChanged(l) \/ GotCookie(l) \/ GotError(l)
Serve(s)  == Grant(s) \/ Refuse(s) \/ Release(s)

AwakeNext ==
  \/ \E c \in Clients : Enable(c) \/ Disable(c) \/ Leave(c)
  \/ \E l \in Leases : Handle(l) \/ CallTimeout(l) \/ Delete(l)
  \/ \E s \in Services : Serve(s) \/ ServiceEnds(s) \/ ServiceStarts(s)
  \/ AwakeCrash

-----------------------------------------------------------------------------
(* Properties.                                                             *)

Message == [kind : {"inhibit", "uninhibit", "vanish"}, cookie : Nat,
            from : SUBSET Leases, stale : BOOLEAN]
MailEvent == [kind : {"owner", "cookie", "error"}, of : Services, cookie : Nat]

AwakeTypeOK ==
  /\ lease \in [Clients -> Leases \cup {NoLease}] /\ asking \subseteq Clients
  /\ stage \in [Leases -> {"unused", "power", "screen", "enabled", "dropped", "gone"}]
  /\ cookie \in [Leases -> [Services -> Nat]]
  /\ waits \in [Leases -> Services \cup {"none"}]
  /\ mail \in [Leases -> Seq(MailEvent)]
  /\ up \in [Services -> BOOLEAN] /\ inbox \in [Services -> Seq(Message)]
  /\ held \in [Services -> SUBSET [cookie : Nat, lease : Leases]]
  /\ issued \in [Services -> Nat] /\ crossed \subseteq Leases
  /\ restarts \in 0 .. MaxRestarts

\* While a lease reports that it is enabled, both services hold its
\* inhibition, or the news that one of them ended is on its way.  The one
\* exception: a cookie released before such news was handled, which the
\* service that was started since has given to another lease.
EnabledIsHeld ==
  \A l \in Leases : stage[l] = "enabled" =>
    l \in crossed \/ \A s \in Services : Holds(s, l) \/ OwnerGone(l, s)

\* A lease that is gone keeps no session awake for ever, even if its request
\* was under way, or its reply on its way back; and a client that asked is
\* answered or has left: it does not stay busy.
AwakeSettles ==
  /\ \A l \in Leases :
       [](stage[l] = "gone" => <>[](\A s \in Services : ~Holds(s, l)))
  /\ \A c \in Clients : (c \in asking) ~> (c \notin asking)
=============================================================================
