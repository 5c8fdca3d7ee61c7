----------------------------- MODULE ReplyCache -----------------------------
(***************************************************************************)
(* The request path of the kos-platform daemon: poll requests share one    *)
(* worker per key, its reply is cached until it expires or a change        *)
(* notification erases it, and slow or absent clients must not hold up or  *)
(* lose the others' replies (platform/src/daemon/PlatformServer.cpp).      *)
(*                                                                         *)
(* The daemon has one event loop; workers (processes and threads of a      *)
(* pool) and the services they ask run beside it.  A request is its index  *)
(* in asked: the requests that wait for a key are a set, and their order   *)
(* in the daemon's list, to which it appends, is that of their indices.    *)
(* A reply's content is the version of the domain's state that its worker  *)
(* read.                                                                   *)
(***************************************************************************)
EXTENDS Naturals, Sequences, FiniteSets

CONSTANTS
  Clients,     \* connected sockets; a reconnection is another socket
  Slow,        \* those that may stop reading their replies
  Keys,        \* the cache keys of the shared operations
  Domains,     \* key prefixes that a notification erases together
  DomainOf,    \* the domain of a key
  Ttl,         \* how long a reply of the key is kept; 0: never
  FailTtl,     \* kFailureCacheTtlMs
  Prefill,     \* keys whose reply a successful worker of the key also has
  PeerLimit,   \* queued requests of one client
  TotalLimit,  \* queued requests of all clients
  KeyLimit,    \* keys with a worker
  CacheLimit,  \* maxCachedReplies
  MaxRequests, MaxChanges, MaxTime      \* bounds of the model

ASSUME KeysAssumption ==
  /\ DomainOf \in [Keys -> Domains]
  /\ Ttl \in [Keys -> Nat] /\ FailTtl \in Nat
  /\ Prefill \in [Keys -> SUBSET Keys]
  /\ \A k \in Keys : \A p \in Prefill[k] : DomainOf[p] = DomainOf[k]

ASSUME LimitsAssumption ==
  /\ Slow \subseteq Clients
  /\ PeerLimit \in Nat \ {0} /\ TotalLimit \in Nat \ {0}
  /\ KeyLimit \in Nat \ {0} /\ CacheLimit \in Nat \ {0}
  /\ MaxRequests \in Nat /\ MaxChanges \in Nat /\ MaxTime \in Nat

VARIABLES
  status,    \* open, closing (abort is scheduled) or gone, per client
  asked,     \* every request so far and how often it was answered
  inflight,  \* m_inFlightReplies: requests waiting for each running key
  workers,   \* running workers, with what each has read
  cache,     \* m_replyCache
  truth,     \* version of each domain's state
  noticed,   \* version at the last notification of each domain
  now        \* the clock

vars == <<status, asked, inflight, workers, cache, truth, noticed, now>>

-----------------------------------------------------------------------------
(* Partial functions, and the set of requests that wait.                   *)

Without(f, S) == [x \in DOMAIN f \ S |-> f[x]]
With(f, x, v) == [y \in DOMAIN f \cup {x} |-> IF y = x THEN v ELSE f[y]]

Owner(i) == asked[i].client

Waiting == {p \in Keys \X (1 .. MaxRequests) :
              p[1] \in DOMAIN inflight /\ p[2] \in inflight[p[1]]}
WaitingOf(c) == {p \in Waiting : Owner(p[2]) = c}

\* race is a history field: whether a notification of the domain arrived
\* while the worker ran.  No action reads it.
Race   == {"none", "overtaken"}
Worker == [key : Keys, by : 1 .. MaxRequests, read : Nat, race : Race]
Entry  == [seen : Nat, race : Race, expires : Nat]

Init ==
  /\ status = [c \in Clients |-> "open"]
  /\ asked = <<>>
  /\ inflight = <<>>
  /\ workers = {}
  /\ cache = <<>>
  /\ truth = [d \in Domains |-> 0]
  /\ noticed = [d \in Domains |-> 0]
  /\ now = 0

-----------------------------------------------------------------------------
(* Writing.  Send answers the requests of the set q in their order.  A     *)
(* client takes the replies that fit into its unread bytes, room of them   *)
(* (any number: sizes are not modelled); one more and it is to be closed,  *)
(* and nothing further is written to it.  history is asked, with the       *)
(* request at hand.                                                        *)

Owners(q, history) == {history[i].client : i \in q}
Owed(c, q, history) == Cardinality({i \in q : history[i].client = c})
UpTo(i, q) == {n \in q : n <= i}

Send(q, history) ==
  \E room \in {r \in [Owners(q, history) -> 0 .. Cardinality(q)] :
                 \A c \in DOMAIN r : c \notin Slow => r[c] = Cardinality(q)} :
    LET delivered == {i \in q :
                        LET c == history[i].client IN
                          status[c] = "open" /\ Owed(c, UpTo(i, q), history) <= room[c]}
    IN  /\ asked' = [i \in DOMAIN history |->
             [history[i] EXCEPT !.replies = @ + IF i \in delivered THEN 1 ELSE 0]]
        /\ status' = [c \in Clients |->
             IF /\ status[c] = "open"
                /\ c \in Owners(q, history)
                /\ Owed(c, q, history) > room[c]
             THEN "closing" ELSE status[c]]

-----------------------------------------------------------------------------
(* The cache.                                                              *)

Usable(k) == k \in DOMAIN cache /\ now < cache[k].expires

\* Looking a key up erases its expired entry.
LookedUp(k) == Without(cache, {k})

\* What storeReply may leave: expired entries go first, and when the cache
\* is still full one of those that expire first.
StoreResults(c, k, e) ==
  LET live   == Without(c, {x \in DOMAIN c : c[x].expires <= now})
      first  == {x \in DOMAIN live :
                   \A y \in DOMAIN live : live[x].expires <= live[y].expires}
  IN  IF Ttl[k] = 0 THEN {c}
      ELSE IF k \in DOMAIN live \/ Cardinality(DOMAIN live) < CacheLimit
      THEN {With(live, k, e)}
      ELSE {With(Without(live, {x}), k, e) : x \in first}

Reply(w, k, ok) ==
  [seen |-> w.read, race |-> w.race,
   expires |-> now + IF ok \/ Ttl[k] < FailTtl THEN Ttl[k] ELSE FailTtl]

\* Faulty variant: only the keys that have a worker of their own kind.
InvalidatedPages(d) == {k \in Keys : DomainOf[k] = d /\ Prefill[k] # {}}

\* The keys that a notification of domain d erases.
Invalidated(d) == {k \in Keys : DomainOf[k] = d}

-----------------------------------------------------------------------------
(* A request for key k of client c.  A closing client is still read until  *)
(* its socket is aborted.                                                  *)

\* Faulty variant: one too many.
QueueFullLate(c, k) ==
  \/ Cardinality(WaitingOf(c)) > PeerLimit
  \/ Cardinality(Waiting) > TotalLimit
  \/ k \notin DOMAIN inflight /\ Cardinality(DOMAIN inflight) > KeyLimit

QueueFull(c, k) ==
  \/ Cardinality(WaitingOf(c)) >= PeerLimit
  \/ Cardinality(Waiting) >= TotalLimit
  \/ k \notin DOMAIN inflight /\ Cardinality(DOMAIN inflight) >= KeyLimit

Asked(c) == Append(asked, [client |-> c, replies |-> 0])
Request  == Len(asked) + 1

MayAsk(c) == status[c] # "gone" /\ Len(asked) < MaxRequests

\* Answered from the cache.
ServeCached(c, k) ==
  /\ MayAsk(c) /\ Usable(k)
  /\ Send({Request}, Asked(c))
  /\ UNCHANGED <<inflight, workers, cache, truth, noticed, now>>

\* The queues are full: answered "busy".
Refuse(c, k) ==
  /\ MayAsk(c) /\ ~Usable(k) /\ QueueFull(c, k)
  /\ Send({Request}, Asked(c))
  /\ cache' = LookedUp(k)
  /\ UNCHANGED <<inflight, workers, truth, noticed, now>>

\* A worker for the key is running: the request waits for it.
Join(c, k) ==
  /\ MayAsk(c) /\ ~Usable(k) /\ ~QueueFull(c, k)
  /\ k \in DOMAIN inflight
  /\ asked' = Asked(c)
  /\ cache' = LookedUp(k)
  /\ inflight' = [inflight EXCEPT ![k] = @ \cup {Request}]
  /\ UNCHANGED <<status, workers, truth, noticed, now>>

\* The first request for the key starts a worker.
Start(c, k) ==
  /\ MayAsk(c) /\ ~Usable(k) /\ ~QueueFull(c, k)
  /\ k \notin DOMAIN inflight
  /\ asked' = Asked(c)
  /\ cache' = LookedUp(k)
  /\ inflight' = With(inflight, k, {Request})
  /\ workers' = workers \cup
       {[key |-> k, by |-> Request, read |-> truth[DomainOf[k]], race |-> "none"]}
  /\ UNCHANGED <<status, truth, noticed, now>>

-----------------------------------------------------------------------------
(* Workers.  What a worker reports is the state at any moment between its  *)
(* start and its end.                                                      *)

WorkerReads(w) ==
  /\ w.read < truth[DomainOf[w.key]]
  /\ workers' = (workers \ {w}) \cup {[w EXCEPT !.read = truth[DomainOf[w.key]]]}
  /\ UNCHANGED <<status, asked, inflight, cache, truth, noticed, now>>

\* Faulty variant: only the request that started the worker.
QueueHead(k) ==
  IF k \notin DOMAIN inflight THEN {}
  ELSE {i \in inflight[k] : \A n \in inflight[k] : i <= n}

Queue(k) == IF k \in DOMAIN inflight THEN inflight[k] ELSE {}

\* A worker ends, or fails, or is killed by its watchdog: its reply is
\* cached, with the replies it happens to have for other keys, and sent to
\* everyone who waits.
Complete(w, ok) ==
  /\ \E extra \in SUBSET Prefill[w.key] :
       /\ Cardinality(extra) = IF ok /\ extra # {} THEN 1 ELSE 0
       /\ \E before \in IF extra = {} THEN {cache}
                        ELSE UNION {StoreResults(cache, p, Reply(w, p, TRUE)) : p \in extra} :
            cache' \in StoreResults(before, w.key, Reply(w, w.key, ok))
  /\ inflight' = Without(inflight, {w.key})
  /\ workers' = workers \ {w}
  /\ Send(Queue(w.key), asked)
  /\ UNCHANGED <<truth, noticed, now>>

Ends(k) == \E w \in workers, ok \in BOOLEAN : w.key = k /\ Complete(w, ok)

-----------------------------------------------------------------------------
(* Connections.                                                            *)

\* Faulty variants: the requests stay, their places stay, and the keys that
\* nobody waits for go.
DroppedNot(c) == inflight
DroppedInPlace(c) ==
  [k \in DOMAIN inflight |->
     {IF Owner(i) = c THEN 0 ELSE i : i \in inflight[k]}]
DroppedEmptied(c) ==
  Without([k \in DOMAIN inflight |-> {i \in inflight[k] : Owner(i) # c}],
          {k \in DOMAIN inflight : \A i \in inflight[k] : Owner(i) = c})

\* clientDisconnected: its requests are forgotten, but a running key is
\* kept until its worker completes, even with nobody waiting.
Dropped(c) ==
  [k \in DOMAIN inflight |-> {i \in inflight[k] : Owner(i) # c}]

Forget(c) ==
  /\ status' = [status EXCEPT ![c] = "gone"]
  /\ inflight' = Dropped(c)
  /\ UNCHANGED <<asked, workers, cache, truth, noticed, now>>

\* The client hangs up.
Disconnect(c) == status[c] = "open" /\ Forget(c)

\* The deferred abort of a client that does not read.
Kick(c) == status[c] = "closing" /\ Forget(c)

-----------------------------------------------------------------------------
(* The services behind the workers, and the clock.                         *)

Change(d) ==
  /\ truth[d] < MaxChanges
  /\ truth' = [truth EXCEPT ![d] = @ + 1]
  /\ UNCHANGED <<status, asked, inflight, workers, cache, noticed, now>>

\* invalidateReplies: a change notification, or a request that is about to
\* change the domain.
Invalidate(d) ==
  /\ cache' = Without(cache, Invalidated(d))
  /\ noticed' = [noticed EXCEPT ![d] = truth[d]]
  /\ workers' = {[w EXCEPT !.race = IF DomainOf[w.key] = d THEN "overtaken" ELSE @] :
                 w \in workers}
  /\ UNCHANGED <<status, asked, inflight, truth, now>>

Tick ==
  /\ now < MaxTime
  /\ now' = now + 1
  /\ UNCHANGED <<status, asked, inflight, workers, cache, truth, noticed>>

Next ==
  \/ \E c \in Clients, k \in Keys :
       ServeCached(c, k) \/ Refuse(c, k) \/ Join(c, k) \/ Start(c, k)
  \/ \E w \in workers : WorkerReads(w) \/ \E ok \in BOOLEAN : Complete(w, ok)
  \/ \E c \in Clients : Disconnect(c) \/ Kick(c)
  \/ \E d \in Domains : Change(d) \/ Invalidate(d)
  \/ Tick

Spec == Init /\ [][Next]_vars

\* Every worker ends: a process has a watchdog, a D-Bus call a timeout.
FairSpec == Spec /\ \A k \in Keys : WF_vars(Ends(k))

-----------------------------------------------------------------------------
(* Properties.                                                             *)

TypeOK ==
  /\ status \in [Clients -> {"open", "closing", "gone"}]
  /\ asked \in Seq([client : Clients, replies : Nat])
  /\ Len(asked) <= MaxRequests
  /\ DOMAIN inflight \subseteq Keys
  /\ \A k \in DOMAIN inflight : inflight[k] \subseteq DOMAIN asked
  /\ workers \subseteq Worker
  /\ DOMAIN cache \subseteq Keys
  /\ \A k \in DOMAIN cache : cache[k] \in Entry
  /\ truth \in [Domains -> 0 .. MaxChanges]
  /\ noticed \in [Domains -> 0 .. MaxChanges]
  /\ now \in 0 .. MaxTime

\* A request of a connected client has been answered once or waits for one
\* key; no request is answered twice, and nobody waits who is gone.
OneFate ==
  \A i \in DOMAIN asked :
    LET waits == Cardinality({p \in Waiting : p[2] = i})
    IN  /\ asked[i].replies + waits <= 1
        /\ status[Owner(i)] = "open" => asked[i].replies + waits = 1
        /\ status[Owner(i)] = "gone" => waits = 0

\* At most one worker runs for a key, and a key is in flight exactly while
\* its worker runs, however its requesters come and go.
OneWorkerPerKey ==
  /\ \A v, w \in workers : v.key = w.key => v = w
  /\ DOMAIN inflight = {w.key : w \in workers}

\* Neither the queues nor the cache outgrow their limits, in whatever order
\* requests, completions, prefills, expiries and disconnections come.
LimitsHold ==
  /\ Cardinality(Waiting) <= TotalLimit
  /\ Cardinality(DOMAIN inflight) <= KeyLimit
  /\ \A c \in Clients : Cardinality(WaitingOf(c)) <= PeerLimit
  /\ Cardinality(DOMAIN cache) <= CacheLimit

\* A cached reply is at least as new as the last notification of its
\* domain, unless its worker was already running when that arrived.
FreshUnlessOvertaken ==
  \A k \in DOMAIN cache :
    cache[k].race = "none" => cache[k].seen >= noticed[DomainOf[k]]

\* A request that waits is answered, unless its client leaves or is closed.
EveryRequestAnswered ==
  \A i \in 1 .. MaxRequests :
    (\E p \in Waiting : p[2] = i) ~>
      (i \in DOMAIN asked /\ (asked[i].replies = 1 \/ status[Owner(i)] # "open"))

\* What the comment in PlatformServer.h promises of a notification: the
\* next request of the domain is not answered by an older cached reply.
NotifiedIsFresh ==
  [][\A c \in Clients, k \in Keys :
       ServeCached(c, k) => cache[k].seen >= noticed[DomainOf[k]]]_vars
=============================================================================
