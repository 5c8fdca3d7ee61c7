-------------------------- MODULE ReplyCacheProofs --------------------------
(***************************************************************************)
(* For any clients, keys, limits and lifetimes: a key never has two        *)
(* workers, a cached reply older than the last notification comes from a   *)
(* worker that the notification overtook, every request of a connected     *)
(* client is answered once or waits for one key, and neither the queues    *)
(* nor the cache outgrow their limits.                                     *)
(***************************************************************************)
EXTENDS ReplyCache, FiniteSetTheorems, TLAPS

-----------------------------------------------------------------------------
(* One worker per key needs no other invariant.                            *)

\* A step that keeps the workers and the set of running keys keeps the
\* correspondence between them.
LEMMA SameKeys ==
  ASSUME OneWorkerPerKey, workers' = workers, DOMAIN inflight' = DOMAIN inflight
  PROVE  OneWorkerPerKey'
BY DEF OneWorkerPerKey

\* One worker per key is inductive: requests join a running key, and only
\* the end of its worker frees it.
LEMMA OneWorkerStep ==
  ASSUME OneWorkerPerKey, [Next]_vars
  PROVE  OneWorkerPerKey'
<1>1. ASSUME NEW c \in Clients, NEW k \in Keys, ServeCached(c, k) \/ Refuse(c, k)
      PROVE  OneWorkerPerKey'
  BY <1>1, SameKeys DEF ServeCached, Refuse
<1>2. ASSUME NEW c \in Clients, NEW k \in Keys, Join(c, k)
      PROVE  OneWorkerPerKey'
  BY <1>2, SameKeys DEF Join
<1>3. ASSUME NEW c \in Clients, NEW k \in Keys, Start(c, k)
      PROVE  OneWorkerPerKey'
  <2> DEFINE new == [key |-> k, by |-> Request, read |-> truth[DomainOf[k]], race |-> "none"]
  <2>1. k \notin DOMAIN inflight /\ workers' = workers \cup {new} /\ new.key = k
    BY <1>3 DEF Start
  <2>2. DOMAIN inflight' = DOMAIN inflight \cup {k}
    BY <1>3 DEF Start, With
  <2>3. \A v \in workers : v.key # k
    BY <2>1 DEF OneWorkerPerKey
  <2>4. \A v, w \in workers' : v.key = w.key => v = w
    BY <2>1, <2>3 DEF OneWorkerPerKey
  <2>5. DOMAIN inflight' = {w.key : w \in workers'}
    BY <2>1, <2>2 DEF OneWorkerPerKey
  <2> QED
    BY <2>4, <2>5 DEF OneWorkerPerKey
<1>4. ASSUME NEW w \in workers, WorkerReads(w)
      PROVE  OneWorkerPerKey'
  <2> DEFINE later == [w EXCEPT !.read = truth[DomainOf[w.key]]]
  <2>1. workers' = (workers \ {w}) \cup {later} /\ inflight' = inflight
    BY <1>4 DEF WorkerReads
  <2>2. later.key = w.key
    OBVIOUS
  <2>3. \A v \in workers : v.key = w.key => v = w
    BY DEF OneWorkerPerKey
  <2>4. \A u, v \in workers' : u.key = v.key => u = v
    BY <2>1, <2>2, <2>3 DEF OneWorkerPerKey
  <2>5. {v.key : v \in workers'} = {v.key : v \in workers}
    BY <2>1, <2>2
  <2> QED
    BY <2>1, <2>4, <2>5 DEF OneWorkerPerKey
<1>5. ASSUME NEW w \in workers, NEW ok \in BOOLEAN, Complete(w, ok)
      PROVE  OneWorkerPerKey'
  <2>1. workers' = workers \ {w}
    BY <1>5 DEF Complete
  <2>2. DOMAIN inflight' = DOMAIN inflight \ {w.key}
    BY <1>5 DEF Complete, Without
  <2>3. \A v \in workers : v.key = w.key => v = w
    BY DEF OneWorkerPerKey
  <2>4. {v.key : v \in workers'} = {v.key : v \in workers} \ {w.key}
    BY <2>1, <2>3
  <2> QED
    BY <2>1, <2>2, <2>4 DEF OneWorkerPerKey
<1>6. ASSUME NEW c \in Clients, Disconnect(c) \/ Kick(c)
      PROVE  OneWorkerPerKey'
  <2>1. workers' = workers /\ inflight' = Dropped(c)
    BY <1>6 DEF Disconnect, Kick, Forget
  <2>2. DOMAIN inflight' = DOMAIN inflight
    BY <2>1 DEF Dropped
  <2> QED
    BY <2>1, <2>2, SameKeys
<1>7. ASSUME NEW d \in Domains, Change(d)
      PROVE  OneWorkerPerKey'
  BY <1>7, SameKeys DEF Change
<1>8. ASSUME NEW d \in Domains, Invalidate(d)
      PROVE  OneWorkerPerKey'
  <2> DEFINE Marked(w) == [w EXCEPT !.race = IF DomainOf[w.key] = d THEN "overtaken" ELSE @]
  <2>1. workers' = {Marked(w) : w \in workers} /\ inflight' = inflight
    BY <1>8 DEF Invalidate
  <2>2. \A w \in workers : Marked(w).key = w.key
    OBVIOUS
  <2> HIDE DEF Marked
  <2>3. \A u, v \in workers' : u.key = v.key => u = v
    BY <2>1, <2>2 DEF OneWorkerPerKey
  <2>4. {v.key : v \in workers'} = {v.key : v \in workers}
    BY <2>1, <2>2
  <2> QED
    BY <2>1, <2>3, <2>4 DEF OneWorkerPerKey
<1>9. CASE Tick
  BY <1>9, SameKeys DEF Tick
<1>10. CASE UNCHANGED vars
  BY <1>10, SameKeys DEF vars
<1> QED
  BY <1>1, <1>2, <1>3, <1>4, <1>5, <1>6, <1>7, <1>8, <1>9, <1>10 DEF Next

\* In every behaviour, a poll that finds its key running joins that worker,
\* and a key whose requesters all left still waits for its worker.
THEOREM OneWorker == Spec => []OneWorkerPerKey
<1>1. Init => OneWorkerPerKey
  BY DEF Init, OneWorkerPerKey
<1> QED
  BY <1>1, OneWorkerStep, PTL DEF Spec

-----------------------------------------------------------------------------
(* The cache.                                                              *)

\* storeReply leaves entries it found, unchanged, and its own.
LEMMA Stored ==
  ASSUME NEW c, NEW k, NEW e, NEW r \in StoreResults(c, k, e)
  PROVE  /\ DOMAIN r \subseteq DOMAIN c \cup {k}
         /\ \A x \in DOMAIN r : (x = k /\ r[x] = e) \/ (x \in DOMAIN c /\ r[x] = c[x])
<1> DEFINE live  == Without(c, {x \in DOMAIN c : c[x].expires <= now})
           first == {x \in DOMAIN live :
                       \A y \in DOMAIN live : live[x].expires <= live[y].expires}
<1>1. r = c \/ r = With(live, k, e) \/ \E x \in first : r = With(Without(live, {x}), k, e)
  BY DEF StoreResults
<1>2. DOMAIN live \subseteq DOMAIN c /\ \A x \in DOMAIN live : live[x] = c[x]
  BY DEF Without
<1> HIDE DEF live, first
<1>3. \A x : /\ DOMAIN Without(live, {x}) \subseteq DOMAIN c
             /\ \A y \in DOMAIN Without(live, {x}) : Without(live, {x})[y] = c[y]
  BY <1>2 DEF Without
<1>4. ASSUME NEW f, DOMAIN f \subseteq DOMAIN c, \A x \in DOMAIN f : f[x] = c[x],
             r = With(f, k, e)
      PROVE  /\ DOMAIN r \subseteq DOMAIN c \cup {k}
             /\ \A x \in DOMAIN r : (x = k /\ r[x] = e) \/ (x \in DOMAIN c /\ r[x] = c[x])
  BY <1>4 DEF With
<1> QED
  BY <1>1, <1>2, <1>3, <1>4

\* The end of a worker stores its own reply after at most one other.
LEMMA CompletionStores ==
  ASSUME NEW w, NEW ok, Complete(w, ok)
  PROVE  \E before :
           /\ \/ before = cache
              \/ \E p \in Prefill[w.key] : before \in StoreResults(cache, p, Reply(w, p, TRUE))
           /\ cache' \in StoreResults(before, w.key, Reply(w, w.key, ok))
<1> DEFINE Prefilled(p) == StoreResults(cache, p, Reply(w, p, TRUE))
           Last(b) == StoreResults(b, w.key, Reply(w, w.key, ok))
<1>1. \E extra \in SUBSET Prefill[w.key] :
        \E before \in IF extra = {} THEN {cache} ELSE UNION {Prefilled(p) : p \in extra} :
          cache' \in Last(before)
  BY DEF Complete
<1> HIDE DEF Prefilled, Last
<1>2. \E before : /\ \/ before = cache
                     \/ \E p \in Prefill[w.key] : before \in Prefilled(p)
                  /\ cache' \in Last(before)
  BY <1>1
<1> QED
  BY <1>2 DEF Prefilled, Last

-----------------------------------------------------------------------------
(* Staleness.  The invariant follows a version from the worker that read   *)
(* it, through storeReply, into the cache.                                 *)

\* A reply of key k that nothing overtook has seen the last notification.
FreshFor(k, seen, race) ==
  seen \in Nat /\ (race = "none" => seen >= noticed[DomainOf[k]])

VersionsOK ==
  /\ truth \in [Domains -> Nat]
  /\ noticed \in [Domains -> Nat]
  /\ \A d \in Domains : noticed[d] <= truth[d]

WorkersFresh ==
  \A w \in workers : w.key \in Keys /\ FreshFor(w.key, w.read, w.race)

CacheFresh(c) ==
  DOMAIN c \subseteq Keys /\ \A k \in DOMAIN c : FreshFor(k, c[k].seen, c[k].race)

FreshInv == VersionsOK /\ WorkersFresh /\ CacheFresh(cache)

\* Fewer entries are no less fresh.
LEMMA FewerEntries ==
  ASSUME NEW c, NEW S, CacheFresh(c)
  PROVE  CacheFresh(Without(c, S))
BY DEF CacheFresh, Without, FreshFor

\* storeReply, whatever it evicts, stores no entry staler than its reply.
LEMMA StoringKeepsFresh ==
  ASSUME NEW c, CacheFresh(c), NEW k \in Keys, NEW e, FreshFor(k, e.seen, e.race),
         NEW r \in StoreResults(c, k, e)
  PROVE  CacheFresh(r)
BY Stored DEF CacheFresh

\* Steps that announce nothing keep FreshInv, provided the workers and the
\* cache they leave are fresh.
LEMMA QuietStep ==
  ASSUME FreshInv, truth' = truth, noticed' = noticed,
         WorkersFresh => WorkersFresh', CacheFresh(cache')
  PROVE  FreshInv'
<1>1. CacheFresh(cache)'
  BY DEF CacheFresh, FreshFor
<1> QED
  BY <1>1 DEF FreshInv, VersionsOK

\* FreshInv is inductive.
LEMMA FreshStep ==
  ASSUME FreshInv, [Next]_vars
  PROVE  FreshInv'
<1> USE KeysAssumption
<1>0. ASSUME workers' = workers, noticed' = noticed
      PROVE  WorkersFresh => WorkersFresh'
  BY <1>0 DEF WorkersFresh, FreshFor
<1>1. ASSUME NEW c \in Clients, NEW k \in Keys, ServeCached(c, k)
      PROVE  FreshInv'
  BY <1>0, <1>1, QuietStep DEF ServeCached, FreshInv
<1>2. ASSUME NEW c \in Clients, NEW k \in Keys, Refuse(c, k) \/ Join(c, k)
      PROVE  FreshInv'
  <2>1. CacheFresh(LookedUp(k))
    BY FewerEntries DEF LookedUp, FreshInv
  <2> QED
    BY <1>0, <1>2, <2>1, QuietStep DEF Refuse, Join
<1>3. ASSUME NEW c \in Clients, NEW k \in Keys, Start(c, k)
      PROVE  FreshInv'
  <2> DEFINE new == [key |-> k, by |-> Request, read |-> truth[DomainOf[k]], race |-> "none"]
  <2>1. /\ workers' = workers \cup {new} /\ cache' = LookedUp(k)
        /\ truth' = truth /\ noticed' = noticed
    BY <1>3 DEF Start
  <2>2. CacheFresh(LookedUp(k))
    BY FewerEntries DEF LookedUp, FreshInv
  <2>3. DomainOf[k] \in Domains
    OBVIOUS
  <2>4. new.key = k /\ FreshFor(k, new.read, new.race)
    BY <2>3 DEF FreshInv, VersionsOK, FreshFor
  <2> HIDE DEF new
  <2>5. WorkersFresh => WorkersFresh'
    BY <2>1, <2>4 DEF WorkersFresh, FreshFor
  <2> QED
    BY <2>1, <2>2, <2>5, QuietStep
<1>4. ASSUME NEW w \in workers, WorkerReads(w)
      PROVE  FreshInv'
  <2> DEFINE later == [w EXCEPT !.read = truth[DomainOf[w.key]]]
  <2>1. /\ workers' = (workers \ {w}) \cup {later}
        /\ cache' = cache /\ truth' = truth /\ noticed' = noticed
    BY <1>4 DEF WorkerReads
  <2>2. w.key \in Keys /\ DomainOf[w.key] \in Domains
    BY DEF FreshInv, WorkersFresh
  <2>3. later.key = w.key /\ later.read = truth[DomainOf[w.key]] /\ later.race = w.race
    OBVIOUS
  <2>4. FreshFor(later.key, later.read, later.race)
    BY <2>2, <2>3 DEF FreshInv, VersionsOK, FreshFor
  <2> HIDE DEF later
  <2>5. WorkersFresh => WorkersFresh'
    BY <2>1, <2>2, <2>3, <2>4 DEF WorkersFresh, FreshFor
  <2> QED
    BY <2>1, <2>5, QuietStep DEF FreshInv
<1>5. ASSUME NEW w \in workers, NEW ok \in BOOLEAN, Complete(w, ok)
      PROVE  FreshInv'
  <2>1. PICK before :
          /\ \/ before = cache
             \/ \E p \in Prefill[w.key] : before \in StoreResults(cache, p, Reply(w, p, TRUE))
          /\ cache' \in StoreResults(before, w.key, Reply(w, w.key, ok))
    BY <1>5, CompletionStores
  <2>2. w.key \in Keys /\ FreshFor(w.key, w.read, w.race)
    BY DEF FreshInv, WorkersFresh
  <2>3. \A p \in Prefill[w.key] : p \in Keys /\ FreshFor(p, w.read, w.race)
    BY <2>2 DEF FreshFor
  <2>4. \A p, b : Reply(w, p, b).seen = w.read /\ Reply(w, p, b).race = w.race
    BY DEF Reply
  <2>6. CacheFresh(before)
    BY <2>1, <2>3, <2>4, StoringKeepsFresh DEF FreshInv
  <2>8. CacheFresh(cache')
    BY <2>1, <2>2, <2>4, <2>6, StoringKeepsFresh
  <2>9. workers' = workers \ {w} /\ truth' = truth /\ noticed' = noticed
    BY <1>5 DEF Complete
  <2>10. WorkersFresh => WorkersFresh'
    BY <2>9 DEF WorkersFresh, FreshFor
  <2> QED
    BY <2>8, <2>9, <2>10, QuietStep
<1>6. ASSUME NEW c \in Clients, Disconnect(c) \/ Kick(c)
      PROVE  FreshInv'
  BY <1>0, <1>6, QuietStep DEF Disconnect, Kick, Forget, FreshInv
<1>7. ASSUME NEW d \in Domains, Change(d)
      PROVE  FreshInv'
  <2>1. /\ truth' = [truth EXCEPT ![d] = @ + 1] /\ noticed' = noticed
        /\ workers' = workers /\ cache' = cache
    BY <1>7 DEF Change
  <2>2. VersionsOK'
    BY <2>1 DEF FreshInv, VersionsOK
  <2>3. WorkersFresh' /\ CacheFresh(cache)'
    BY <2>1 DEF FreshInv, WorkersFresh, CacheFresh, FreshFor
  <2> QED
    BY <2>2, <2>3 DEF FreshInv
<1>8. ASSUME NEW d \in Domains, Invalidate(d)
      PROVE  FreshInv'
  <2> DEFINE Marked(w) == [w EXCEPT !.race = IF DomainOf[w.key] = d THEN "overtaken" ELSE @]
  <2>1. /\ workers' = {Marked(w) : w \in workers}
        /\ cache' = Without(cache, Invalidated(d))
        /\ noticed' = [noticed EXCEPT ![d] = truth[d]] /\ truth' = truth
    BY <1>8 DEF Invalidate
  <2>2. VersionsOK'
    BY <2>1 DEF FreshInv, VersionsOK
  <2>3. \A x \in Domains : x # d => noticed'[x] = noticed[x]
    BY <2>1 DEF FreshInv, VersionsOK
  <2>4. \A w \in workers :
          /\ Marked(w).key = w.key /\ Marked(w).read = w.read
          /\ DomainOf[w.key] = d => Marked(w).race = "overtaken"
          /\ DomainOf[w.key] # d => Marked(w).race = w.race
    OBVIOUS
  <2> HIDE DEF Marked
  <2>5. WorkersFresh'
    BY <2>1, <2>3, <2>4 DEF FreshInv, WorkersFresh, FreshFor
  <2>6. /\ DOMAIN cache' = DOMAIN cache \ Invalidated(d)
        /\ \A k \in DOMAIN cache' : cache'[k] = cache[k]
    BY <2>1 DEF Without
  <2>7. CacheFresh(cache)'
    BY <2>3, <2>6 DEF FreshInv, CacheFresh, FreshFor, Invalidated
  <2> QED
    BY <2>2, <2>5, <2>7 DEF FreshInv
<1>9. CASE Tick
  BY <1>0, <1>9, QuietStep DEF Tick, FreshInv
<1>10. CASE UNCHANGED vars
  BY <1>0, <1>10, QuietStep DEF vars, FreshInv
<1> QED
  BY <1>1, <1>2, <1>3, <1>4, <1>5, <1>6, <1>7, <1>8, <1>9, <1>10 DEF Next

\* However many workers, prefills, evictions and notifications there are, a
\* cached reply is older than the last notification of its domain only if
\* the worker that read it was running when the notification arrived.
THEOREM StalenessNeedsARace == Spec => []FreshUnlessOvertaken
<1>1. Init => FreshInv
  BY DEF Init, FreshInv, VersionsOK, WorkersFresh, CacheFresh, FreshFor
<1>2. FreshInv => FreshUnlessOvertaken
  BY DEF FreshInv, CacheFresh, FreshFor, FreshUnlessOvertaken
<1> QED
  BY <1>1, <1>2, FreshStep, PTL DEF Spec
-----------------------------------------------------------------------------
(* Types, and what answering a set of requests does.                       *)

Statuses == {"open", "closing", "gone"}
Requests == [client : Clients, replies : Nat]

\* The requests of a history form an interval, so a set of them is finite.
LEMMA RequestsFinite ==
  ASSUME NEW history \in Seq(Requests), NEW q \in SUBSET DOMAIN history
  PROVE  /\ DOMAIN history = 1 .. Len(history) /\ Len(history) \in Nat
         /\ q \subseteq Nat /\ IsFiniteSet(q)
         /\ \A i \in DOMAIN history :
              /\ history[i] \in Requests
              /\ history[i].client \in Clients /\ history[i].replies \in Nat
<1>1. DOMAIN history = 1 .. Len(history) /\ Len(history) \in Nat
  OBVIOUS
<1>2. IsFiniteSet(q)
  <2>1. IsFiniteSet(1 .. Len(history)) /\ q \subseteq 1 .. Len(history)
    BY <1>1, FS_Interval
  <2> QED
    BY <2>1, FS_Subset
<1>3. \A i \in DOMAIN history : history[i] \in Requests
  BY <1>1
<1> QED
  BY <1>1, <1>2, <1>3 DEF Requests

\* The room for a client's replies is used in the order of its requests.
LEMMA OwedGrows ==
  ASSUME NEW history \in Seq(Requests), NEW q \in SUBSET DOMAIN history, NEW c, NEW i
  PROVE  /\ Owed(c, UpTo(i, q), history) \in Nat /\ Owed(c, q, history) \in Nat
         /\ Owed(c, UpTo(i, q), history) <= Owed(c, q, history)
<1> DEFINE all  == {n \in q : history[n].client = c}
           some == {n \in UpTo(i, q) : history[n].client = c}
<1>1. some \subseteq all /\ all \subseteq q
  BY DEF UpTo
<1>2. IsFiniteSet(q)
  BY RequestsFinite
<1>3. IsFiniteSet(all) /\ IsFiniteSet(some) /\ Cardinality(some) <= Cardinality(all)
  BY <1>1, <1>2, FS_Subset
<1>4. Cardinality(all) \in Nat /\ Cardinality(some) \in Nat
  BY <1>3, FS_CardinalityType
<1> QED
  BY <1>3, <1>4 DEF Owed

\* Send writes at most one reply more per request, to open clients only; a
\* client of which it left a request unanswered is not open any more.
LEMMA Sent ==
  ASSUME NEW history \in Seq(Requests), NEW q \in SUBSET DOMAIN history,
         status \in [Clients -> Statuses], Send(q, history)
  PROVE  /\ asked' \in Seq(Requests) /\ Len(asked') = Len(history)
         /\ DOMAIN asked' = DOMAIN history
         /\ status' \in [Clients -> Statuses]
         /\ \A c \in Clients : \/ status'[c] = status[c]
                               \/ status[c] = "open" /\ status'[c] = "closing"
         /\ \A i \in DOMAIN history :
              /\ asked'[i].client = history[i].client
              /\ asked'[i].replies \in history[i].replies .. (history[i].replies + 1)
              /\ i \notin q => asked'[i].replies = history[i].replies
              /\ i \in q /\ status'[history[i].client] = "open" =>
                   asked'[i].replies = history[i].replies + 1
<1> DEFINE DeliveredIn(room) == {i \in q :
             status[history[i].client] = "open"
             /\ Owed(history[i].client, UpTo(i, q), history) <= room[history[i].client]}
<1>0. PICK room \in [Owners(q, history) -> 0 .. Cardinality(q)] :
        /\ asked' = [i \in DOMAIN history |->
             [history[i] EXCEPT !.replies = @ + IF i \in DeliveredIn(room) THEN 1 ELSE 0]]
        /\ status' = [c \in Clients |->
             IF status[c] = "open" /\ c \in Owners(q, history) /\ Owed(c, q, history) > room[c]
             THEN "closing" ELSE status[c]]
  BY DEF Send
<1> DEFINE delivered == DeliveredIn(room)
<1>1. /\ delivered = {i \in q :
           status[history[i].client] = "open"
           /\ Owed(history[i].client, UpTo(i, q), history) <= room[history[i].client]}
      /\ asked' = [i \in DOMAIN history |->
           [history[i] EXCEPT !.replies = @ + IF i \in delivered THEN 1 ELSE 0]]
      /\ status' = [c \in Clients |->
           IF status[c] = "open" /\ c \in Owners(q, history) /\ Owed(c, q, history) > room[c]
           THEN "closing" ELSE status[c]]
  BY <1>0
<1> HIDE DEF delivered
<1>2. /\ DOMAIN history = 1 .. Len(history) /\ Len(history) \in Nat
      /\ \A i \in DOMAIN history :
           /\ history[i] \in Requests
           /\ history[i].client \in Clients /\ history[i].replies \in Nat
  BY RequestsFinite
<1>3. \A i \in DOMAIN history :
        LET one == IF i \in delivered THEN 1 ELSE 0 IN
          /\ asked'[i] \in Requests
          /\ asked'[i].client = history[i].client
          /\ asked'[i].replies = history[i].replies + one
  <2> SUFFICES ASSUME NEW i \in DOMAIN history
               PROVE  LET one == IF i \in delivered THEN 1 ELSE 0 IN
                        /\ asked'[i] \in Requests
                        /\ asked'[i].client = history[i].client
                        /\ asked'[i].replies = history[i].replies + one
    OBVIOUS
  <2> DEFINE one == IF i \in delivered THEN 1 ELSE 0
  <2>1. asked'[i] = [history[i] EXCEPT !.replies = @ + one]
    BY <1>1
  <2>2. history[i] \in Requests /\ history[i].replies \in Nat /\ one \in Nat
    BY <1>2
  <2> QED
    BY <2>1, <2>2 DEF Requests
<1>4. asked' \in Seq(Requests) /\ Len(asked') = Len(history)
  <2>1. DOMAIN asked' = 1 .. Len(history)
    BY <1>1, <1>2
  <2>2. asked' = [i \in 1 .. Len(history) |-> asked'[i]]
    BY <1>1, <2>1
  <2>3. \A i \in 1 .. Len(history) : asked'[i] \in Requests
    BY <1>2, <1>3
  <2> QED
    BY <1>2, <2>2, <2>3
<1>5. \A c \in Clients : \/ status'[c] = status[c]
                         \/ status[c] = "open" /\ status'[c] = "closing"
  BY <1>1
<1>6. status' \in [Clients -> Statuses]
  BY <1>1 DEF Statuses
<1>7. ASSUME NEW i \in q, status'[history[i].client] = "open"
      PROVE  i \in delivered
  <2> DEFINE c == history[i].client
  <2>1. c \in Clients /\ c \in Owners(q, history)
    BY <1>2 DEF Owners
  <2>2. status[c] = "open" /\ ~(Owed(c, q, history) > room[c])
    BY <1>1, <1>7, <2>1
  <2>3. /\ Owed(c, UpTo(i, q), history) \in Nat /\ Owed(c, q, history) \in Nat
        /\ Owed(c, UpTo(i, q), history) <= Owed(c, q, history)
    BY OwedGrows
  <2>4. IsFiniteSet(q)
    BY RequestsFinite
  <2>5. Cardinality(q) \in Nat
    BY <2>4, FS_CardinalityType
  <2>6. room[c] \in Nat
    BY <2>1, <2>5
  <2>7. Owed(c, UpTo(i, q), history) <= room[c]
    BY <2>2, <2>3, <2>6
  <2> QED
    BY <1>1, <2>2, <2>7
<1>8. delivered \subseteq q
  BY <1>1
<1>9. \A i \in DOMAIN history :
        /\ asked'[i].client = history[i].client
        /\ asked'[i].replies \in history[i].replies .. (history[i].replies + 1)
        /\ i \notin q => asked'[i].replies = history[i].replies
        /\ i \in q /\ status'[history[i].client] = "open" =>
             asked'[i].replies = history[i].replies + 1
  BY <1>2, <1>3, <1>7, <1>8
<1> QED
  BY <1>1, <1>4, <1>5, <1>6, <1>9

\* A request is appended to the history, unanswered.
LEMMA AskedType ==
  ASSUME TypeOK, NEW c \in Clients, MayAsk(c)
  PROVE  /\ Asked(c) \in Seq(Requests)
         /\ Len(Asked(c)) = Len(asked) + 1 /\ Len(asked) + 1 <= MaxRequests
         /\ DOMAIN asked = 1 .. Len(asked) /\ Len(asked) \in Nat
         /\ DOMAIN Asked(c) = DOMAIN asked \cup {Request}
         /\ Request \in 1 .. MaxRequests /\ Request \notin DOMAIN asked
         /\ \A i \in DOMAIN asked : Asked(c)[i] = asked[i]
         /\ Asked(c)[Request].client = c /\ Asked(c)[Request].replies = 0
<1> DEFINE new == [client |-> c, replies |-> 0]
<1>1. asked \in Seq(Requests) /\ Len(asked) <= MaxRequests /\ Len(asked) < MaxRequests
  BY DEF TypeOK, Requests, MayAsk
<1>2. new \in Requests /\ new.client = c /\ new.replies = 0
  BY DEF Requests
<1> HIDE DEF new
<1>3. /\ Append(asked, new) \in Seq(Requests) /\ Len(Append(asked, new)) = Len(asked) + 1
      /\ Len(asked) \in Nat
      /\ \A i \in 1 .. Len(asked) : Append(asked, new)[i] = asked[i]
      /\ Append(asked, new)[Len(asked) + 1] = new
  BY <1>1, <1>2
<1>4. /\ DOMAIN asked = 1 .. Len(asked)
      /\ DOMAIN Append(asked, new) = 1 .. (Len(asked) + 1)
  BY <1>1, <1>3
<1>5. Asked(c) = Append(asked, new) /\ Request = Len(asked) + 1
  BY DEF Asked, Request, new
<1> QED
  BY LimitsAssumption, <1>1, <1>2, <1>3, <1>4, <1>5

\* A reply of key k, as the cache keeps it.
CacheTyped(c) == DOMAIN c \subseteq Keys /\ \A k \in DOMAIN c : c[k] \in Entry

\* What is stored is a reply of a worker that read a version.
LEMMA ReplyType ==
  ASSUME TypeOK, NEW w \in workers, NEW k \in Keys, NEW ok \in BOOLEAN
  PROVE  Reply(w, k, ok) \in Entry
<1>1. w.read \in Nat /\ w.race \in Race /\ now \in Nat
  BY LimitsAssumption DEF TypeOK, Worker
<1>2. now + (IF ok \/ Ttl[k] < FailTtl THEN Ttl[k] ELSE FailTtl) \in Nat
  BY <1>1, KeysAssumption
<1> QED
  BY <1>1, <1>2 DEF Reply, Entry

\* Storing a typed reply keeps the cache typed.
LEMMA StoringKeepsType ==
  ASSUME NEW c, CacheTyped(c), NEW k \in Keys, NEW e \in Entry, NEW r \in StoreResults(c, k, e)
  PROVE  CacheTyped(r)
<1>1. /\ DOMAIN r \subseteq DOMAIN c \cup {k}
      /\ \A x \in DOMAIN r : (x = k /\ r[x] = e) \/ (x \in DOMAIN c /\ r[x] = c[x])
  BY Stored
<1> QED
  BY <1>1 DEF CacheTyped

\* So the end of a worker does.
LEMMA CompletionKeepsType ==
  ASSUME TypeOK, NEW w \in workers, NEW ok \in BOOLEAN, Complete(w, ok)
  PROVE  CacheTyped(cache')
<1>1. PICK before :
        /\ \/ before = cache
           \/ \E p \in Prefill[w.key] : before \in StoreResults(cache, p, Reply(w, p, TRUE))
        /\ cache' \in StoreResults(before, w.key, Reply(w, w.key, ok))
  BY CompletionStores
<1>2. w.key \in Keys /\ Prefill[w.key] \subseteq Keys
  BY KeysAssumption DEF TypeOK, Worker
<1>3. CacheTyped(cache)
  BY DEF TypeOK, CacheTyped
<1>4. \A p \in Keys : Reply(w, p, TRUE) \in Entry
  BY ReplyType
<1>5. CacheTyped(before)
  BY <1>1, <1>2, <1>3, <1>4, StoringKeepsType
<1>6. Reply(w, w.key, ok) \in Entry
  BY <1>2, ReplyType
<1> QED
  BY <1>1, <1>2, <1>5, <1>6, StoringKeepsType

\* The parts of the type invariant that belong together.
PeersTyped ==
  /\ status \in [Clients -> Statuses]
  /\ asked \in Seq(Requests)
  /\ Len(asked) <= MaxRequests
QueuesTyped ==
  /\ DOMAIN inflight \subseteq Keys
  /\ \A k \in DOMAIN inflight : inflight[k] \subseteq DOMAIN asked
RestTyped ==
  /\ truth \in [Domains -> 0 .. MaxChanges]
  /\ noticed \in [Domains -> 0 .. MaxChanges]
  /\ now \in 0 .. MaxTime

LEMMA TypeParts ==
  TypeOK <=> /\ PeersTyped /\ QueuesTyped /\ workers \subseteq Worker
             /\ CacheTyped(cache) /\ RestTyped
BY DEF TypeOK, PeersTyped, QueuesTyped, CacheTyped, RestTyped, Statuses, Requests

LEMMA TypeStep ==
  ASSUME TypeOK, [Next]_vars
  PROVE  TypeOK'
<1>t. /\ PeersTyped /\ QueuesTyped /\ workers \subseteq Worker
      /\ CacheTyped(cache) /\ RestTyped
  BY TypeParts
<1>p. ASSUME PeersTyped', QueuesTyped', (workers \subseteq Worker)',
             CacheTyped(cache)', RestTyped'
      PROVE  TypeOK'
  BY <1>p DEF TypeOK, PeersTyped, QueuesTyped, CacheTyped, RestTyped, Statuses, Requests
<1>l. \A k : CacheTyped(LookedUp(k))
  BY <1>t DEF CacheTyped, LookedUp, Without
<1>1. ASSUME NEW c \in Clients, NEW k \in Keys, ServeCached(c, k) \/ Refuse(c, k)
      PROVE  TypeOK'
  <2>1. MayAsk(c) /\ Send({Request}, Asked(c)) /\ cache' \in {cache, LookedUp(k)}
    BY <1>1 DEF ServeCached, Refuse
  <2>2. UNCHANGED <<inflight, workers, truth, noticed, now>>
    BY <1>1 DEF ServeCached, Refuse
  <2>3. /\ Asked(c) \in Seq(Requests) /\ {Request} \in SUBSET DOMAIN Asked(c)
        /\ Len(Asked(c)) = Len(asked) + 1 /\ Len(asked) + 1 <= MaxRequests
        /\ DOMAIN asked = 1 .. Len(asked) /\ Len(asked) \in Nat
    BY <2>1, AskedType
  <2>4. status \in [Clients -> Statuses]
    BY <1>t DEF PeersTyped
  <2>5. /\ asked' \in Seq(Requests) /\ Len(asked') = Len(asked) + 1
        /\ status' \in [Clients -> Statuses]
    BY <2>1, <2>3, <2>4, Sent
  <2>6. DOMAIN asked \subseteq DOMAIN asked'
    BY <2>3, <2>5
  <2>7. PeersTyped' /\ QueuesTyped'
    BY <1>t, <2>2, <2>3, <2>5, <2>6 DEF PeersTyped, QueuesTyped
  <2>8. CacheTyped(cache)' /\ RestTyped' /\ (workers \subseteq Worker)'
    BY <1>t, <1>l, <2>1, <2>2 DEF RestTyped, CacheTyped
  <2> QED
    BY <1>p, <2>7, <2>8
<1>2. ASSUME NEW c \in Clients, NEW k \in Keys, Join(c, k) \/ Start(c, k)
      PROVE  TypeOK'
  <2>1. MayAsk(c) /\ asked' = Asked(c) /\ cache' = LookedUp(k)
    BY <1>2 DEF Join, Start
  <2>2. UNCHANGED <<status, truth, noticed, now>>
    BY <1>2 DEF Join, Start
  <2>3. /\ Asked(c) \in Seq(Requests)
        /\ Len(Asked(c)) = Len(asked) + 1 /\ Len(asked) + 1 <= MaxRequests
        /\ DOMAIN Asked(c) = DOMAIN asked \cup {Request} /\ Request \in 1 .. MaxRequests
    BY <2>1, AskedType
  <2>4. PeersTyped'
    BY <1>t, <2>1, <2>2, <2>3 DEF PeersTyped
  <2>5. QueuesTyped'
    <3>1. CASE Join(c, k)
      <4>1. inflight' = [inflight EXCEPT ![k] = @ \cup {Request}]
        BY <3>1 DEF Join
      <4> QED
        BY <1>t, <2>1, <2>3, <4>1 DEF QueuesTyped
    <3>2. CASE Start(c, k)
      <4>1. inflight' = With(inflight, k, {Request})
        BY <3>2 DEF Start
      <4>2. /\ DOMAIN inflight' = DOMAIN inflight \cup {k}
            /\ \A x \in DOMAIN inflight' :
                 inflight'[x] = IF x = k THEN {Request} ELSE inflight[x]
        BY <4>1 DEF With
      <4> QED
        BY <1>t, <2>1, <2>3, <4>2 DEF QueuesTyped
    <3> QED
      BY <1>2, <3>1, <3>2
  <2>6. workers' \subseteq Worker
    <3>1. CASE Join(c, k)
      BY <1>t, <3>1 DEF Join
    <3>2. CASE Start(c, k)
      <4>1. truth[DomainOf[k]] \in Nat
        BY <1>t, KeysAssumption DEF RestTyped
      <4>2. [key |-> k, by |-> Request, read |-> truth[DomainOf[k]], race |-> "none"] \in Worker
        BY <2>3, <4>1 DEF Worker, Race
      <4> QED
        BY <1>t, <3>2, <4>2 DEF Start
    <3> QED
      BY <1>2, <3>1, <3>2
  <2>7. CacheTyped(cache)' /\ RestTyped'
    BY <1>t, <1>l, <2>1, <2>2 DEF RestTyped, CacheTyped
  <2> QED
    BY <1>p, <2>4, <2>5, <2>6, <2>7
<1>3. ASSUME NEW w \in workers, WorkerReads(w)
      PROVE  TypeOK'
  <2>1. /\ workers' = (workers \ {w}) \cup {[w EXCEPT !.read = truth[DomainOf[w.key]]]}
        /\ UNCHANGED <<status, asked, inflight, cache, truth, noticed, now>>
    BY <1>3 DEF WorkerReads
  <2>2. w \in Worker /\ w.key \in Keys
    BY <1>t DEF Worker
  <2>3. truth[DomainOf[w.key]] \in Nat
    BY <1>t, <2>2, KeysAssumption DEF RestTyped
  <2>4. [w EXCEPT !.read = truth[DomainOf[w.key]]] \in Worker
    BY <2>2, <2>3 DEF Worker
  <2>5. workers' \subseteq Worker
    BY <1>t, <2>1, <2>4
  <2>6. PeersTyped' /\ QueuesTyped' /\ CacheTyped(cache)' /\ RestTyped'
    BY <1>t, <2>1 DEF PeersTyped, QueuesTyped, CacheTyped, RestTyped
  <2> QED
    BY <1>p, <2>5, <2>6
<1>4. ASSUME NEW w \in workers, NEW ok \in BOOLEAN, Complete(w, ok)
      PROVE  TypeOK'
  <2>1. /\ inflight' = Without(inflight, {w.key}) /\ workers' = workers \ {w}
        /\ Send(Queue(w.key), asked) /\ UNCHANGED <<truth, noticed, now>>
    BY <1>4 DEF Complete
  <2>2. CacheTyped(cache')
    BY <1>4, CompletionKeepsType
  <2>3. Queue(w.key) \in SUBSET DOMAIN asked
    BY <1>t DEF Queue, QueuesTyped
  <2>4. asked \in Seq(Requests) /\ status \in [Clients -> Statuses]
    BY <1>t DEF PeersTyped
  <2>5. /\ asked' \in Seq(Requests) /\ Len(asked') = Len(asked)
        /\ status' \in [Clients -> Statuses]
    BY <2>1, <2>3, <2>4, Sent
  <2>6. DOMAIN asked' = DOMAIN asked
    BY <2>4, <2>5
  <2>7. PeersTyped' /\ QueuesTyped'
    BY <1>t, <2>1, <2>5, <2>6 DEF PeersTyped, QueuesTyped, Without
  <2>8. CacheTyped(cache)' /\ RestTyped' /\ (workers \subseteq Worker)'
    BY <1>t, <2>1, <2>2 DEF CacheTyped, RestTyped
  <2> QED
    BY <1>p, <2>7, <2>8
<1>5. ASSUME NEW c \in Clients, Disconnect(c) \/ Kick(c)
      PROVE  TypeOK'
  <2>1. /\ status' = [status EXCEPT ![c] = "gone"] /\ inflight' = Dropped(c)
        /\ UNCHANGED <<asked, workers, cache, truth, noticed, now>>
    BY <1>5 DEF Disconnect, Kick, Forget
  <2>2. PeersTyped' /\ QueuesTyped'
    BY <1>t, <2>1 DEF PeersTyped, QueuesTyped, Dropped, Statuses
  <2>3. CacheTyped(cache)' /\ RestTyped' /\ (workers \subseteq Worker)'
    BY <1>t, <2>1 DEF CacheTyped, RestTyped
  <2> QED
    BY <1>p, <2>2, <2>3
<1>6. ASSUME NEW d \in Domains, Change(d) \/ Invalidate(d)
      PROVE  TypeOK'
  <2>1. /\ UNCHANGED <<status, asked, inflight, now>>
        /\ cache' \in {cache, Without(cache, Invalidated(d))}
    BY <1>6 DEF Change, Invalidate
  <2>2. PeersTyped' /\ QueuesTyped'
    BY <1>t, <2>1 DEF PeersTyped, QueuesTyped
  <2>3. CacheTyped(cache)'
    BY <1>t, <2>1 DEF CacheTyped, Without
  <2>4. RestTyped' /\ (workers \subseteq Worker)'
    <3>1. CASE Change(d)
      BY <1>t, <3>1, LimitsAssumption DEF Change, RestTyped
    <3>2. CASE Invalidate(d)
      <4> DEFINE Marked(w) == [w EXCEPT !.race = IF DomainOf[w.key] = d THEN "overtaken" ELSE @]
      <4>1. /\ workers' = {Marked(w) : w \in workers} /\ truth' = truth /\ now' = now
            /\ noticed' = [noticed EXCEPT ![d] = truth[d]]
        BY <3>2 DEF Invalidate
      <4>2. \A w \in workers : Marked(w) \in Worker
        BY <1>t DEF Worker, Race
      <4> HIDE DEF Marked
      <4> QED
        BY <1>t, <4>1, <4>2 DEF RestTyped
    <3> QED
      BY <1>6, <3>1, <3>2
  <2> QED
    BY <1>p, <2>2, <2>3, <2>4
<1>7. CASE Tick
  <2>1. /\ UNCHANGED <<status, asked, inflight, workers, cache, truth, noticed>>
        /\ now < MaxTime /\ now' = now + 1
    BY <1>7 DEF Tick
  <2>2. RestTyped'
    BY <1>t, <2>1, LimitsAssumption DEF RestTyped
  <2>3. PeersTyped' /\ QueuesTyped' /\ CacheTyped(cache)' /\ (workers \subseteq Worker)'
    BY <1>t, <2>1 DEF PeersTyped, QueuesTyped, CacheTyped
  <2> QED
    BY <1>p, <2>2, <2>3
<1>8. CASE UNCHANGED vars
  BY <1>t, <1>8 DEF vars, TypeOK
<1> QED
  BY <1>1, <1>2, <1>3, <1>4, <1>5, <1>6, <1>7, <1>8 DEF Next

\* In every behaviour the state has its type: a request that waits is one
\* that was read, and what is cached is a reply of some worker.
THEOREM TypeCorrect == Spec => []TypeOK
<1>1. Init => TypeOK
  <2> SUFFICES ASSUME Init PROVE TypeOK
    OBVIOUS
  <2>1. asked \in Seq(Requests) /\ Len(asked) = 0
    BY DEF Init
  <2>2. DOMAIN inflight = {} /\ DOMAIN cache = {}
    BY DEF Init
  <2>3. PeersTyped /\ RestTyped /\ workers \subseteq Worker
    BY <2>1, LimitsAssumption DEF Init, PeersTyped, RestTyped, Statuses
  <2> QED
    BY <2>2, <2>3, TypeParts DEF QueuesTyped, CacheTyped
<1> QED
  BY <1>1, TypeStep, PTL DEF Spec

-----------------------------------------------------------------------------
(* One fate.  A request waits for a key, or it was answered; what no type  *)
(* says is that it never waits for two keys.                               *)

Waits(i) == \E k \in DOMAIN inflight : i \in inflight[k]

\* No request waits for two keys.
Disjoint == \A k, l \in DOMAIN inflight : \A i \in inflight[k] : i \in inflight[l] => k = l

\* The fate of request i.
Fated(i) ==
  /\ asked[i].replies \in 0 .. 1
  /\ Waits(i) => asked[i].replies = 0
  /\ status[Owner(i)] = "open" => Waits(i) \/ asked[i].replies = 1
  /\ status[Owner(i)] = "gone" => ~Waits(i)

FateInv == Disjoint /\ \A i \in DOMAIN asked : Fated(i)

\* A step that leaves a request where it waits and its replies alone leaves
\* its fate, if its client at most goes from open to closing.
LEMMA SameFate ==
  ASSUME NEW i, Fated(i), Waits(i)' <=> Waits(i),
         asked'[i].replies = asked[i].replies, asked'[i].client = asked[i].client,
         \/ status'[Owner(i)] = status[Owner(i)]
         \/ status[Owner(i)] = "open" /\ status'[Owner(i)] = "closing"
  PROVE  Fated(i)'
<1>1. Owner(i)' = Owner(i)
  BY DEF Owner
<1> QED
  BY <1>1 DEF Fated

\* No request escapes its fate.
LEMMA FateStep ==
  ASSUME TypeOK, FateInv, [Next]_vars
  PROVE  FateInv'
<1>t. /\ status \in [Clients -> Statuses] /\ asked \in Seq(Requests)
      /\ \A k \in DOMAIN inflight : inflight[k] \subseteq DOMAIN asked
  BY DEF TypeOK, Statuses, Requests
<1>a. \A i \in DOMAIN asked : /\ asked[i].client \in Clients
                              /\ asked[i].replies \in 0 .. 1 /\ asked[i].replies \in Nat
  BY <1>t, RequestsFinite DEF FateInv, Fated
<1>q. ASSUME UNCHANGED <<status, asked, inflight>>
      PROVE  FateInv'
  BY <1>q DEF FateInv, Disjoint, Fated, Waits, Owner
<1>1. ASSUME NEW c \in Clients, NEW k \in Keys, ServeCached(c, k) \/ Refuse(c, k)
      PROVE  FateInv'
  <2>1. MayAsk(c) /\ Send({Request}, Asked(c)) /\ inflight' = inflight
    BY <1>1 DEF ServeCached, Refuse
  <2>2. /\ Asked(c) \in Seq(Requests) /\ {Request} \in SUBSET DOMAIN Asked(c)
        /\ Len(Asked(c)) = Len(asked) + 1
        /\ DOMAIN asked = 1 .. Len(asked) /\ Len(asked) \in Nat
        /\ DOMAIN Asked(c) = DOMAIN asked \cup {Request} /\ Request \notin DOMAIN asked
        /\ \A i \in DOMAIN asked : Asked(c)[i] = asked[i]
        /\ Asked(c)[Request].client = c /\ Asked(c)[Request].replies = 0
    BY <2>1, AskedType
  <2>3. /\ DOMAIN asked' = DOMAIN Asked(c)
        /\ \A x \in Clients : \/ status'[x] = status[x]
                              \/ status[x] = "open" /\ status'[x] = "closing"
        /\ \A i \in DOMAIN Asked(c) :
             /\ asked'[i].client = Asked(c)[i].client
             /\ asked'[i].replies \in Asked(c)[i].replies .. (Asked(c)[i].replies + 1)
             /\ i \notin {Request} => asked'[i].replies = Asked(c)[i].replies
             /\ i \in {Request} /\ status'[Asked(c)[i].client] = "open" =>
                  asked'[i].replies = Asked(c)[i].replies + 1
    BY <1>t, <2>1, <2>2, Sent
  <2>4. DOMAIN asked' = DOMAIN asked \cup {Request}
    BY <2>2, <2>3
  <2>5. \A i : Waits(i)' <=> Waits(i)
    BY <2>1 DEF Waits
  <2>6. ASSUME NEW i \in DOMAIN asked
        PROVE  Fated(i)'
    <3>1. /\ asked'[i].replies = asked[i].replies /\ asked'[i].client = asked[i].client
          /\ Owner(i) \in Clients /\ Fated(i)
      BY <1>a, <2>2, <2>3, <2>6 DEF Owner, FateInv
    <3> QED
      BY <2>3, <2>5, <3>1, SameFate
  <2>7. ASSUME NEW i, i = Request
        PROVE  Fated(i)'
    <3>1. ~Waits(i)
      BY <1>t, <2>2, <2>7 DEF Waits
    <3>2. /\ asked'[i].client = c /\ asked'[i].replies \in 0 .. 1
          /\ status'[c] = "open" => asked'[i].replies = 1
      BY <2>2, <2>3, <2>7
    <3>3. Owner(i)' = c
      BY <3>2 DEF Owner
    <3> QED
      BY <2>5, <3>1, <3>2, <3>3 DEF Fated
  <2>8. \A i \in DOMAIN asked' : Fated(i)'
    BY <2>4, <2>6, <2>7
  <2> QED
    BY <2>1, <2>8 DEF FateInv, Disjoint
<1>2. ASSUME NEW c \in Clients, NEW k \in Keys, Join(c, k) \/ Start(c, k)
      PROVE  FateInv'
  <2>1. MayAsk(c) /\ asked' = Asked(c) /\ status' = status
    BY <1>2 DEF Join, Start
  <2>2. /\ DOMAIN asked' = DOMAIN asked \cup {Request} /\ Request \notin DOMAIN asked
        /\ \A i \in DOMAIN asked : asked'[i] = asked[i]
        /\ asked'[Request].client = c /\ asked'[Request].replies = 0
    BY <2>1, AskedType
  <2>3. /\ DOMAIN inflight' = DOMAIN inflight \cup {k}
        /\ \A x \in DOMAIN inflight' : inflight'[x] =
             (IF x \in DOMAIN inflight THEN inflight[x] ELSE {})
               \cup (IF x = k THEN {Request} ELSE {})
    <3>1. CASE Join(c, k)
      BY <3>1 DEF Join
    <3>2. CASE Start(c, k)
      BY <3>2 DEF Start, With
    <3> QED
      BY <1>2, <3>1, <3>2
  <2>4. \A x \in DOMAIN inflight : Request \notin inflight[x]
    BY <1>t, <2>2
  <2>5. Disjoint'
    BY <2>3, <2>4 DEF Disjoint, FateInv
  <2>6. ASSUME NEW i \in DOMAIN asked
        PROVE  Fated(i)'
    <3>1. Waits(i)' <=> Waits(i)
      BY <2>2, <2>3 DEF Waits
    <3> QED
      BY <2>1, <2>2, <3>1, SameFate DEF FateInv
  <2>7. ASSUME NEW i, i = Request
        PROVE  Fated(i)'
    <3>1. Waits(i)'
      BY <2>3, <2>7 DEF Waits
    <3>2. Owner(i)' = c /\ status'[c] # "gone" /\ asked'[i].replies = 0
      BY <2>1, <2>2, <2>7 DEF Owner, MayAsk
    <3> QED
      BY <3>1, <3>2 DEF Fated
  <2> QED
    BY <2>2, <2>5, <2>6, <2>7 DEF FateInv
<1>3. ASSUME NEW w \in workers, NEW ok \in BOOLEAN, Complete(w, ok)
      PROVE  FateInv'
  <2>1. inflight' = Without(inflight, {w.key}) /\ Send(Queue(w.key), asked)
    BY <1>3 DEF Complete
  <2>2. Queue(w.key) \in SUBSET DOMAIN asked
    BY <1>t DEF Queue
  <2>3. /\ DOMAIN asked' = DOMAIN asked
        /\ \A x \in Clients : \/ status'[x] = status[x]
                              \/ status[x] = "open" /\ status'[x] = "closing"
        /\ \A i \in DOMAIN asked :
             /\ asked'[i].client = asked[i].client
             /\ asked'[i].replies \in asked[i].replies .. (asked[i].replies + 1)
             /\ i \notin Queue(w.key) => asked'[i].replies = asked[i].replies
             /\ i \in Queue(w.key) /\ status'[asked[i].client] = "open" =>
                  asked'[i].replies = asked[i].replies + 1
    BY <1>t, <2>1, <2>2, Sent
  <2>4. DOMAIN asked' = DOMAIN asked
    BY <2>3
  <2>5. /\ DOMAIN inflight' = DOMAIN inflight \ {w.key}
        /\ \A x \in DOMAIN inflight' : inflight'[x] = inflight[x]
    BY <2>1 DEF Without
  <2>6. Disjoint'
    BY <2>5 DEF Disjoint, FateInv
  <2>7. ASSUME NEW i \in DOMAIN asked, i \in Queue(w.key)
        PROVE  Fated(i)'
    <3>1. Waits(i) /\ ~Waits(i)'
      BY <2>5, <2>7 DEF Queue, Waits, FateInv, Disjoint
    <3>2. asked[i].replies = 0
      BY <3>1 DEF FateInv, Fated
    <3>3. /\ asked'[i].client = asked[i].client /\ asked'[i].replies \in 0 .. 1
          /\ status'[asked[i].client] = "open" => asked'[i].replies = 1
      BY <2>3, <2>7, <3>2
    <3>4. Owner(i)' = asked[i].client
      BY <3>3 DEF Owner
    <3> QED
      BY <3>1, <3>3, <3>4 DEF Fated
  <2>8. ASSUME NEW i \in DOMAIN asked, i \notin Queue(w.key)
        PROVE  Fated(i)'
    <3>1. Waits(i)' <=> Waits(i)
      BY <2>5, <2>8 DEF Queue, Waits
    <3>2. /\ asked'[i].replies = asked[i].replies /\ asked'[i].client = asked[i].client
          /\ Owner(i) \in Clients /\ Fated(i)
      BY <1>a, <2>3, <2>8 DEF Owner, FateInv
    <3> QED
      BY <2>3, <3>1, <3>2, SameFate
  <2> QED
    BY <2>4, <2>6, <2>7, <2>8 DEF FateInv
<1>4. ASSUME NEW c \in Clients, Disconnect(c) \/ Kick(c)
      PROVE  FateInv'
  <2>1. /\ status' = [status EXCEPT ![c] = "gone"] /\ inflight' = Dropped(c)
        /\ asked' = asked
    BY <1>4 DEF Disconnect, Kick, Forget
  <2>2. /\ DOMAIN inflight' = DOMAIN inflight
        /\ \A x \in DOMAIN inflight : inflight'[x] = {i \in inflight[x] : Owner(i) # c}
    BY <2>1 DEF Dropped
  <2>3. Disjoint'
    BY <2>2 DEF Disjoint, FateInv
  <2>4. ASSUME NEW i \in DOMAIN asked, Owner(i) = c
        PROVE  Fated(i)'
    <3>1. ~Waits(i)' /\ Owner(i)' = c /\ status'[c] = "gone"
      BY <1>t, <2>1, <2>2, <2>4 DEF Waits, Owner
    <3> QED
      BY <2>1, <3>1 DEF Fated, FateInv
  <2>5. ASSUME NEW i \in DOMAIN asked, Owner(i) # c
        PROVE  Fated(i)'
    <3>1. Waits(i)' <=> Waits(i)
      BY <2>2, <2>5 DEF Waits
    <3>2. status'[Owner(i)] = status[Owner(i)]
      BY <1>t, <1>a, <2>1, <2>5 DEF Owner
    <3> QED
      BY <2>1, <3>1, <3>2, SameFate DEF FateInv
  <2> QED
    BY <2>1, <2>3, <2>4, <2>5 DEF FateInv
<1>5. ASSUME NEW w \in workers, WorkerReads(w)
      PROVE  FateInv'
  BY <1>5, <1>q DEF WorkerReads
<1>6. ASSUME NEW d \in Domains, Change(d) \/ Invalidate(d)
      PROVE  FateInv'
  BY <1>6, <1>q DEF Change, Invalidate
<1>7. CASE Tick
  BY <1>7, <1>q DEF Tick
<1>8. CASE UNCHANGED vars
  BY <1>8, <1>q DEF vars
<1> QED
  BY <1>1, <1>2, <1>3, <1>4, <1>5, <1>6, <1>7, <1>8 DEF Next

\* The places where a request waits, counted.
LEMMA PlacesOf ==
  ASSUME TypeOK, Disjoint, NEW i \in DOMAIN asked
  PROVE  Cardinality({p \in Waiting : p[2] = i}) = IF Waits(i) THEN 1 ELSE 0
<1>1. /\ DOMAIN inflight \subseteq Keys
      /\ \A k \in DOMAIN inflight : inflight[k] \subseteq DOMAIN asked
  BY DEF TypeOK
<1>2. DOMAIN asked \subseteq 1 .. MaxRequests
  BY LimitsAssumption DEF TypeOK
<1>3. CASE ~Waits(i)
  <2>1. {p \in Waiting : p[2] = i} = {}
    BY <1>3 DEF Waits, Waiting
  <2> QED
    BY <1>3, <2>1, FS_EmptySet
<1>4. CASE Waits(i)
  <2>1. PICK k \in DOMAIN inflight : i \in inflight[k]
    BY <1>4 DEF Waits
  <2>2. \A p \in Waiting : p[2] = i => p = <<k, i>>
    BY <2>1 DEF Waiting, Disjoint
  <2>3. <<k, i>> \in Waiting
    BY <1>1, <1>2, <2>1 DEF Waiting
  <2>4. {p \in Waiting : p[2] = i} = {<<k, i>>}
    BY <2>2, <2>3
  <2> QED
    BY <1>4, <2>4, FS_Singleton
<1> QED
  BY <1>3, <1>4

\* Whatever the order of requests, completions, disconnections and kicks,
\* no request is lost, answered twice or left with a client that is gone.
THEOREM NothingLostOrTwice == Spec => []OneFate
<1>1. Init => FateInv
  BY DEF Init, FateInv, Disjoint
<1>2. TypeOK /\ FateInv => OneFate
  <2> SUFFICES ASSUME TypeOK, FateInv, NEW i \in DOMAIN asked
               PROVE  LET waits == Cardinality({p \in Waiting : p[2] = i})
                      IN  /\ asked[i].replies + waits <= 1
                          /\ status[Owner(i)] = "open" => asked[i].replies + waits = 1
                          /\ status[Owner(i)] = "gone" => waits = 0
    BY DEF OneFate
  <2>1. Cardinality({p \in Waiting : p[2] = i}) = IF Waits(i) THEN 1 ELSE 0
    BY PlacesOf DEF FateInv
  <2>2. Fated(i)
    BY DEF FateInv
  <2> QED
    BY <2>1, <2>2 DEF Fated
<1> QED
  BY <1>1, <1>2, FateStep, TypeCorrect, PTL DEF Spec

-----------------------------------------------------------------------------
(* Limits.  What is counted is finite, and grows one by one, behind the    *)
(* guard of QueueFull or the eviction of storeReply.                       *)

\* The cache is as large as it may be, at most.
CacheBounded(c) == IsFiniteSet(DOMAIN c) /\ Cardinality(DOMAIN c) <= CacheLimit

\* storeReply evicts an entry before it adds one to a full cache.
LEMMA StoringKeepsLimit ==
  ASSUME NEW c, CacheBounded(c), NEW k, NEW e, NEW r \in StoreResults(c, k, e)
  PROVE  CacheBounded(r)
<1> DEFINE live  == Without(c, {x \in DOMAIN c : c[x].expires <= now})
           first == {x \in DOMAIN live :
                       \A y \in DOMAIN live : live[x].expires <= live[y].expires}
<1>0. CacheLimit \in Nat /\ CacheLimit > 0
  BY LimitsAssumption
<1>1. \/ r = c
      \/ (k \in DOMAIN live \/ Cardinality(DOMAIN live) < CacheLimit) /\ r = With(live, k, e)
      \/ k \notin DOMAIN live /\ \E x \in first : r = With(Without(live, {x}), k, e)
  BY DEF StoreResults
<1>2. DOMAIN live \subseteq DOMAIN c /\ first \subseteq DOMAIN live
  BY DEF Without
<1> HIDE DEF live, first
<1>3. /\ IsFiniteSet(DOMAIN live) /\ Cardinality(DOMAIN live) <= CacheLimit
      /\ Cardinality(DOMAIN live) \in Nat
  <2>1. IsFiniteSet(DOMAIN live) /\ Cardinality(DOMAIN live) <= Cardinality(DOMAIN c)
    BY <1>2, FS_Subset DEF CacheBounded
  <2>2. Cardinality(DOMAIN live) \in Nat /\ Cardinality(DOMAIN c) \in Nat
    BY <2>1, FS_CardinalityType DEF CacheBounded
  <2> QED
    BY <1>0, <2>1, <2>2 DEF CacheBounded
<1>4. ASSUME k \in DOMAIN live \/ Cardinality(DOMAIN live) < CacheLimit, r = With(live, k, e)
      PROVE  CacheBounded(r)
  <2>1. DOMAIN r = DOMAIN live \cup {k}
    BY <1>4 DEF With
  <2>2. /\ IsFiniteSet(DOMAIN r)
        /\ Cardinality(DOMAIN r) =
             IF k \in DOMAIN live THEN Cardinality(DOMAIN live) ELSE Cardinality(DOMAIN live) + 1
    BY <1>3, <2>1, FS_AddElement
  <2> QED
    BY <1>0, <1>3, <1>4, <2>2 DEF CacheBounded
<1>5. ASSUME k \notin DOMAIN live, NEW x \in first, r = With(Without(live, {x}), k, e)
      PROVE  CacheBounded(r)
  <2> DEFINE rest == DOMAIN live \ {x}
  <2>1. DOMAIN r = rest \cup {k} /\ k \notin rest
    BY <1>5 DEF With, Without
  <2>2. IsFiniteSet(rest) /\ Cardinality(rest) = Cardinality(DOMAIN live) - 1
    BY <1>2, <1>3, FS_RemoveElement
  <2> HIDE DEF rest
  <2>3. IsFiniteSet(DOMAIN r) /\ Cardinality(DOMAIN r) = Cardinality(rest) + 1
    BY <2>1, <2>2, FS_AddElement
  <2> QED
    BY <1>0, <1>3, <2>2, <2>3 DEF CacheBounded
<1> QED
  BY <1>1, <1>4, <1>5

\* Fewer entries stay within the limit.
LEMMA FewerBounded ==
  ASSUME NEW c, CacheBounded(c), NEW S
  PROVE  CacheBounded(Without(c, S))
<1>1. DOMAIN Without(c, S) \subseteq DOMAIN c
  BY DEF Without
<1>2. /\ IsFiniteSet(DOMAIN Without(c, S))
      /\ Cardinality(DOMAIN Without(c, S)) <= Cardinality(DOMAIN c)
  BY <1>1, FS_Subset DEF CacheBounded
<1>3. Cardinality(DOMAIN Without(c, S)) \in Nat /\ Cardinality(DOMAIN c) \in Nat
  BY <1>2, FS_CardinalityType DEF CacheBounded
<1> QED
  BY <1>2, <1>3, LimitsAssumption DEF CacheBounded

\* So every step keeps the cache within its limit.
LEMMA CacheStep ==
  ASSUME CacheBounded(cache), [Next]_vars
  PROVE  CacheBounded(cache')
<1>1. ASSUME NEW w, NEW ok, Complete(w, ok)
      PROVE  CacheBounded(cache')
  <2>1. PICK before :
          /\ \/ before = cache
             \/ \E p \in Prefill[w.key] : before \in StoreResults(cache, p, Reply(w, p, TRUE))
          /\ cache' \in StoreResults(before, w.key, Reply(w, w.key, ok))
    BY <1>1, CompletionStores
  <2>2. CacheBounded(before)
    BY <2>1, StoringKeepsLimit
  <2> QED
    BY <2>1, <2>2, StoringKeepsLimit
<1>2. ASSUME NEW S, cache' = Without(cache, S)
      PROVE  CacheBounded(cache')
  BY <1>2, FewerBounded
<1>3. ASSUME NEW c \in Clients, NEW k \in Keys,
             ServeCached(c, k) \/ Refuse(c, k) \/ Join(c, k) \/ Start(c, k)
      PROVE  CacheBounded(cache')
  <2>1. cache' = cache \/ cache' = Without(cache, {k})
    BY <1>3 DEF ServeCached, Refuse, Join, Start, LookedUp
  <2> QED
    BY <1>2, <2>1
<1>4. ASSUME NEW d \in Domains, Invalidate(d)
      PROVE  CacheBounded(cache')
  BY <1>2, <1>4 DEF Invalidate
<1>5. ASSUME cache' = cache
      PROVE  CacheBounded(cache')
  BY <1>5
<1>6. ASSUME NEW w \in workers, WorkerReads(w)
      PROVE  CacheBounded(cache')
  BY <1>5, <1>6 DEF WorkerReads
<1>7. ASSUME NEW c \in Clients, Disconnect(c) \/ Kick(c)
      PROVE  CacheBounded(cache')
  BY <1>5, <1>7 DEF Disconnect, Kick, Forget
<1>8. ASSUME NEW d \in Domains, Change(d)
      PROVE  CacheBounded(cache')
  BY <1>5, <1>8 DEF Change
<1>9. CASE Tick
  BY <1>5, <1>9 DEF Tick
<1>10. CASE UNCHANGED vars
  BY <1>5, <1>10 DEF vars
<1> QED
  BY <1>1, <1>3, <1>4, <1>6, <1>7, <1>8, <1>9, <1>10 DEF Next

\* The queues are within their limits.
QueuesBounded ==
  /\ IsFiniteSet(Waiting) /\ IsFiniteSet(DOMAIN inflight)
  /\ Cardinality(Waiting) <= TotalLimit
  /\ Cardinality(DOMAIN inflight) <= KeyLimit
  /\ \A c \in Clients : Cardinality(WaitingOf(c)) <= PeerLimit

\* A part of a finite set is no larger than a bound of the whole.
LEMMA PartBounded ==
  ASSUME NEW S, NEW T \in SUBSET S, IsFiniteSet(S), NEW n \in Nat, Cardinality(S) <= n
  PROVE  IsFiniteSet(T) /\ Cardinality(T) \in Nat /\ Cardinality(T) <= n
<1>1. IsFiniteSet(T) /\ Cardinality(T) <= Cardinality(S)
  BY FS_Subset
<1>2. Cardinality(T) \in Nat /\ Cardinality(S) \in Nat
  BY <1>1, FS_CardinalityType
<1> QED
  BY <1>1, <1>2

\* Nobody waits more than before, and the clients of those who wait are
\* the same: no queue is longer.
LEMMA FewerWaiting ==
  ASSUME TypeOK, QueuesBounded, DOMAIN inflight' \subseteq DOMAIN inflight,
         \A k \in DOMAIN inflight' : inflight'[k] \subseteq inflight[k],
         \A i \in DOMAIN asked : asked'[i].client = asked[i].client
  PROVE  QueuesBounded'
<1>0. TotalLimit \in Nat /\ KeyLimit \in Nat /\ PeerLimit \in Nat
  BY LimitsAssumption
<1>1. Waiting' \subseteq Waiting
  BY DEF Waiting
<1>2. \A c \in Clients : WaitingOf(c)' \subseteq WaitingOf(c)
  <2>1. \A p \in Waiting : p[2] \in DOMAIN asked
    BY DEF TypeOK, Waiting
  <2> QED
    BY <1>1, <2>1 DEF WaitingOf, Owner
<1>3. \A c \in Clients : IsFiniteSet(WaitingOf(c))
  <2>1. \A c \in Clients : WaitingOf(c) \subseteq Waiting
    BY DEF WaitingOf
  <2> QED
    BY <2>1, FS_Subset DEF QueuesBounded
<1>4. \A c \in Clients : Cardinality(WaitingOf(c)') <= PeerLimit
  BY <1>0, <1>2, <1>3, PartBounded DEF QueuesBounded
<1>5. IsFiniteSet(Waiting') /\ Cardinality(Waiting') <= TotalLimit
  BY <1>0, <1>1, PartBounded DEF QueuesBounded
<1>6. IsFiniteSet(DOMAIN inflight') /\ Cardinality(DOMAIN inflight') <= KeyLimit
  BY <1>0, PartBounded DEF QueuesBounded
<1> QED
  BY <1>4, <1>5, <1>6 DEF QueuesBounded

\* A request that finds the queues not full joins one.
LEMMA OneMoreWaits ==
  ASSUME TypeOK, QueuesBounded, NEW c \in Clients, NEW k \in Keys, Join(c, k) \/ Start(c, k)
  PROVE  QueuesBounded'
<1>0. TotalLimit \in Nat /\ KeyLimit \in Nat /\ PeerLimit \in Nat
  BY LimitsAssumption
<1>1. MayAsk(c) /\ ~QueueFull(c, k) /\ asked' = Asked(c)
  BY DEF Join, Start
<1>2. /\ Request \in 1 .. MaxRequests /\ Request \notin DOMAIN asked
      /\ \A i \in DOMAIN asked : asked'[i] = asked[i]
      /\ asked'[Request].client = c
  BY <1>1, AskedType
<1>3. /\ DOMAIN inflight' = DOMAIN inflight \cup {k}
      /\ \A x \in DOMAIN inflight' : inflight'[x] =
           (IF x \in DOMAIN inflight THEN inflight[x] ELSE {})
             \cup (IF x = k THEN {Request} ELSE {})
  <2>1. CASE Join(c, k)
    BY <2>1 DEF Join
  <2>2. CASE Start(c, k)
    BY <2>2 DEF Start, With
  <2> QED
    BY <2>1, <2>2
<1>4. Waiting' = Waiting \cup {<<k, Request>>}
  BY <1>2, <1>3 DEF Waiting
<1>5. \A p \in Waiting : p[2] \in DOMAIN asked
  BY DEF TypeOK, Waiting
<1>6. ASSUME NEW d \in Clients
      PROVE  WaitingOf(d)' = IF d = c THEN WaitingOf(d) \cup {<<k, Request>>} ELSE WaitingOf(d)
  BY <1>2, <1>4, <1>5 DEF WaitingOf, Owner
<1>7. \A d \in Clients : WaitingOf(d) \subseteq Waiting
  BY DEF WaitingOf
<1>8. \A d \in Clients : IsFiniteSet(WaitingOf(d)) /\ Cardinality(WaitingOf(d)) \in Nat
  BY <1>7, FS_Subset, FS_CardinalityType DEF QueuesBounded
<1>9. /\ IsFiniteSet(Waiting) /\ Cardinality(Waiting) \in Nat
      /\ IsFiniteSet(DOMAIN inflight) /\ Cardinality(DOMAIN inflight) \in Nat
  BY FS_CardinalityType DEF QueuesBounded
<1>10. /\ Cardinality(Waiting) < TotalLimit /\ Cardinality(WaitingOf(c)) < PeerLimit
       /\ k \notin DOMAIN inflight => Cardinality(DOMAIN inflight) < KeyLimit
  <2>1. /\ ~(Cardinality(WaitingOf(c)) >= PeerLimit) /\ ~(Cardinality(Waiting) >= TotalLimit)
        /\ k \notin DOMAIN inflight => ~(Cardinality(DOMAIN inflight) >= KeyLimit)
    BY <1>1 DEF QueueFull
  <2>2. Cardinality(WaitingOf(c)) \in Nat
    BY <1>8
  <2> QED
    BY <1>0, <1>9, <2>1, <2>2
<1>11. /\ IsFiniteSet(Waiting') /\ Cardinality(Waiting') <= TotalLimit
  <2>1. /\ IsFiniteSet(Waiting')
        /\ \/ Cardinality(Waiting') = Cardinality(Waiting)
           \/ Cardinality(Waiting') = Cardinality(Waiting) + 1
    BY <1>4, <1>9, FS_AddElement
  <2>2. Cardinality(Waiting') \in Nat
    BY <2>1, FS_CardinalityType
  <2> QED
    BY <1>0, <1>9, <1>10, <2>1, <2>2
<1>12. IsFiniteSet(DOMAIN inflight') /\ Cardinality(DOMAIN inflight') <= KeyLimit
  <2>1. /\ IsFiniteSet(DOMAIN inflight')
        /\ Cardinality(DOMAIN inflight') = IF k \in DOMAIN inflight
             THEN Cardinality(DOMAIN inflight) ELSE Cardinality(DOMAIN inflight) + 1
    BY <1>3, <1>9, FS_AddElement
  <2> QED
    BY <1>0, <1>9, <1>10, <2>1 DEF QueuesBounded
<1>13. ASSUME NEW d \in Clients
       PROVE  Cardinality(WaitingOf(d)') <= PeerLimit
  <2>1. CASE d # c
    BY <1>6, <2>1 DEF QueuesBounded
  <2>2. CASE d = c
    <3>1. WaitingOf(d)' = WaitingOf(d) \cup {<<k, Request>>}
      BY <1>6, <2>2
    <3>2. \/ Cardinality(WaitingOf(d)') = Cardinality(WaitingOf(d))
          \/ Cardinality(WaitingOf(d)') = Cardinality(WaitingOf(d)) + 1
      BY <1>8, <3>1, FS_AddElement
    <3> QED
      BY <1>0, <1>8, <1>10, <2>2, <3>2
  <2> QED
    BY <2>1, <2>2
<1> QED
  BY <1>11, <1>12, <1>13 DEF QueuesBounded

\* The queues stay within their limits.
LEMMA QueuesStep ==
  ASSUME TypeOK, QueuesBounded, [Next]_vars
  PROVE  QueuesBounded'
<1>t. /\ status \in [Clients -> Statuses] /\ asked \in Seq(Requests)
      /\ \A k \in DOMAIN inflight : inflight[k] \subseteq DOMAIN asked
  BY DEF TypeOK, Statuses, Requests
<1>q. ASSUME UNCHANGED <<asked, inflight>>
      PROVE  QueuesBounded'
  BY <1>q, FewerWaiting
<1>1. ASSUME NEW c \in Clients, NEW k \in Keys, ServeCached(c, k) \/ Refuse(c, k)
      PROVE  QueuesBounded'
  <2>1. MayAsk(c) /\ Send({Request}, Asked(c)) /\ inflight' = inflight
    BY <1>1 DEF ServeCached, Refuse
  <2>2. /\ Asked(c) \in Seq(Requests) /\ {Request} \in SUBSET DOMAIN Asked(c)
        /\ DOMAIN asked \subseteq DOMAIN Asked(c)
        /\ \A i \in DOMAIN asked : Asked(c)[i] = asked[i]
    BY <2>1, AskedType
  <2>3. \A i \in DOMAIN Asked(c) : asked'[i].client = Asked(c)[i].client
    BY <1>t, <2>1, <2>2, Sent
  <2> QED
    BY <2>1, <2>2, <2>3, FewerWaiting
<1>2. ASSUME NEW c \in Clients, NEW k \in Keys, Join(c, k) \/ Start(c, k)
      PROVE  QueuesBounded'
  BY <1>2, OneMoreWaits
<1>3. ASSUME NEW w \in workers, NEW ok \in BOOLEAN, Complete(w, ok)
      PROVE  QueuesBounded'
  <2>1. inflight' = Without(inflight, {w.key}) /\ Send(Queue(w.key), asked)
    BY <1>3 DEF Complete
  <2>2. Queue(w.key) \in SUBSET DOMAIN asked
    BY <1>t DEF Queue
  <2>3. \A i \in DOMAIN asked : asked'[i].client = asked[i].client
    BY <1>t, <2>1, <2>2, Sent
  <2>4. /\ DOMAIN inflight' \subseteq DOMAIN inflight
        /\ \A k \in DOMAIN inflight' : inflight'[k] \subseteq inflight[k]
    BY <2>1 DEF Without
  <2> QED
    BY <2>3, <2>4, FewerWaiting
<1>4. ASSUME NEW c \in Clients, Disconnect(c) \/ Kick(c)
      PROVE  QueuesBounded'
  <2>1. inflight' = Dropped(c) /\ asked' = asked
    BY <1>4 DEF Disconnect, Kick, Forget
  <2>2. /\ DOMAIN inflight' \subseteq DOMAIN inflight
        /\ \A k \in DOMAIN inflight' : inflight'[k] \subseteq inflight[k]
    BY <2>1 DEF Dropped
  <2> QED
    BY <2>1, <2>2, FewerWaiting
<1>5. ASSUME NEW w \in workers, WorkerReads(w)
      PROVE  QueuesBounded'
  BY <1>5, <1>q DEF WorkerReads
<1>6. ASSUME NEW d \in Domains, Change(d) \/ Invalidate(d)
      PROVE  QueuesBounded'
  BY <1>6, <1>q DEF Change, Invalidate
<1>7. CASE Tick
  BY <1>7, <1>q DEF Tick
<1>8. CASE UNCHANGED vars
  BY <1>8, <1>q DEF vars
<1> QED
  BY <1>1, <1>2, <1>3, <1>4, <1>5, <1>6, <1>7, <1>8 DEF Next

\* For any limits, the requests that wait, those of one client among them,
\* the running keys and the cached replies stay within them.
THEOREM BoundedByLimits == Spec => []LimitsHold
<1> DEFINE Bounded == QueuesBounded /\ CacheBounded(cache)
<1>1. Init => Bounded
  <2> SUFFICES ASSUME Init PROVE Bounded
    OBVIOUS
  <2>1. DOMAIN inflight = {} /\ DOMAIN cache = {} /\ Waiting = {}
    BY DEF Init, Waiting
  <2>2. \A c : WaitingOf(c) = {}
    BY <2>1 DEF WaitingOf
  <2> QED
    <3>1. IsFiniteSet({}) /\ Cardinality({}) = 0
      BY FS_EmptySet
    <3>2. TotalLimit \in Nat /\ KeyLimit \in Nat /\ PeerLimit \in Nat /\ CacheLimit \in Nat
      BY LimitsAssumption
    <3>3. QueuesBounded
      <4>1. IsFiniteSet(Waiting) /\ Cardinality(Waiting) = 0
        BY <2>1, <3>1
      <4>2. IsFiniteSet(DOMAIN inflight) /\ Cardinality(DOMAIN inflight) = 0
        BY <2>1, <3>1
      <4>3. \A c \in Clients : Cardinality(WaitingOf(c)) = 0
        BY <2>2, <3>1
      <4> QED
        BY <3>2, <4>1, <4>2, <4>3 DEF QueuesBounded
    <3>4. CacheBounded(cache)
      BY <2>1, <3>1, <3>2 DEF CacheBounded
    <3> QED
      BY <3>3, <3>4
<1>2. TypeOK /\ Bounded /\ [Next]_vars => Bounded'
  <2> SUFFICES ASSUME TypeOK, Bounded, [Next]_vars PROVE Bounded'
    OBVIOUS
  <2>1. QueuesBounded'
    BY QueuesStep
  <2>2. CacheBounded(cache)'
    BY CacheStep DEF CacheBounded
  <2> QED
    BY <2>1, <2>2
<1>3. Bounded => LimitsHold
  BY DEF QueuesBounded, CacheBounded, LimitsHold
<1> QED
  BY <1>1, <1>2, <1>3, TypeCorrect, PTL DEF Spec
=============================================================================
