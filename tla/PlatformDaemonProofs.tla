------------------------ MODULE PlatformDaemonProofs ------------------------
(***************************************************************************)
(* File operations lose nothing, pins are whole, and the services hold     *)
(* what an enabled lease asked for.                                        *)
(*                                                                         *)
(* A move that copies owes the removal of its source.  That nothing is     *)
(* lost is not inductive: two moves may owe the removal of the same thing. *)
(* The invariant counts: a thing that was not forgiven stands at more      *)
(* paths than there are moves that owe its removal.                        *)
(*                                                                         *)
(* A lease knows a cookie once its reply is in its mail.  As long as it    *)
(* has not been told that the service ended, the service gave that cookie  *)
(* to it and to no other lease, and holds it.  What ends an inhibition is  *)
(* a message of a lease that is gone: its cookie is its own, unless the    *)
(* service ended before it was sent.  Whoever waits has news ahead, and a  *)
(* lease that is gone has announced its end behind its last request.       *)
(***************************************************************************)
EXTENDS PlatformDaemon, FiniteSetTheorems, SequenceTheorems, TLAPS

Elems(q)    == {q[n] : n \in DOMAIN q}
NoCookie(q) == \A n \in DOMAIN q : q[n].kind # "cookie"
OneCookie(q) ==
  \A m, n \in DOMAIN q : q[m].kind = "cookie" /\ q[n].kind = "cookie" => m = n

-----------------------------------------------------------------------------
(* Lemmas about sequences.                                                 *)

LEMMA Appended ==
  ASSUME NEW S, NEW q \in Seq(S), NEW x \in S
  PROVE  /\ Append(q, x) \in Seq(S)
         /\ Elems(Append(q, x)) = Elems(q) \cup {x}
         /\ NoCookie(q) => OneCookie(Append(q, x))
         /\ NoCookie(q) /\ x.kind # "cookie" => NoCookie(Append(q, x))
         /\ OneCookie(q) /\ x.kind # "cookie" => OneCookie(Append(q, x))
<1> DEFINE r == Append(q, x)
<1>1. /\ r \in Seq(S) /\ Len(r) = Len(q) + 1 /\ Len(q) \in Nat
      /\ \A n \in 1 .. Len(q) : r[n] = q[n]
      /\ r[Len(q) + 1] = x /\ DOMAIN q = 1 .. Len(q)
  OBVIOUS
<1>2. DOMAIN r = 1 .. Len(q) + 1
  BY <1>1
<1> HIDE DEF r
<1>3. \A n \in DOMAIN r : (n \in DOMAIN q /\ r[n] = q[n]) \/ (n = Len(q) + 1 /\ r[n] = x)
  BY <1>1, <1>2
<1>4. \A n \in DOMAIN q : n \in DOMAIN r /\ r[n] = q[n]
  BY <1>1, <1>2
<1>5. Len(q) + 1 \in DOMAIN r
  BY <1>1, <1>2
<1>6. Elems(r) = Elems(q) \cup {x}
  BY <1>1, <1>3, <1>4, <1>5 DEF Elems
<1>7. NoCookie(q) => OneCookie(r)
  BY <1>3 DEF NoCookie, OneCookie
<1>8. NoCookie(q) /\ x.kind # "cookie" => NoCookie(r)
  BY <1>3 DEF NoCookie
<1>9. OneCookie(q) /\ x.kind # "cookie" => OneCookie(r)
  BY <1>3 DEF OneCookie
<1> QED
  BY <1>1, <1>6, <1>7, <1>8, <1>9 DEF r

LEMMA HeadAndTail ==
  ASSUME NEW S, NEW q \in Seq(S), q # <<>>
  PROVE  /\ Head(q) \in Elems(q) /\ Head(q) \in S /\ Tail(q) \in Seq(S)
         /\ Elems(q) = {Head(q)} \cup Elems(Tail(q))
         /\ OneCookie(q) => OneCookie(Tail(q))
         /\ OneCookie(q) /\ Head(q).kind = "cookie" => NoCookie(Tail(q))
         /\ NoCookie(q) => NoCookie(Tail(q))
<1> DEFINE r == Tail(q)
<1>1. /\ r \in Seq(S) /\ Len(r) = Len(q) - 1 /\ Len(q) \in Nat \ {0}
      /\ \A n \in 1 .. Len(q) - 1 : r[n] = q[n + 1]
      /\ Head(q) = q[1] /\ DOMAIN q = 1 .. Len(q)
  OBVIOUS
<1>2. DOMAIN r = 1 .. Len(q) - 1
  BY <1>1
<1> HIDE DEF r
<1>3. \A n \in DOMAIN r : r[n] = q[n + 1] /\ n + 1 \in DOMAIN q /\ n \in Nat /\ n + 1 # 1
  BY <1>1, <1>2
<1>4. \A n \in DOMAIN q : n = 1 \/ (n - 1 \in DOMAIN r /\ r[n - 1] = q[n])
  BY <1>1, <1>2
<1>5. 1 \in DOMAIN q
  BY <1>1
<1>6. Elems(q) = {q[1]} \cup Elems(r)
  BY <1>3, <1>4, <1>5 DEF Elems
<1>7. OneCookie(q) => OneCookie(r)
  BY <1>3 DEF OneCookie
<1>8. OneCookie(q) /\ q[1].kind = "cookie" => NoCookie(r)
  BY <1>3, <1>5 DEF OneCookie, NoCookie
<1>9. NoCookie(q) => NoCookie(r)
  BY <1>3 DEF NoCookie
<1>10. Head(q) \in S /\ Head(q) = q[1] /\ r \in Seq(S)
  BY <1>1
<1> QED
  BY <1>6, <1>7, <1>8, <1>9, <1>10 DEF r

LEMMA EmptyMail == Elems(<<>>) = {} /\ NoCookie(<<>>) /\ OneCookie(<<>>)
  BY DEF Elems, NoCookie, OneCookie

LEMMA Concatenated ==
  ASSUME NEW S, NEW p \in Seq(S), NEW q \in Seq(S)
  PROVE  p \o q \in Seq(S) /\ Elems(p \o q) = Elems(p) \cup Elems(q)
<1> DEFINE r == p \o q
<1>1. /\ r \in Seq(S) /\ DOMAIN r = 1 .. Len(p) + Len(q)
      /\ \A n \in 1 .. Len(p) + Len(q) : r[n] = IF n <= Len(p) THEN p[n] ELSE q[n - Len(p)]
      /\ DOMAIN p = 1 .. Len(p) /\ DOMAIN q = 1 .. Len(q) /\ Len(p) \in Nat /\ Len(q) \in Nat
  OBVIOUS
<1> HIDE DEF r
<1>2. \A n \in DOMAIN p : n \in DOMAIN r /\ r[n] = p[n]
  BY <1>1
<1>3. \A n \in DOMAIN q : n + Len(p) \in DOMAIN r /\ r[n + Len(p)] = q[n]
  BY <1>1
<1>4. \A n \in DOMAIN r : \/ n \in DOMAIN p /\ r[n] = p[n]
                          \/ n - Len(p) \in DOMAIN q /\ r[n] = q[n - Len(p)]
  BY <1>1
<1>5. Elems(r) = Elems(p) \cup Elems(q)
  BY <1>2, <1>3, <1>4 DEF Elems
<1> QED
  BY <1>1, <1>5 DEF r

-----------------------------------------------------------------------------
(* The invariant.                                                          *)

\* What a lease knows by itself.
Local(l) ==
  /\ stage[l] \in {"unused", "gone"} =>
       cookie[l] = [s \in Services |-> 0] /\ mail[l] = <<>> /\ waits[l] = "none"
  /\ stage[l] # "dropped" =>
       /\ OneCookie(mail[l])
       /\ waits[l] # "none" => NoCookie(mail[l]) /\ waits[l] = stage[l]
       /\ \A e \in Elems(mail[l]) : e.kind = "cookie" => e.of = stage[l] /\ e.cookie # 0
  /\ stage[l] = "screen"  => cookie[l]["power"] # 0
  /\ stage[l] = "enabled" => \A s \in Services : cookie[l][s] # 0

Told(l, s)     == Event("owner", s, 0) \in Elems(mail[l])
Knows(l, s, k) == \/ k # 0 /\ cookie[l][s] = k
                  \/ stage[l] # "dropped" /\ Event("cookie", s, k) \in Elems(mail[l])

\* k is a cookie of s that l has, and l alone.
Owns(l, s, k) ==
  /\ k <= issued[s] /\ \A h \in held[s] : h.cookie = k => h.lease = l
  /\ l \in crossed \/ [cookie |-> k, lease |-> l] \in held[s]

LeaseOK(l) ==
  Local(l) /\ \A s \in Services : Told(l, s) \/ \A k \in Nat : Knows(l, s, k) => Owns(l, s, k)

MessageOK(m, s) ==
  /\ m.kind # "inhibit" => \A l \in m.from : stage[l] = "gone"
  /\ m.kind = "uninhibit" /\ ~m.stale =>
       m.cookie <= issued[s] /\ \A h \in held[s] : h.cookie = m.cookie => h.lease \in m.from

ServiceOK(s) ==
  /\ \A h \in held[s] : h.cookie <= issued[s]
  /\ \A m \in Elems(inbox[s]) : MessageOK(m, s)

AwakeInv == /\ AwakeTypeOK
            /\ \A l \in Leases : LeaseOK(l)
            /\ \A s \in Services : ServiceOK(s)

LEMMA SameLease ==
  ASSUME NEW l \in Leases, LeaseOK(l), stage'[l] = stage[l], cookie'[l] = cookie[l],
         mail'[l] = mail[l], waits'[l] = waits[l], UNCHANGED <<held, issued, crossed>>
  PROVE  LeaseOK(l)'
  BY DEF LeaseOK, Local, Told, Knows, Owns

LEMMA SameService ==
  ASSUME NEW s \in Services, ServiceOK(s), UNCHANGED <<held, issued>>,
         \A l : stage[l] = "gone" => stage'[l] = "gone",
         \A m \in Elems(inbox'[s]) : m \in Elems(inbox[s]) \/ MessageOK(m, s)'
  PROVE  ServiceOK(s)'
<1>1. \A m : MessageOK(m, s) => MessageOK(m, s)'
  BY DEF MessageOK
<1> QED
  BY <1>1 DEF ServiceOK

LEMMA Events ==
  ASSUME NEW k, NEW s, NEW n, NEW j, NEW t, NEW m
  PROVE  /\ Event(k, s, n).kind = k /\ Event(k, s, n).of = s /\ Event(k, s, n).cookie = n
         /\ Event(k, s, n) = Event(j, t, m) => k = j /\ s = t /\ n = m
<1>1. /\ Event(k, s, n).kind = k /\ Event(k, s, n).of = s /\ Event(k, s, n).cookie = n
      /\ Event(j, t, m).kind = j /\ Event(j, t, m).of = t /\ Event(j, t, m).cookie = m
  BY DEF Event
<1> QED
  BY <1>1

LEMMA EventTypes ==
  ASSUME NEW s \in Services, NEW n \in Nat
  PROVE  /\ Event("owner", s, n) \in MailEvent
         /\ Event("cookie", s, n) \in MailEvent
         /\ Event("error", s, n) \in MailEvent
  BY DEF Event, MailEvent

LEMMA ToldGone ==
  ASSUME NEW l, NEW s
  PROVE  OwnerGone(l, s) <=> Told(l, s)
  BY DEF OwnerGone, Told, Elems

-----------------------------------------------------------------------------
(* Steps of the leases.                                                    *)

\* inhibit() leaves services and cookies alone.
LEMMA InhibitOK ==
  ASSUME AwakeInv, NEW l \in Leases, NEW s \in Services, NEW rest \in Seq(MailEvent),
         Inhibit(l, s, rest), NoCookie(rest), UNCHANGED <<held, issued>>,
         \A k : stage[k] = "gone" => stage'[k] = "gone"
  PROVE  /\ waits' \in [Leases -> Services \cup {"none"}]
         /\ mail' \in [Leases -> Seq(MailEvent)]
         /\ inbox' \in [Services -> Seq(Message)]
         /\ \A k \in Leases \ {l} : waits'[k] = waits[k] /\ mail'[k] = mail[k]
         /\ waits'[l] \in {waits[l], s} /\ NoCookie(mail'[l])
         /\ \A t : Event("owner", t, 0) \in Elems(rest) => Event("owner", t, 0) \in Elems(mail'[l])
         /\ \A t \in Services : ServiceOK(t)'
<1> DEFINE m == [kind |-> "inhibit", cookie |-> 0, from |-> {l}, stale |-> FALSE]
<1>1. m \in Message
  BY DEF Message
<1>2. Event("error", s, 0) \in MailEvent /\ Event("error", s, 0).kind # "cookie"
  BY EventTypes, Events
<1>3. MessageOK(m, s)'
  BY DEF MessageOK
<1>4. m.kind = "inhibit"
  OBVIOUS
<1> HIDE DEF m
<1>5. CASE up[s]
  <2>1. /\ waits' = [waits EXCEPT ![l] = s] /\ mail' = [mail EXCEPT ![l] = rest]
        /\ inbox' = [inbox EXCEPT ![s] = Append(@, m)]
    BY <1>5 DEF Inhibit, m
  <2>2. inbox[s] \in Seq(Message)
    BY DEF AwakeInv, AwakeTypeOK
  <2>3. /\ Append(inbox[s], m) \in Seq(Message)
        /\ Elems(Append(inbox[s], m)) = Elems(inbox[s]) \cup {m}
    BY <1>1, <2>2, Appended
  <2>4. /\ inbox' \in [Services -> Seq(Message)] /\ Elems(inbox'[s]) = Elems(inbox[s]) \cup {m}
        /\ \A t \in Services \ {s} : inbox'[t] = inbox[t]
    BY <2>1, <2>3 DEF AwakeInv, AwakeTypeOK
  <2>5. \A t \in Services : ServiceOK(t)'
    <3> SUFFICES ASSUME NEW t \in Services PROVE ServiceOK(t)'
      OBVIOUS
    <3>1. ServiceOK(t)
      BY DEF AwakeInv
    <3>2. \A x \in Elems(inbox'[t]) : x \in Elems(inbox[t]) \/ MessageOK(x, t)'
      BY <2>4, <1>3
    <3> QED
      BY <3>1, <3>2, SameService
  <2>6. /\ waits' \in [Leases -> Services \cup {"none"}] /\ mail' \in [Leases -> Seq(MailEvent)]
        /\ \A k \in Leases \ {l} : waits'[k] = waits[k] /\ mail'[k] = mail[k]
        /\ waits'[l] = s /\ mail'[l] = rest
    BY <2>1 DEF AwakeInv, AwakeTypeOK
  <2> QED
    BY <2>4, <2>5, <2>6
<1>6. CASE ~up[s]
  <2> DEFINE e == Event("error", s, 0)
  <2>1. mail' = [mail EXCEPT ![l] = Append(rest, e)] /\ UNCHANGED <<waits, inbox>>
    BY <1>6 DEF Inhibit
  <2>2. e \in MailEvent /\ e.kind # "cookie"
    BY <1>2
  <2> HIDE DEF e
  <2>3. /\ Append(rest, e) \in Seq(MailEvent) /\ Elems(Append(rest, e)) = Elems(rest) \cup {e}
        /\ NoCookie(Append(rest, e))
    BY <2>2, Appended
  <2>4. /\ waits' \in [Leases -> Services \cup {"none"}] /\ mail' \in [Leases -> Seq(MailEvent)]
        /\ \A k \in Leases \ {l} : waits'[k] = waits[k] /\ mail'[k] = mail[k]
        /\ waits'[l] = waits[l] /\ mail'[l] = Append(rest, e)
    BY <2>1, <2>3 DEF AwakeInv, AwakeTypeOK
  <2>5. \A t \in Services : ServiceOK(t)'
    BY <2>1, SameService DEF AwakeInv
  <2>6. inbox' \in [Services -> Seq(Message)]
    BY <2>1 DEF AwakeInv, AwakeTypeOK
  <2> QED
    BY <2>3, <2>4, <2>5, <2>6
<1> QED
  BY <1>5, <1>6

LEMMA EnableSafe ==
  ASSUME AwakeInv, NEW c \in Clients, Enable(c)
  PROVE  AwakeInv'
<1>1. PICK l \in Leases : /\ stage[l] = "unused" /\ lease' = [lease EXCEPT ![c] = l]
                          /\ stage' = [stage EXCEPT ![l] = "power"]
                          /\ Inhibit(l, "power", <<>>)
  BY DEF Enable
<1>2. /\ asking' = asking \cup {c} /\ up["power"]
      /\ UNCHANGED <<cookie, up, held, issued, crossed, restarts>>
  BY DEF Enable, Services
<1>3. \A k : stage[k] = "gone" => stage'[k] = "gone"
  BY <1>1 DEF AwakeInv, AwakeTypeOK
<1>4. <<>> \in Seq(MailEvent) /\ "power" \in Services
  BY DEF Services
<1>5. /\ waits' \in [Leases -> Services \cup {"none"}]
      /\ mail' \in [Leases -> Seq(MailEvent)]
      /\ inbox' \in [Services -> Seq(Message)]
      /\ \A k \in Leases \ {l} : waits'[k] = waits[k] /\ mail'[k] = mail[k]
      /\ waits'[l] \in {waits[l], "power"} /\ NoCookie(mail'[l])
      /\ \A t \in Services : ServiceOK(t)'
  BY <1>1, <1>2, <1>3, <1>4, EmptyMail, InhibitOK
<1>6. AwakeTypeOK'
  BY <1>1, <1>2, <1>5 DEF AwakeInv, AwakeTypeOK
<1>7. stage'[l] = "power" /\ \A k \in Leases \ {l} : stage'[k] = stage[k]
  BY <1>1 DEF AwakeInv, AwakeTypeOK
<1>8. \A k \in Leases \ {l} : LeaseOK(k)'
  BY <1>2, <1>5, <1>7, SameLease DEF AwakeInv
<1>9. LeaseOK(l)'
  <2>1. cookie'[l] = [s \in Services |-> 0] /\ waits'[l] \in {"none", "power"}
    BY <1>1, <1>2, <1>5 DEF AwakeInv, LeaseOK, Local
  <2>2. \A e \in Elems(mail'[l]) : e.kind # "cookie"
    BY <1>5 DEF NoCookie, Elems
  <2>3. OneCookie(mail'[l])
    BY <1>5 DEF NoCookie, OneCookie
  <2>4. Local(l)'
    BY <2>1, <2>2, <2>3, <1>5, <1>7 DEF Local
  <2>5. \A s \in Services, k \in Nat : ~Knows(l, s, k)'
    BY <2>1, <2>2, Events DEF Knows
  <2> QED
    BY <2>4, <2>5 DEF LeaseOK
<1> QED
  BY <1>5, <1>6, <1>8, <1>9 DEF AwakeInv

\* The destructor of l, when nothing else happens to stages and cookies.
LEMMA DestroySafe ==
  ASSUME AwakeInv, NEW l \in Leases, Destroy(l), UNCHANGED <<up, held, issued, crossed, restarts>>,
         lease' \in [Clients -> Leases \cup {NoLease}], asking' \subseteq Clients
  PROVE  AwakeInv'
<1> DEFINE zero == [s \in Services |-> 0]
           cs == [kind |-> "vanish", cookie |-> 0, from |-> {l}, stale |-> FALSE]
<1>1. /\ stage' = [stage EXCEPT ![l] = "gone"] /\ cookie' = [cookie EXCEPT ![l] = zero]
      /\ waits' = [waits EXCEPT ![l] = "none"] /\ mail' = [mail EXCEPT ![l] = <<>>]
  BY DEF Destroy
<1>2. inbox' = [s \in Services |-> IF up[s] THEN inbox[s] \o Farewell(l, s) ELSE <<>>]
  BY DEF Destroy
<1>3. /\ stage'[l] = "gone" /\ cookie'[l] = zero /\ waits'[l] = "none" /\ mail'[l] = <<>>
      /\ \A k \in Leases \ {l} : /\ stage'[k] = stage[k] /\ cookie'[k] = cookie[k]
                                 /\ waits'[k] = waits[k] /\ mail'[k] = mail[k]
  BY <1>1 DEF AwakeInv, AwakeTypeOK
<1>4. \A k : stage[k] = "gone" => stage'[k] = "gone"
  BY <1>1 DEF AwakeInv, AwakeTypeOK
<1>5. ASSUME NEW s \in Services
      PROVE  /\ inbox'[s] \in Seq(Message) /\ ServiceOK(s)'
  <2>1. cookie[l][s] \in Nat /\ inbox[s] \in Seq(Message) /\ ServiceOK(s)
    BY DEF AwakeInv, AwakeTypeOK
  <2>0. PICK rel : rel = [kind |-> "uninhibit", cookie |-> cookie[l][s], from |-> {l},
                          stale |-> OwnerGone(l, s)]
    OBVIOUS
  <2>2. cs \in Message /\ rel \in Message
    <3>1. OwnerGone(l, s) \in BOOLEAN
      BY DEF OwnerGone
    <3> QED
      BY <2>0, <2>1, <3>1 DEF Message
  <2>3. MessageOK(cs, s)'
    BY <1>3 DEF MessageOK
  <2>4. cookie[l][s] # 0 => MessageOK(rel, s)'
    <3> SUFFICES ASSUME cookie[l][s] # 0 PROVE MessageOK(rel, s)'
      OBVIOUS
    <3>1. Knows(l, s, cookie[l][s])
      BY DEF Knows
    <3>2. ~OwnerGone(l, s) => Owns(l, s, cookie[l][s])
      BY <2>1, <3>1, ToldGone DEF AwakeInv, LeaseOK
    <3>3. /\ rel.kind = "uninhibit" /\ rel.cookie = cookie[l][s] /\ rel.from = {l}
          /\ ~rel.stale => ~OwnerGone(l, s)
      BY <2>0
    <3> QED
      BY <1>3, <3>2, <3>3 DEF MessageOK, Owns
  <2> HIDE DEF cs
  <2>5. /\ Farewell(l, s) \in Seq(Message)
        /\ \A m \in Elems(Farewell(l, s)) : MessageOK(m, s)'
    <3>1. Farewell(l, s) = (IF cookie[l][s] # 0 THEN <<rel>> ELSE <<>>) \o <<cs>>
      BY <2>0 DEF Farewell, cs
    <3>2. <<cs>> \in Seq(Message) /\ Elems(<<cs>>) = {cs}
      BY <2>2 DEF Elems
    <3>3. <<rel>> \in Seq(Message) /\ Elems(<<rel>>) = {rel}
      BY <2>2 DEF Elems
    <3>4. <<>> \in Seq(Message) /\ Elems(<<>>) = {}
      BY EmptyMail
    <3>5. CASE cookie[l][s] # 0
      <4> DEFINE a == <<rel>>
                 b == <<cs>>
      <4>1. Farewell(l, s) = a \o b
        BY <3>1, <3>5
      <4>3. /\ a \in Seq(Message) /\ Elems(a) = {rel}
            /\ b \in Seq(Message) /\ Elems(b) = {cs}
        BY <3>2, <3>3
      <4> HIDE DEF a, b
      <4>2. Farewell(l, s) \in Seq(Message) /\ Elems(Farewell(l, s)) = {rel} \cup {cs}
        BY <4>1, <4>3, Concatenated
      <4> QED
        BY <4>2, <2>3, <2>4, <3>5
    <3>6. CASE cookie[l][s] = 0
      <4>1. Farewell(l, s) = <<>> \o <<cs>>
        BY <3>1, <3>6
      <4>2. Farewell(l, s) \in Seq(Message) /\ Elems(Farewell(l, s)) = {cs}
        BY <4>1, <3>2, <3>4, Concatenated
      <4> QED
        BY <4>2, <2>3
    <3> QED
      BY <3>5, <3>6, <2>1
  <2>6. CASE up[s]
    <3>1. inbox'[s] = inbox[s] \o Farewell(l, s)
      BY <1>2, <2>6
    <3>2. inbox'[s] \in Seq(Message) /\ Elems(inbox'[s]) = Elems(inbox[s]) \cup Elems(Farewell(l, s))
      BY <2>1, <2>5, <3>1, Concatenated
    <3>3. \A m \in Elems(inbox'[s]) : m \in Elems(inbox[s]) \/ MessageOK(m, s)'
      BY <3>2, <2>5
    <3> QED
      BY <3>2, <3>3, <2>1, <1>4, SameService
  <2>7. CASE ~up[s]
    <3>1. inbox'[s] = <<>> /\ Elems(<<>>) = {}
      BY <1>2, <2>7, EmptyMail
    <3> QED
      BY <3>1, <2>1, <1>4, SameService
  <2> QED
    BY <2>6, <2>7
<1>6. inbox' \in [Services -> Seq(Message)]
  BY <1>2, <1>5
<1>7. AwakeTypeOK'
  BY <1>1, <1>6 DEF AwakeInv, AwakeTypeOK
<1>8. \A k \in Leases \ {l} : LeaseOK(k)'
  BY <1>3, SameLease DEF AwakeInv
<1>9. LeaseOK(l)'
  <2>1. Elems(mail'[l]) = {} /\ OneCookie(mail'[l])
    BY <1>3, EmptyMail
  <2>2. Local(l)'
    BY <1>3, <2>1 DEF Local
  <2>3. \A s \in Services, k \in Nat : ~Knows(l, s, k)'
    BY <1>3, <2>1 DEF Knows
  <2> QED
    BY <2>2, <2>3 DEF LeaseOK
<1> QED
  BY <1>5, <1>7, <1>8, <1>9 DEF AwakeInv

LEMMA LeaveSafe ==
  ASSUME AwakeInv, NEW c \in Clients, Disable(c) \/ Leave(c)
  PROVE  AwakeInv'
<1>1. lease[c] \in Leases
  BY DEF AwakeInv, AwakeTypeOK, Disable, Leave
<1>2. /\ Destroy(lease[c]) /\ lease' = [lease EXCEPT ![c] = NoLease]
      /\ asking' \subseteq asking /\ UNCHANGED <<up, held, issued, crossed, restarts>>
  BY DEF Disable, Leave
<1>3. lease' \in [Clients -> Leases \cup {NoLease}] /\ asking' \subseteq Clients
  BY <1>2 DEF AwakeInv, AwakeTypeOK
<1> QED
  BY <1>1, <1>2, <1>3, DestroySafe

LEMMA DeleteSafe ==
  ASSUME AwakeInv, NEW l \in Leases, Delete(l)
  PROVE  AwakeInv'
<1>1. /\ Destroy(l) /\ UNCHANGED <<lease, asking>>
      /\ UNCHANGED <<up, held, issued, crossed, restarts>>
  BY DEF Delete
<1>2. lease' \in [Clients -> Leases \cup {NoLease}] /\ asking' \subseteq Clients
  BY <1>1 DEF AwakeInv, AwakeTypeOK
<1> QED
  BY <1>1, <1>2, DestroySafe

\* A lease that knows no more, and was told no less.
LEMMA SameKnowledge ==
  ASSUME NEW l \in Leases, LeaseOK(l), Local(l)', UNCHANGED <<held, issued, crossed>>,
         \A s \in Services, k \in Nat : Knows(l, s, k)' => Knows(l, s, k) \/ Told(l, s),
         \A s \in Services : Told(l, s) => Told(l, s)' \/ \A k \in Nat : ~Knows(l, s, k)'
  PROVE  LeaseOK(l)'
<1>1. ASSUME NEW s \in Services, NEW k \in Nat, ~Told(l, s)', Knows(l, s, k)'
      PROVE  Owns(l, s, k)'
  <2>1. ~Told(l, s)
    BY <1>1
  <2>2. Owns(l, s, k)
    BY <1>1, <2>1 DEF LeaseOK
  <2> QED
    BY <2>2 DEF Owns
<1> QED
  BY <1>1 DEF LeaseOK

\* Drop() does not reach a lease that is gone.
LEMMA DropTypes ==
  ASSUME AwakeInv, NEW l \in Leases, Drop(l), stage[l] # "gone"
  PROVE  /\ lease' \in [Clients -> Leases \cup {NoLease}] /\ asking' \subseteq Clients
         /\ stage' \in [Leases -> {"unused", "power", "screen", "enabled", "dropped", "gone"}]
         /\ stage'[l] = "dropped" /\ \A k \in Leases \ {l} : stage'[k] = stage[k]
         /\ \A k : stage[k] = "gone" => stage'[k] = "gone"
<1>1. /\ asking' = {c \in asking : lease[c] # l}
      /\ lease' = [c \in Clients |-> IF lease[c] = l THEN NoLease ELSE lease[c]]
      /\ stage' = [stage EXCEPT ![l] = "dropped"]
  BY DEF Drop
<1> QED
  BY <1>1 DEF AwakeInv, AwakeTypeOK

LEMMA OwnerChangedSafe ==
  ASSUME AwakeInv, NEW l \in Leases, OwnerChanged(l)
  PROVE  AwakeInv'
<1>1. /\ mail[l] # <<>> /\ cookie' = [cookie EXCEPT ![l] = [s \in Services |-> 0]]
      /\ Drop(l) /\ mail' = [mail EXCEPT ![l] = Tail(@)]
      /\ UNCHANGED <<waits, up, inbox, held, issued, crossed, restarts>>
  BY DEF OwnerChanged, serviceVars
<1>2. stage[l] # "gone" /\ mail[l] \in Seq(MailEvent)
  BY <1>1 DEF AwakeInv, AwakeTypeOK, LeaseOK, Local
<1>3. /\ lease' \in [Clients -> Leases \cup {NoLease}] /\ asking' \subseteq Clients
      /\ stage' \in [Leases -> {"unused", "power", "screen", "enabled", "dropped", "gone"}]
      /\ stage'[l] = "dropped" /\ \A k \in Leases \ {l} : stage'[k] = stage[k]
      /\ \A k : stage[k] = "gone" => stage'[k] = "gone"
  BY <1>1, <1>2, DropTypes
<1>4. Tail(mail[l]) \in Seq(MailEvent)
  BY <1>1, <1>2, HeadAndTail
<1>5. AwakeTypeOK'
  BY <1>1, <1>3, <1>4 DEF AwakeInv, AwakeTypeOK
<1>6. /\ cookie'[l] = [s \in Services |-> 0]
      /\ \A k \in Leases \ {l} : cookie'[k] = cookie[k] /\ mail'[k] = mail[k]
  BY <1>1 DEF AwakeInv, AwakeTypeOK
<1>7. \A k \in Leases \ {l} : LeaseOK(k)'
  BY <1>1, <1>3, <1>6, SameLease DEF AwakeInv
<1>8. LeaseOK(l)'
  BY <1>3, <1>6 DEF LeaseOK, Local, Knows
<1>9. \A s \in Services : ServiceOK(s)'
  BY <1>1, <1>3, SameService DEF AwakeInv
<1> QED
  BY <1>5, <1>7, <1>8, <1>9 DEF AwakeInv

LEMMA GotErrorSafe ==
  ASSUME AwakeInv, NEW l \in Leases, GotError(l)
  PROVE  AwakeInv'
<1>1. /\ mail[l] # <<>> /\ Head(mail[l]).kind = "error"
      /\ mail' = [mail EXCEPT ![l] = Tail(@)]
      /\ UNCHANGED <<cookie, waits, up, inbox, held, issued, crossed, restarts>>
  BY DEF GotError, serviceVars
<1>2. /\ stage[l] # "gone" /\ mail[l] \in Seq(MailEvent) /\ LeaseOK(l)
  BY <1>1 DEF AwakeInv, AwakeTypeOK, LeaseOK, Local
<1>3. /\ lease' \in [Clients -> Leases \cup {NoLease}] /\ asking' \subseteq Clients
      /\ stage' \in [Leases -> {"unused", "power", "screen", "enabled", "dropped", "gone"}]
      /\ stage'[l] = "dropped" /\ \A k \in Leases \ {l} : stage'[k] = stage[k]
      /\ \A k : stage[k] = "gone" => stage'[k] = "gone"
  <2>1. CASE stage[l] = "dropped"
    <3>1. UNCHANGED <<asking, lease, stage>>
      BY <2>1 DEF GotError
    <3> QED
      BY <2>1, <3>1 DEF AwakeInv, AwakeTypeOK
  <2>2. CASE stage[l] # "dropped"
    <3>1. Drop(l)
      BY <2>2 DEF GotError
    <3> QED
      BY <3>1, <1>2, DropTypes
  <2> QED
    BY <2>1, <2>2
<1>4. Tail(mail[l]) \in Seq(MailEvent) /\ Elems(mail[l]) = {Head(mail[l])} \cup Elems(Tail(mail[l]))
  BY <1>1, <1>2, HeadAndTail
<1>5. AwakeTypeOK'
  BY <1>1, <1>3, <1>4 DEF AwakeInv, AwakeTypeOK
<1>6. mail'[l] = Tail(mail[l]) /\ \A k \in Leases \ {l} : mail'[k] = mail[k]
  BY <1>1 DEF AwakeInv, AwakeTypeOK
<1>7. \A k \in Leases \ {l} : LeaseOK(k)'
  BY <1>1, <1>3, <1>6, SameLease DEF AwakeInv
<1>8. LeaseOK(l)'
  <2>1. Local(l)'
    BY <1>3 DEF Local
  <2>2. \A s \in Services, k \in Nat : Knows(l, s, k)' => Knows(l, s, k)
    BY <1>1, <1>3 DEF Knows
  <2>3. \A s \in Services : Told(l, s) => Told(l, s)'
    BY <1>1, <1>4, <1>6, Events DEF Told
  <2> QED
    BY <1>1, <1>2, <2>1, <2>2, <2>3, SameKnowledge
<1>9. \A s \in Services : ServiceOK(s)'
  BY <1>1, <1>3, SameService DEF AwakeInv
<1> QED
  BY <1>5, <1>7, <1>8, <1>9 DEF AwakeInv

LEMMA CallTimeoutSafe ==
  ASSUME AwakeInv, NEW l \in Leases, CallTimeout(l)
  PROVE  AwakeInv'
<1> DEFINE e == Event("error", waits[l], 0)
<1>1. /\ waits[l] # "none" /\ mail' = [mail EXCEPT ![l] = Append(@, e)]
      /\ waits' = [waits EXCEPT ![l] = "none"]
      /\ UNCHANGED <<lease, asking, stage, cookie, up, inbox, held, issued, crossed, restarts>>
  BY DEF CallTimeout, serviceVars
<1>2. mail[l] \in Seq(MailEvent) /\ LeaseOK(l) /\ waits[l] \in Services
  BY <1>1 DEF AwakeInv, AwakeTypeOK
<1>3. e \in MailEvent /\ e.kind = "error" /\ \A s, n : Event("cookie", s, n) # e
  BY <1>2, EventTypes, Events
<1> HIDE DEF e
<1>4. /\ Append(mail[l], e) \in Seq(MailEvent) /\ Elems(Append(mail[l], e)) = Elems(mail[l]) \cup {e}
      /\ OneCookie(mail[l]) => OneCookie(Append(mail[l], e))
  BY <1>2, <1>3, Appended
<1>5. AwakeTypeOK'
  BY <1>1, <1>4 DEF AwakeInv, AwakeTypeOK
<1>6. /\ mail'[l] = Append(mail[l], e) /\ waits'[l] = "none"
      /\ \A k \in Leases \ {l} : mail'[k] = mail[k] /\ waits'[k] = waits[k]
  BY <1>1 DEF AwakeInv, AwakeTypeOK
<1>7. \A k \in Leases \ {l} : LeaseOK(k)'
  BY <1>1, <1>6, SameLease DEF AwakeInv
<1>8. LeaseOK(l)'
  <2>1. Local(l)'
    BY <1>1, <1>2, <1>3, <1>4, <1>6 DEF LeaseOK, Local
  <2>2. \A s \in Services, k \in Nat : Knows(l, s, k)' => Knows(l, s, k)
    BY <1>1, <1>3, <1>4, <1>6 DEF Knows
  <2>3. \A s \in Services : Told(l, s) => Told(l, s)'
    BY <1>4, <1>6 DEF Told
  <2> QED
    BY <1>1, <1>2, <2>1, <2>2, <2>3, SameKnowledge
<1>9. \A s \in Services : ServiceOK(s)'
  BY <1>1, SameService DEF AwakeInv
<1> QED
  BY <1>5, <1>7, <1>8, <1>9 DEF AwakeInv

LEMMA GotCookieSafe ==
  ASSUME AwakeInv, NEW l \in Leases, GotCookie(l)
  PROVE  AwakeInv'
<1>1. /\ mail[l] # <<>> /\ Head(mail[l]).kind = "cookie"
      /\ UNCHANGED <<lease, up, held, issued, crossed, restarts>>
  BY DEF GotCookie
<1>2. mail[l] \in Seq(MailEvent) /\ LeaseOK(l) /\ Local(l)
  BY <1>1 DEF AwakeInv, AwakeTypeOK, LeaseOK
<1>3. PICK rest : rest = Tail(mail[l])
  OBVIOUS
<1>4. PICK e \in MailEvent : e = Head(mail[l])
  BY <1>1, <1>2, HeadAndTail
<1>5. /\ rest \in Seq(MailEvent) /\ Elems(mail[l]) = {e} \cup Elems(rest)
      /\ OneCookie(mail[l]) => NoCookie(rest) /\ OneCookie(rest)
  BY <1>1, <1>2, <1>3, <1>4, HeadAndTail
<1>6. /\ e = Event("cookie", e.of, e.cookie) /\ e.of \in Services /\ e.cookie \in Nat
      /\ e.kind = "cookie"
  BY <1>1, <1>4 DEF Event, MailEvent
<1>7. \A s : Event("owner", s, 0) # e
  BY <1>6, Events
<1>8. CASE stage[l] = "dropped"
  <2>1. mail' = [mail EXCEPT ![l] = rest] /\ UNCHANGED <<asking, stage, cookie, waits, inbox>>
    BY <1>3, <1>8 DEF GotCookie
  <2>2. AwakeTypeOK'
    BY <1>1, <1>5, <2>1 DEF AwakeInv, AwakeTypeOK
  <2>3. mail'[l] = rest /\ \A k \in Leases \ {l} : mail'[k] = mail[k]
    BY <2>1 DEF AwakeInv, AwakeTypeOK
  <2>4. \A k \in Leases \ {l} : LeaseOK(k)'
    BY <1>1, <2>1, <2>3, SameLease DEF AwakeInv
  <2>5. Local(l)'
    BY <1>8, <2>1 DEF Local
  <2>6. \A s \in Services, k \in Nat : Knows(l, s, k)' => Knows(l, s, k)
    BY <1>8, <2>1 DEF Knows
  <2>7. \A s \in Services : Told(l, s) => Told(l, s)'
    BY <1>5, <1>7, <2>3 DEF Told
  <2>8. LeaseOK(l)'
    BY <1>1, <1>2, <2>5, <2>6, <2>7, SameKnowledge
  <2>9. \A s \in Services : ServiceOK(s)'
    BY <1>1, <2>1, SameService DEF AwakeInv
  <2> QED
    BY <2>2, <2>4, <2>8, <2>9 DEF AwakeInv
<1>9. CASE stage[l] # "dropped"
  <2>1. /\ NoCookie(rest) /\ e.of = stage[l] /\ e.cookie # 0
        /\ stage[l] \notin {"unused", "gone"} /\ waits[l] = "none"
    <3>1. OneCookie(mail[l]) /\ e \in Elems(mail[l])
      BY <1>2, <1>5, <1>9 DEF Local
    <3>2. ~NoCookie(mail[l])
      BY <1>6, <3>1 DEF NoCookie, Elems
    <3> QED
      BY <1>1, <1>2, <1>5, <1>6, <1>9, <3>1, <3>2 DEF Local
  <2>2. cookie' = [cookie EXCEPT ![l][e.of] = e.cookie]
    BY <1>4, <1>9 DEF GotCookie
  <2>3. /\ cookie' \in [Leases -> [Services -> Nat]]
        /\ \A k \in Leases \ {l} : cookie'[k] = cookie[k]
        /\ cookie'[l][e.of] = e.cookie
        /\ \A s \in Services \ {e.of} : cookie'[l][s] = cookie[l][s]
    BY <1>6, <2>2 DEF AwakeInv, AwakeTypeOK
  <2>4. /\ waits' \in [Leases -> Services \cup {"none"}]
        /\ mail' \in [Leases -> Seq(MailEvent)] /\ inbox' \in [Services -> Seq(Message)]
        /\ \A k \in Leases \ {l} : waits'[k] = waits[k] /\ mail'[k] = mail[k]
        /\ NoCookie(mail'[l])
        /\ \A t : Event("owner", t, 0) \in Elems(rest) => Event("owner", t, 0) \in Elems(mail'[l])
        /\ \A t \in Services : ServiceOK(t)'
        /\ \A k \in Leases \ {l} : stage'[k] = stage[k]
        /\ asking' \subseteq asking
        /\ \/ e.of = "power" /\ stage'[l] = "screen" /\ waits'[l] \in {"none", "screen"}
           \/ e.of = "screen" /\ stage'[l] = "enabled" /\ waits'[l] = "none"
        /\ stage' \in [Leases -> {"unused", "power", "screen", "enabled", "dropped", "gone"}]
    <3>1. CASE e.of = "power"
      <4>1. /\ Inhibit(l, "screen", rest) /\ stage' = [stage EXCEPT ![l] = "screen"]
            /\ UNCHANGED asking
        BY <1>3, <1>4, <1>9, <3>1 DEF GotCookie
      <4>2. \A k : stage[k] = "gone" => stage'[k] = "gone"
        BY <4>1, <2>1 DEF AwakeInv, AwakeTypeOK
      <4>3. "screen" \in Services
        BY DEF Services
      <4>4. /\ waits' \in [Leases -> Services \cup {"none"}]
            /\ mail' \in [Leases -> Seq(MailEvent)] /\ inbox' \in [Services -> Seq(Message)]
            /\ \A k \in Leases \ {l} : waits'[k] = waits[k] /\ mail'[k] = mail[k]
            /\ waits'[l] \in {waits[l], "screen"} /\ NoCookie(mail'[l])
            /\ \A t : Event("owner", t, 0) \in Elems(rest) => Event("owner", t, 0) \in Elems(mail'[l])
            /\ \A t \in Services : ServiceOK(t)'
        BY <1>1, <1>5, <2>1, <4>1, <4>2, <4>3, InhibitOK
      <4>5. /\ stage' \in [Leases -> {"unused", "power", "screen", "enabled", "dropped", "gone"}]
            /\ stage'[l] = "screen" /\ \A k \in Leases \ {l} : stage'[k] = stage[k]
        BY <4>1 DEF AwakeInv, AwakeTypeOK
      <4> QED
        BY <2>1, <3>1, <4>1, <4>4, <4>5
    <3>2. CASE e.of = "screen"
      <4>1. /\ stage' = [stage EXCEPT ![l] = "enabled"] /\ mail' = [mail EXCEPT ![l] = rest]
            /\ asking' \subseteq asking /\ UNCHANGED <<waits, inbox>>
        BY <1>3, <1>4, <1>9, <3>2 DEF GotCookie
      <4>2. \A k : stage[k] = "gone" => stage'[k] = "gone"
        BY <4>1, <2>1 DEF AwakeInv, AwakeTypeOK
      <4>3. \A t \in Services : ServiceOK(t)'
        BY <1>1, <4>1, <4>2, SameService DEF AwakeInv
      <4>4. /\ stage' \in [Leases -> {"unused", "power", "screen", "enabled", "dropped", "gone"}]
            /\ stage'[l] = "enabled" /\ \A k \in Leases \ {l} : stage'[k] = stage[k]
            /\ mail' \in [Leases -> Seq(MailEvent)] /\ mail'[l] = rest
            /\ \A k \in Leases \ {l} : mail'[k] = mail[k]
            /\ waits' \in [Leases -> Services \cup {"none"}] /\ inbox' \in [Services -> Seq(Message)]
        BY <4>1, <1>5 DEF AwakeInv, AwakeTypeOK
      <4> QED
        BY <2>1, <3>2, <4>1, <4>3, <4>4
    <3> QED
      BY <3>1, <3>2, <1>6 DEF Services
  <2>5. AwakeTypeOK'
    BY <1>1, <2>3, <2>4 DEF AwakeInv, AwakeTypeOK
  <2>6. \A k \in Leases \ {l} : LeaseOK(k)'
    BY <1>1, <2>3, <2>4, SameLease DEF AwakeInv
  <2>7. \A x \in Elems(mail'[l]) : x.kind # "cookie"
    BY <2>4 DEF NoCookie, Elems
  <2>8. Local(l)'
    <3>1. OneCookie(mail'[l])
      BY <2>4 DEF NoCookie, OneCookie
    <3>2. stage'[l] = "enabled" => \A s \in Services : cookie'[l][s] # 0
      <4> SUFFICES ASSUME stage'[l] = "enabled" PROVE \A s \in Services : cookie'[l][s] # 0
        OBVIOUS
      <4>1. e.of = "screen"
        BY <2>4
      <4>2. cookie[l]["power"] # 0
        BY <1>2, <2>1, <4>1 DEF Local
      <4>3. "power" \in Services \ {e.of} /\ \A s \in Services : s = "power" \/ s = e.of
        BY <4>1 DEF Services
      <4> QED
        BY <2>1, <2>3, <4>2, <4>3
    <3>3. stage'[l] = "screen" => cookie'[l]["power"] # 0
      BY <2>1, <2>3, <2>4
    <3> QED
      BY <2>4, <2>7, <3>1, <3>2, <3>3 DEF Local
  <2>9. \A s \in Services, k \in Nat : Knows(l, s, k)' => Knows(l, s, k)
    <3> SUFFICES ASSUME NEW s \in Services, NEW k \in Nat, Knows(l, s, k)' PROVE Knows(l, s, k)
      OBVIOUS
    <3>1. k # 0 /\ cookie'[l][s] = k
      BY <2>7, Events DEF Knows
    <3>2. CASE s = e.of
      BY <1>5, <1>6, <1>9, <2>3, <3>1, <3>2 DEF Knows
    <3>3. CASE s # e.of
      BY <2>3, <3>1, <3>3 DEF Knows
    <3> QED
      BY <3>2, <3>3
  <2>10. \A s \in Services : Told(l, s) => Told(l, s)'
    BY <1>5, <1>7, <2>4 DEF Told
  <2>11. LeaseOK(l)'
    BY <1>1, <1>2, <2>8, <2>9, <2>10, SameKnowledge
  <2> QED
    BY <2>4, <2>5, <2>6, <2>11 DEF AwakeInv
<1> QED
  BY <1>8, <1>9

LEMMA AwakeCrashSafe ==
  ASSUME AwakeInv, AwakeCrash
  PROVE  AwakeInv'
<1>1. PICK C : C = {l \in Leases : Connected(l)}
  OBVIOUS
<1> DEFINE m == [kind |-> "vanish", cookie |-> 0, from |-> C, stale |-> FALSE]
           zero == [s \in Services |-> 0]
<1>2. /\ lease' = [c \in Clients |-> NoLease] /\ asking' = {}
      /\ stage' = [l \in Leases |-> IF l \in C THEN "gone" ELSE stage[l]]
      /\ cookie' = [l \in Leases |-> zero]
      /\ waits' = [l \in Leases |-> "none"] /\ mail' = [l \in Leases |-> <<>>]
      /\ inbox' = [s \in Services |-> IF up[s] THEN Append(inbox[s], m) ELSE <<>>]
      /\ UNCHANGED <<up, held, issued, crossed, restarts>>
  BY <1>1 DEF AwakeCrash
<1>3. m \in Message
  BY <1>1 DEF Message
<1>4. \A s : MessageOK(m, s)'
  BY <1>1, <1>2 DEF MessageOK
<1> HIDE DEF m
<1>5. \A l \in Leases : stage[l] = "gone" => stage'[l] = "gone"
  BY <1>2
<1>6. ASSUME NEW s \in Services PROVE inbox'[s] \in Seq(Message) /\ ServiceOK(s)'
  <2>1. inbox[s] \in Seq(Message) /\ ServiceOK(s)
    BY DEF AwakeInv, AwakeTypeOK
  <2>2. /\ Append(inbox[s], m) \in Seq(Message)
        /\ Elems(Append(inbox[s], m)) = Elems(inbox[s]) \cup {m}
    BY <2>1, <1>3, Appended
  <2>3. inbox'[s] \in Seq(Message) /\ Elems(inbox'[s]) \subseteq Elems(inbox[s]) \cup {m}
    BY <1>2, <2>2, EmptyMail
  <2>4. ASSUME NEW x \in Elems(inbox[s]) PROVE MessageOK(x, s)'
    <3>1. MessageOK(x, s) /\ x \in Message
      BY <2>1 DEF ServiceOK, Elems
    <3>2. x.from \subseteq Leases
      BY <3>1 DEF Message
    <3> QED
      BY <3>1, <3>2, <1>2, <1>5 DEF MessageOK
  <2>5. \A x \in Elems(inbox'[s]) : MessageOK(x, s)'
    BY <2>3, <2>4, <1>4
  <2> QED
    BY <2>1, <2>3, <2>5, <1>2 DEF ServiceOK
<1>7. AwakeTypeOK'
  <2>1. inbox' \in [Services -> Seq(Message)]
    BY <1>2, <1>6
  <2> QED
    BY <1>2, <2>1 DEF AwakeInv, AwakeTypeOK
<1>8. ASSUME NEW l \in Leases PROVE LeaseOK(l)'
  <2>1. cookie'[l] = zero /\ mail'[l] = <<>> /\ waits'[l] = "none"
        /\ stage'[l] \in {"unused", "gone"}
    BY <1>1, <1>2 DEF Connected
  <2>2. Elems(mail'[l]) = {} /\ OneCookie(mail'[l])
    BY <2>1, EmptyMail
  <2>3. Local(l)'
    BY <2>1, <2>2 DEF Local
  <2>4. \A s \in Services, k \in Nat : ~Knows(l, s, k)'
    BY <2>1, <2>2 DEF Knows
  <2> QED
    BY <2>3, <2>4 DEF LeaseOK
<1> QED
  BY <1>6, <1>7, <1>8 DEF AwakeInv

-----------------------------------------------------------------------------
(* Steps of the services.                                                  *)

LEMMA OwnsKept ==
  ASSUME NEW l \in Leases, NEW s \in Services, NEW k \in Nat, Owns(l, s, k),
         issued[s] \in Nat, issued'[s] \in Nat, issued[s] <= issued'[s],
         crossed \subseteq crossed',
         \A h \in held'[s] : h \in held[s] \/ h.cookie = issued[s] + 1,
         [cookie |-> k, lease |-> l] \in held[s] =>
           [cookie |-> k, lease |-> l] \in held'[s] \/ l \in crossed'
  PROVE  Owns(l, s, k)'
<1>1. k <= issued'[s] /\ k # issued[s] + 1
  BY DEF Owns
<1> QED
  BY <1>1 DEF Owns

\* Answer() of an event that is no cookie, or to a lease that does not wait.
LEMMA AnswerTypes ==
  ASSUME AwakeInv, NEW l \in Leases, NEW s \in Services, NEW e \in MailEvent, Answer(l, s, e)
  PROVE  /\ waits' \in [Leases -> Services \cup {"none"}]
         /\ mail' \in [Leases -> Seq(MailEvent)]
         /\ \A k \in Leases \ {l} : waits'[k] = waits[k] /\ mail'[k] = mail[k]
         /\ waits[l] = s => /\ waits'[l] = "none" /\ mail'[l] = Append(mail[l], e)
                            /\ Elems(mail'[l]) = Elems(mail[l]) \cup {e}
         /\ waits[l] # s => waits'[l] = waits[l] /\ mail'[l] = mail[l]
<1>1. mail[l] \in Seq(MailEvent)
  BY DEF AwakeInv, AwakeTypeOK
<1>2. Append(mail[l], e) \in Seq(MailEvent) /\ Elems(Append(mail[l], e)) = Elems(mail[l]) \cup {e}
  BY <1>1, Appended
<1>3. \/ /\ waits[l] = s /\ mail' = [mail EXCEPT ![l] = Append(mail[l], e)]
         /\ waits' = [waits EXCEPT ![l] = "none"]
      \/ waits[l] # s /\ UNCHANGED <<mail, waits>>
  BY DEF Answer, AwakeInv, AwakeTypeOK
<1> QED
  BY <1>2, <1>3 DEF AwakeInv, AwakeTypeOK

LEMMA InboxTail ==
  ASSUME AwakeInv, NEW s \in Services, inbox[s] # <<>>, inbox' = [inbox EXCEPT ![s] = Tail(@)]
  PROVE  /\ inbox' \in [Services -> Seq(Message)]
         /\ Head(inbox[s]) \in Message /\ Head(inbox[s]) \in Elems(inbox[s])
         /\ \A t \in Services : Elems(inbox'[t]) \subseteq Elems(inbox[t])
<1>1. inbox[s] \in Seq(Message)
  BY DEF AwakeInv, AwakeTypeOK
<1>2. /\ Tail(inbox[s]) \in Seq(Message) /\ Elems(inbox[s]) = {Head(inbox[s])} \cup Elems(Tail(inbox[s]))
      /\ Head(inbox[s]) \in Message
  BY <1>1, HeadAndTail
<1>3. inbox'[s] = Tail(inbox[s]) /\ \A t \in Services \ {s} : inbox'[t] = inbox[t]
  BY DEF AwakeInv, AwakeTypeOK
<1> QED
  BY <1>2, <1>3 DEF AwakeInv, AwakeTypeOK

LEMMA RefuseSafe ==
  ASSUME AwakeInv, NEW s \in Services, Refuse(s)
  PROVE  AwakeInv'
<1>1. /\ inbox[s] # <<>> /\ inbox' = [inbox EXCEPT ![s] = Tail(@)]
      /\ UNCHANGED <<lease, asking, stage, cookie, up, held, issued, crossed, restarts>>
  BY DEF Refuse
<1>2. /\ inbox' \in [Services -> Seq(Message)] /\ Head(inbox[s]) \in Message
      /\ \A t \in Services : Elems(inbox'[t]) \subseteq Elems(inbox[t])
  BY <1>1, InboxTail
<1>3. PICK l \in Head(inbox[s]).from : Answer(l, s, Event("error", s, 0))
  BY DEF Refuse
<1>4. l \in Leases
  BY <1>2 DEF Message
<1> DEFINE e == Event("error", s, 0)
<1>5. e \in MailEvent /\ e.kind = "error" /\ \A t, n : Event("cookie", t, n) # e
  BY EventTypes, Events
<1>6. Answer(l, s, e)
  BY <1>3
<1> HIDE DEF e
<1>7. /\ waits' \in [Leases -> Services \cup {"none"}]
      /\ mail' \in [Leases -> Seq(MailEvent)]
      /\ \A k \in Leases \ {l} : waits'[k] = waits[k] /\ mail'[k] = mail[k]
      /\ waits[l] = s => /\ waits'[l] = "none" /\ mail'[l] = Append(mail[l], e)
                         /\ Elems(mail'[l]) = Elems(mail[l]) \cup {e}
      /\ waits[l] # s => waits'[l] = waits[l] /\ mail'[l] = mail[l]
  BY <1>4, <1>5, <1>6, AnswerTypes
<1>8. AwakeTypeOK'
  BY <1>1, <1>2, <1>7 DEF AwakeInv, AwakeTypeOK
<1>9. \A k \in Leases \ {l} : LeaseOK(k)'
  BY <1>1, <1>7, SameLease DEF AwakeInv
<1>10. LeaseOK(l)'
  <2>1. LeaseOK(l) /\ mail[l] \in Seq(MailEvent)
    BY <1>4 DEF AwakeInv, AwakeTypeOK
  <2>2. CASE waits[l] # s
    BY <1>1, <1>4, <1>7, <2>1, <2>2, SameLease
  <2>3. CASE waits[l] = s
    <3>1. OneCookie(mail[l]) => OneCookie(mail'[l])
      <4>1. e.kind # "cookie" /\ mail'[l] = Append(mail[l], e)
        BY <1>5, <1>7, <2>3
      <4>2. OneCookie(mail[l]) => OneCookie(Append(mail[l], e))
        BY <1>5, <2>1, <4>1, Appended
      <4> QED
        BY <4>1, <4>2
    <3>2. Local(l)'
      <4>1. waits[l] # "none" /\ stage'[l] = stage[l] /\ cookie'[l] = cookie[l]
        <5>1. s # "none"
          BY DEF Services
        <5> QED
          BY <1>1, <2>3, <5>1
      <4>2. stage[l] \notin {"unused", "gone"} /\ waits'[l] = "none"
        BY <1>7, <2>1, <2>3, <4>1 DEF LeaseOK, Local
      <4>3. stage[l] # "dropped" =>
              \A x \in Elems(mail'[l]) : x.kind = "cookie" => x.of = stage[l] /\ x.cookie # 0
        BY <1>5, <1>7, <2>1, <2>3 DEF LeaseOK, Local
      <4> QED
        BY <2>1, <3>1, <4>1, <4>2, <4>3 DEF LeaseOK, Local
    <3>3. \A t \in Services, k \in Nat : Knows(l, t, k)' => Knows(l, t, k)
      BY <1>1, <1>5, <1>7, <2>3 DEF Knows
    <3>4. \A t \in Services : Told(l, t) => Told(l, t)'
      BY <1>7, <2>3 DEF Told
    <3> QED
      BY <1>1, <1>4, <2>1, <3>2, <3>3, <3>4, SameKnowledge
  <2> QED
    BY <2>2, <2>3
<1>11. \A t \in Services : ServiceOK(t)'
  BY <1>1, <1>2, SameService DEF AwakeInv
<1> QED
  BY <1>8, <1>9, <1>10, <1>11 DEF AwakeInv

\* A lease that was told no less, and owns what it learns.
LEMMA OwnKnowledge ==
  ASSUME NEW l \in Leases, LeaseOK(l), Local(l)',
         \A s \in Services, k \in Nat : Knows(l, s, k)' => Knows(l, s, k) \/ Owns(l, s, k)',
         \A s \in Services : Told(l, s) => Told(l, s)',
         \A s \in Services, k \in Nat : Owns(l, s, k) => Owns(l, s, k)'
  PROVE  LeaseOK(l)'
<1>1. ASSUME NEW s \in Services, NEW k \in Nat, ~Told(l, s)', Knows(l, s, k)'
      PROVE  Owns(l, s, k)'
  <2>1. ~Told(l, s)
    BY <1>1
  <2>2. Knows(l, s, k) => Owns(l, s, k)
    BY <2>1 DEF LeaseOK
  <2> QED
    BY <1>1, <2>2
<1> QED
  BY <1>1 DEF LeaseOK

LEMMA GrantSafe ==
  ASSUME AwakeInv, NEW s \in Services, Grant(s)
  PROVE  AwakeInv'
<1>1. /\ inbox[s] # <<>> /\ inbox' = [inbox EXCEPT ![s] = Tail(@)]
      /\ UNCHANGED <<lease, asking, stage, cookie, up, crossed, restarts>>
  BY DEF Grant
<1>2. /\ inbox' \in [Services -> Seq(Message)] /\ Head(inbox[s]) \in Message
      /\ \A t \in Services : Elems(inbox'[t]) \subseteq Elems(inbox[t])
  BY <1>1, InboxTail
<1>3. PICK new : new = issued[s] + 1
  OBVIOUS
<1>4. PICK l \in Head(inbox[s]).from :
        /\ issued' = [issued EXCEPT ![s] = @ + 1]
        /\ held' = [held EXCEPT ![s] = @ \cup {[cookie |-> new, lease |-> l]}]
        /\ Answer(l, s, Event("cookie", s, new))
  BY <1>3 DEF Grant
<1>5. l \in Leases
  BY <1>2 DEF Message
<1>6. /\ issued[s] \in Nat /\ new \in Nat /\ new # 0
      /\ issued' \in [Services -> Nat] /\ issued'[s] = new
      /\ \A t \in Services \ {s} : issued'[t] = issued[t]
  BY <1>3, <1>4 DEF AwakeInv, AwakeTypeOK
<1>7. /\ held' \in [Services -> SUBSET [cookie : Nat, lease : Leases]]
      /\ held'[s] = held[s] \cup {[cookie |-> new, lease |-> l]}
      /\ \A t \in Services \ {s} : held'[t] = held[t]
  BY <1>4, <1>5, <1>6 DEF AwakeInv, AwakeTypeOK
<1>8. \A h \in held[s] : h.cookie \in Nat /\ h.cookie <= issued[s]
  BY DEF AwakeInv, AwakeTypeOK, ServiceOK
<1> DEFINE e == Event("cookie", s, new)
<1>9. e \in MailEvent /\ e.kind = "cookie" /\ e.of = s /\ e.cookie = new
  BY <1>6, EventTypes, Events
<1>10. \A t, k : Event("cookie", t, k) = e => t = s /\ k = new
  BY Events
<1>11. Answer(l, s, e)
  BY <1>4
<1> HIDE DEF e
<1>12. /\ waits' \in [Leases -> Services \cup {"none"}]
       /\ mail' \in [Leases -> Seq(MailEvent)]
       /\ \A k \in Leases \ {l} : waits'[k] = waits[k] /\ mail'[k] = mail[k]
       /\ waits[l] = s => /\ waits'[l] = "none" /\ mail'[l] = Append(mail[l], e)
                          /\ Elems(mail'[l]) = Elems(mail[l]) \cup {e}
       /\ waits[l] # s => waits'[l] = waits[l] /\ mail'[l] = mail[l]
  BY <1>5, <1>9, <1>11, AnswerTypes
<1>13. AwakeTypeOK'
  BY <1>1, <1>2, <1>6, <1>7, <1>12 DEF AwakeInv, AwakeTypeOK
<1>14. ASSUME NEW k \in Leases, NEW t \in Services, NEW n \in Nat, Owns(k, t, n)
       PROVE  Owns(k, t, n)'
  <2>1. CASE t = s
    <3>1. n <= issued[s] /\ n # new
      BY <1>3, <1>6, <1>14, <2>1 DEF Owns
    <3>2. n <= issued'[s]
      BY <1>3, <1>6, <3>1
    <3>3. \A h \in held'[s] : h.cookie = n => h.lease = k
      BY <1>7, <1>14, <2>1, <3>1 DEF Owns
    <3>4. k \in crossed' \/ [cookie |-> n, lease |-> k] \in held'[s]
      BY <1>1, <1>7, <1>14, <2>1 DEF Owns
    <3> QED
      BY <2>1, <3>2, <3>3, <3>4 DEF Owns
  <2>2. CASE t # s
    BY <1>1, <1>6, <1>7, <1>14, <2>2 DEF Owns
  <2> QED
    BY <2>1, <2>2
<1>15. Owns(l, s, new)'
  <2>1. \A h \in held'[s] : h.cookie = new => h.lease = l
    BY <1>3, <1>6, <1>7, <1>8
  <2>2. new <= issued'[s] /\ [cookie |-> new, lease |-> l] \in held'[s]
    BY <1>6, <1>7
  <2> QED
    BY <2>1, <2>2 DEF Owns
<1>16. ASSUME NEW k \in Leases, k # l \/ waits[l] # s
       PROVE  LeaseOK(k)'
  <2>1. /\ LeaseOK(k) /\ stage'[k] = stage[k] /\ cookie'[k] = cookie[k]
        /\ mail'[k] = mail[k] /\ waits'[k] = waits[k]
    BY <1>1, <1>12, <1>16 DEF AwakeInv
  <2>2. Local(k)'
    BY <2>1 DEF LeaseOK, Local
  <2>3. \A t \in Services, n \in Nat : Knows(k, t, n)' => Knows(k, t, n)
    BY <2>1 DEF Knows
  <2>4. \A t \in Services : Told(k, t) => Told(k, t)'
    BY <2>1 DEF Told
  <2> QED
    BY <1>14, <2>1, <2>2, <2>3, <2>4, OwnKnowledge
<1>17. ASSUME waits[l] = s
       PROVE  LeaseOK(l)'
  <2>1. /\ LeaseOK(l) /\ mail[l] \in Seq(MailEvent) /\ stage'[l] = stage[l]
        /\ cookie'[l] = cookie[l] /\ waits'[l] = "none"
        /\ mail'[l] = Append(mail[l], e) /\ Elems(mail'[l]) = Elems(mail[l]) \cup {e}
    BY <1>1, <1>5, <1>12, <1>17 DEF AwakeInv, AwakeTypeOK
  <2>2. waits[l] # "none"
    BY <1>17 DEF Services
  <2>3. /\ stage[l] \notin {"unused", "gone"}
        /\ stage[l] # "dropped" => NoCookie(mail[l]) /\ stage[l] = s
    BY <1>17, <2>1, <2>2 DEF LeaseOK, Local
  <2>4. Local(l)'
    <3>1. NoCookie(mail[l]) => OneCookie(Append(mail[l], e))
      BY <1>9, <2>1, Appended
    <3>2. stage[l] # "dropped" =>
            \A x \in Elems(mail'[l]) : x.kind = "cookie" => x.of = stage[l] /\ x.cookie # 0
      BY <1>6, <1>9, <2>1, <2>3 DEF LeaseOK, Local
    <3> QED
      BY <2>1, <2>3, <3>1, <3>2 DEF LeaseOK, Local
  <2>5. \A t \in Services, n \in Nat : Knows(l, t, n)' => Knows(l, t, n) \/ Owns(l, t, n)'
    <3> SUFFICES ASSUME NEW t \in Services, NEW n \in Nat, Knows(l, t, n)', ~Knows(l, t, n)
                 PROVE  Owns(l, t, n)'
      OBVIOUS
    <3>1. Event("cookie", t, n) = e
      BY <2>1 DEF Knows
    <3>2. t = s /\ n = new
      BY <1>10, <3>1
    <3> QED
      BY <1>15, <3>2
  <2>6. \A t \in Services : Told(l, t) => Told(l, t)'
    BY <2>1 DEF Told
  <2> QED
    BY <1>5, <1>14, <2>1, <2>4, <2>5, <2>6, OwnKnowledge
<1>18. ASSUME NEW t \in Services
       PROVE  ServiceOK(t)'
  <2>1. CASE t = s
    <3>1. \A h \in held'[s] : h.cookie <= issued'[s]
      BY <1>3, <1>6, <1>7, <1>8
    <3>2. ASSUME NEW m \in Elems(inbox[s])
          PROVE  MessageOK(m, s)'
      <4>1. MessageOK(m, s) /\ m.cookie \in Nat
        <5>1. m \in Message
          BY DEF AwakeInv, AwakeTypeOK, Elems
        <5> QED
          BY <5>1 DEF AwakeInv, ServiceOK, Message
      <4> QED
        BY <1>1, <1>3, <1>6, <1>7, <4>1 DEF MessageOK
    <3> QED
      BY <1>2, <2>1, <3>1, <3>2 DEF ServiceOK
  <2>2. CASE t # s
    <3>1. ServiceOK(t) /\ held'[t] = held[t] /\ issued'[t] = issued[t] /\ stage' = stage
      BY <1>1, <1>6, <1>7, <2>2 DEF AwakeInv
    <3>2. \A m \in Elems(inbox'[t]) : MessageOK(m, t)'
      BY <1>2, <3>1 DEF ServiceOK, MessageOK
    <3> QED
      BY <3>1, <3>2 DEF ServiceOK
  <2> QED
    BY <2>1, <2>2
<1> QED
  BY <1>13, <1>16, <1>17, <1>18 DEF AwakeInv

LEMMA ReleaseSafe ==
  ASSUME AwakeInv, NEW s \in Services, Release(s)
  PROVE  AwakeInv'
<1>1. /\ inbox[s] # <<>> /\ inbox' = [inbox EXCEPT ![s] = Tail(@)]
      /\ Head(inbox[s]).kind # "inhibit"
      /\ UNCHANGED <<lease, asking, stage, cookie, waits, mail, up, issued, restarts>>
  BY DEF Release, leaseVars
<1>2. PICK m : m = Head(inbox[s])
  OBVIOUS
<1>3. PICK ends : ends = {h \in held[s] : IF m.kind = "vanish" THEN h.lease \in m.from
                                          ELSE h.cookie = m.cookie}
  OBVIOUS
<1>4. /\ held' = [held EXCEPT ![s] = @ \ ends]
      /\ crossed' = IF m.stale
           THEN crossed \cup {h.lease : h \in {g \in ends : g.lease \notin m.from}}
           ELSE crossed
  BY <1>2, <1>3 DEF Release
<1>5. /\ inbox' \in [Services -> Seq(Message)] /\ m \in Message /\ m \in Elems(inbox[s])
      /\ \A t \in Services : Elems(inbox'[t]) \subseteq Elems(inbox[t])
  BY <1>1, <1>2, InboxTail
<1>6. MessageOK(m, s) /\ m.kind \in {"uninhibit", "vanish"}
  BY <1>1, <1>2, <1>5 DEF AwakeInv, ServiceOK, Message
<1>7. /\ held' \in [Services -> SUBSET [cookie : Nat, lease : Leases]]
      /\ held'[s] = held[s] \ ends /\ \A t \in Services \ {s} : held'[t] = held[t]
  BY <1>4 DEF AwakeInv, AwakeTypeOK
<1>8. crossed \subseteq crossed' /\ crossed' \subseteq Leases
  BY <1>3, <1>4 DEF AwakeInv, AwakeTypeOK
<1>9. AwakeTypeOK'
  BY <1>1, <1>5, <1>7, <1>8 DEF AwakeInv, AwakeTypeOK
<1>10. \A h \in ends : stage[h.lease] = "gone" \/ h.lease \in crossed'
  BY <1>3, <1>4, <1>6 DEF MessageOK
<1>11. ASSUME NEW k \in Leases, NEW t \in Services, NEW n \in Nat,
              stage[k] # "gone", Owns(k, t, n)
       PROVE  Owns(k, t, n)'
  <2>1. \A h : h \in held'[t] => h \in held[t]
    BY <1>7
  <2>2. k \in crossed' \/ [cookie |-> n, lease |-> k] \in held'[t]
    <3>1. k \in crossed \/ [cookie |-> n, lease |-> k] \in held[t]
      BY <1>11 DEF Owns
    <3>2. [cookie |-> n, lease |-> k] \in ends => k \in crossed'
      BY <1>10, <1>11
    <3> QED
      BY <1>7, <1>8, <3>1, <3>2
  <2> QED
    BY <1>1, <1>11, <2>1, <2>2 DEF Owns
<1>12. ASSUME NEW k \in Leases
       PROVE  LeaseOK(k)'
  <2>1. LeaseOK(k) /\ Local(k)'
    BY <1>1 DEF AwakeInv, LeaseOK, Local
  <2>2. CASE stage[k] = "gone"
    <3>1. cookie[k] = [t \in Services |-> 0] /\ Elems(mail[k]) = {}
      BY <2>1, <2>2, EmptyMail DEF LeaseOK, Local
    <3>2. \A t \in Services, n \in Nat : ~Knows(k, t, n)'
      BY <1>1, <3>1 DEF Knows
    <3> QED
      BY <2>1, <3>2 DEF LeaseOK
  <2>3. CASE stage[k] # "gone"
    <3>1. \A t \in Services, n \in Nat : Knows(k, t, n)' => Knows(k, t, n)
      BY <1>1 DEF Knows
    <3>2. \A t \in Services : Told(k, t) => Told(k, t)'
      BY <1>1 DEF Told
    <3> QED
      BY <1>11, <2>1, <2>3, <3>1, <3>2, OwnKnowledge
  <2> QED
    BY <2>2, <2>3
<1>13. ASSUME NEW t \in Services
       PROVE  ServiceOK(t)'
  <2>1. ServiceOK(t) /\ held'[t] \subseteq held[t]
    BY <1>7 DEF AwakeInv
  <2> QED
    BY <1>1, <1>5, <2>1 DEF ServiceOK, MessageOK
<1> QED
  BY <1>9, <1>12, <1>13 DEF AwakeInv

\* The mail of a lease when s ends.
LEMMA LastNews ==
  ASSUME NEW q \in Seq(MailEvent), NEW s \in Services, NEW waited \in BOOLEAN,
         NEW r, r = Append(q, Event("owner", s, 0))
                    \o (IF waited THEN <<Event("error", s, 0)>> ELSE <<>>)
  PROVE  /\ r \in Seq(MailEvent) /\ Elems(q) \subseteq Elems(r)
         /\ Event("owner", s, 0) \in Elems(r)
         /\ \A e \in Elems(r) : e.kind = "cookie" => e \in Elems(q)
         /\ OneCookie(q) => OneCookie(r)
         /\ NoCookie(q) => NoCookie(r)
<1> DEFINE a == Event("owner", s, 0)
           b == Event("error", s, 0)
           p == Append(q, a)
<1>1. a \in MailEvent /\ a.kind # "cookie" /\ b \in MailEvent /\ b.kind # "cookie"
  BY EventTypes, Events
<1>2. r = p \o (IF waited THEN <<b>> ELSE <<>>)
  OBVIOUS
<1> HIDE DEF a, b
<1>3. /\ p \in Seq(MailEvent) /\ Elems(p) = Elems(q) \cup {a}
      /\ OneCookie(q) => OneCookie(p)
      /\ NoCookie(q) => NoCookie(p)
  BY <1>1, Appended
<1> HIDE DEF p
<1>4. CASE waited
  <2>1. r = Append(p, b)
    BY <1>1, <1>2, <1>3, <1>4, AppendIsConcat
  <2>2. /\ Append(p, b) \in Seq(MailEvent) /\ Elems(Append(p, b)) = Elems(p) \cup {b}
        /\ OneCookie(p) => OneCookie(Append(p, b))
        /\ NoCookie(p) => NoCookie(Append(p, b))
    BY <1>1, <1>3, Appended
  <2> QED
    BY <1>1, <1>3, <2>1, <2>2 DEF a
<1>5. CASE ~waited
  <2>1. r = p
    BY <1>2, <1>3, <1>5, ConcatEmptySeq
  <2> QED
    BY <1>1, <1>3, <2>1 DEF a
<1> QED
  BY <1>4, <1>5

LEMMA ServiceEndsSafe ==
  ASSUME AwakeAssumption, AwakeInv, NEW s \in Services, ServiceEnds(s)
  PROVE  AwakeInv'
<1>1. /\ restarts < MaxRestarts /\ restarts' = restarts + 1
      /\ up' = [up EXCEPT ![s] = FALSE] /\ inbox' = [inbox EXCEPT ![s] = <<>>]
      /\ held' = [held EXCEPT ![s] = {}] /\ issued' = [issued EXCEPT ![s] = 0]
      /\ waits' = [l \in Leases |-> IF waits[l] = s THEN "none" ELSE waits[l]]
      /\ UNCHANGED <<lease, asking, stage, cookie, crossed>>
  BY DEF ServiceEnds
<1>2. mail' = [l \in Leases |->
        (IF Connected(l) THEN Append(mail[l], Event("owner", s, 0)) ELSE mail[l])
        \o (IF waits[l] = s THEN <<Event("error", s, 0)>> ELSE <<>>)]
  BY DEF ServiceEnds
<1>3. ASSUME NEW l \in Leases
      PROVE  mail'[l] \in Seq(MailEvent) /\ LeaseOK(l)'
  <2>1. /\ LeaseOK(l) /\ Local(l) /\ mail[l] \in Seq(MailEvent)
        /\ cookie'[l] = cookie[l] /\ stage'[l] = stage[l]
        /\ waits'[l] \in {"none", waits[l]}
    BY <1>1 DEF AwakeInv, AwakeTypeOK, LeaseOK
  <2>2. CASE Connected(l)
    <3>1. PICK waited \in BOOLEAN : waited <=> waits[l] = s
      OBVIOUS
    <3>2. mail'[l] = Append(mail[l], Event("owner", s, 0))
                     \o (IF waited THEN <<Event("error", s, 0)>> ELSE <<>>)
      BY <1>2, <2>2, <3>1
    <3>3. /\ mail'[l] \in Seq(MailEvent) /\ Elems(mail[l]) \subseteq Elems(mail'[l])
          /\ Event("owner", s, 0) \in Elems(mail'[l])
          /\ \A e \in Elems(mail'[l]) : e.kind = "cookie" => e \in Elems(mail[l])
          /\ OneCookie(mail[l]) => OneCookie(mail'[l])
          /\ NoCookie(mail[l]) => NoCookie(mail'[l])
      BY <2>1, <3>2, LastNews
    <3>4. Local(l)'
      BY <2>1, <2>2, <3>3 DEF Local, Connected
    <3>5. Told(l, s)'
      BY <3>3 DEF Told
    <3>6. ASSUME NEW t \in Services, t # s, NEW k \in Nat, ~Told(l, t)', Knows(l, t, k)'
          PROVE  Owns(l, t, k)'
      <4>1. ~Told(l, t)
        BY <3>3, <3>6 DEF Told
      <4>2. Knows(l, t, k)
        BY <2>1, <3>3, <3>6, Events DEF Knows
      <4>3. Owns(l, t, k)
        BY <2>1, <4>1, <4>2 DEF LeaseOK
      <4>4. held'[t] = held[t] /\ issued'[t] = issued[t] /\ crossed' = crossed
        BY <1>1, <3>6 DEF AwakeInv, AwakeTypeOK
      <4> QED
        BY <4>3, <4>4 DEF Owns
    <3> QED
      BY <3>3, <3>4, <3>5, <3>6 DEF LeaseOK
  <2>3. CASE ~Connected(l)
    <3>1. /\ stage[l] \in {"unused", "gone"} /\ mail[l] = <<>> /\ waits[l] = "none"
          /\ cookie[l] = [t \in Services |-> 0]
      BY <2>1, <2>3 DEF Connected, Local
    <3>2. waits[l] # s
      BY <3>1 DEF Services
    <3>3. mail'[l] = <<>> \o <<>>
      BY <1>2, <2>3, <3>1, <3>2
    <3>4. mail'[l] = <<>>
      BY <3>3, EmptySeq, ConcatEmptySeq
    <3>5. Elems(mail'[l]) = {} /\ OneCookie(mail'[l])
      BY <3>4, EmptyMail
    <3>6. Local(l)'
      BY <2>1, <3>1, <3>4, <3>5 DEF Local
    <3>7. \A t \in Services, k \in Nat : ~Knows(l, t, k)'
      BY <2>1, <3>1, <3>5 DEF Knows
    <3> QED
      BY <2>1, <3>1, <3>4, <3>6, <3>7 DEF LeaseOK
  <2> QED
    BY <2>2, <2>3
<1>4. AwakeTypeOK'
  <2>1. mail' \in [Leases -> Seq(MailEvent)]
    BY <1>2, <1>3
  <2>2. restarts' \in 0 .. MaxRestarts
    BY <1>1 DEF AwakeInv, AwakeTypeOK, AwakeAssumption
  <2>3. waits' \in [Leases -> Services \cup {"none"}]
    BY <1>1 DEF AwakeInv, AwakeTypeOK
  <2> QED
    BY <1>1, <2>1, <2>2, <2>3 DEF AwakeInv, AwakeTypeOK
<1>5. ASSUME NEW t \in Services
      PROVE  ServiceOK(t)'
  <2>1. CASE t = s
    BY <1>1, <2>1, EmptyMail DEF AwakeInv, AwakeTypeOK, ServiceOK
  <2>2. CASE t # s
    <3>1. /\ ServiceOK(t) /\ held'[t] = held[t] /\ issued'[t] = issued[t]
          /\ inbox'[t] = inbox[t] /\ stage' = stage
      BY <1>1, <2>2 DEF AwakeInv, AwakeTypeOK
    <3> QED
      BY <3>1 DEF ServiceOK, MessageOK
  <2> QED
    BY <2>1, <2>2
<1> QED
  BY <1>3, <1>4, <1>5 DEF AwakeInv

LEMMA ServiceStartsSafe ==
  ASSUME AwakeInv, NEW s \in Services, ServiceStarts(s)
  PROVE  AwakeInv'
<1>1. /\ up' = [up EXCEPT ![s] = TRUE]
      /\ UNCHANGED <<lease, asking, stage, cookie, waits, mail, inbox, held, issued, crossed, restarts>>
  BY DEF ServiceStarts, leaseVars
<1>2. AwakeTypeOK'
  BY <1>1 DEF AwakeInv, AwakeTypeOK
<1>3. \A l \in Leases : LeaseOK(l)'
  BY <1>1, SameLease DEF AwakeInv
<1>4. \A t \in Services : ServiceOK(t)'
  BY <1>1, SameService DEF AwakeInv
<1> QED
  BY <1>2, <1>3, <1>4 DEF AwakeInv

-----------------------------------------------------------------------------
(* The invariant holds, and an enabled lease is held.                      *)

LEMMA AwakeInitOK ==
  ASSUME AwakeAssumption, AwakeInit
  PROVE  AwakeInv
<1>1. AwakeTypeOK
  BY DEF AwakeInit, AwakeTypeOK, AwakeAssumption
<1>2. \A l \in Leases : Local(l) /\ Elems(mail[l]) = {}
  BY EmptyMail DEF AwakeInit, Local
<1>3. \A l \in Leases, s \in Services, k \in Nat : ~Knows(l, s, k)
  BY <1>2 DEF AwakeInit, Knows
<1>4. \A l \in Leases : LeaseOK(l)
  BY <1>2, <1>3 DEF LeaseOK
<1>5. \A s \in Services : ServiceOK(s)
  BY EmptyMail DEF AwakeInit, ServiceOK
<1> QED
  BY <1>1, <1>4, <1>5 DEF AwakeInv

LEMMA AwakeKept ==
  ASSUME AwakeAssumption, AwakeInv, AwakeNext
  PROVE  AwakeInv'
<1>1. CASE \E c \in Clients : Enable(c) \/ Disable(c) \/ Leave(c)
  BY <1>1, EnableSafe, LeaveSafe
<1>2. CASE \E l \in Leases : Handle(l) \/ CallTimeout(l) \/ Delete(l)
  BY <1>2, OwnerChangedSafe, GotCookieSafe, GotErrorSafe, CallTimeoutSafe, DeleteSafe DEF Handle
<1>3. CASE \E s \in Services : Serve(s) \/ ServiceEnds(s) \/ ServiceStarts(s)
  BY <1>3, GrantSafe, RefuseSafe, ReleaseSafe, ServiceEndsSafe, ServiceStartsSafe DEF Serve
<1>4. CASE AwakeCrash
  BY <1>4, AwakeCrashSafe
<1> QED
  BY <1>1, <1>2, <1>3, <1>4 DEF AwakeNext

LEMMA AwakeSame ==
  ASSUME AwakeInv, UNCHANGED awakeVars
  PROVE  AwakeInv'
<1>1. /\ UNCHANGED <<lease, asking, stage, cookie, waits, mail>>
      /\ UNCHANGED <<up, inbox, held, issued, crossed, restarts>>
  BY DEF awakeVars, leaseVars, serviceVars
<1>2. AwakeTypeOK'
  BY <1>1 DEF AwakeInv, AwakeTypeOK
<1>3. \A l \in Leases : LeaseOK(l)'
  BY <1>1, SameLease DEF AwakeInv
<1>4. \A t \in Services : ServiceOK(t)'
  BY <1>1, SameService DEF AwakeInv
<1> QED
  BY <1>2, <1>3, <1>4 DEF AwakeInv

LEMMA AwakeImplies ==
  ASSUME AwakeInv
  PROVE  EnabledIsHeld
<1> SUFFICES ASSUME NEW l \in Leases, stage[l] = "enabled", l \notin crossed,
                    NEW s \in Services, ~OwnerGone(l, s)
             PROVE  Holds(s, l)
  BY DEF EnabledIsHeld
<1>1. LeaseOK(l) /\ ~Told(l, s) /\ cookie[l][s] \in Nat
  BY ToldGone DEF AwakeInv, AwakeTypeOK
<1>2. Knows(l, s, cookie[l][s])
  BY <1>1 DEF LeaseOK, Local, Knows
<1>3. [cookie |-> cookie[l][s], lease |-> l] \in held[s]
  BY <1>1, <1>2 DEF LeaseOK, Owns
<1> QED
  BY <1>3 DEF Holds

-----------------------------------------------------------------------------
(* What a lease waits for, and what a lease that is gone leaves behind.     *)

Asks(m, l)    == m.kind = "inhibit" /\ l \in m.from
Vanishes(m, l) == m.kind = "vanish" /\ l \in m.from

\* The end of l's connection is in q, and no request of l after it.
LastWord(q, l) ==
  \E n \in DOMAIN q : /\ Vanishes(q[n], l)
                      /\ \A k \in DOMAIN q : Asks(q[k], l) => k < n
Silent(q, l) == \A n \in DOMAIN q : ~Asks(q[n], l)

\* A lease that is gone holds nothing and asks for nothing, or s is going to
\* hear of its end after the last of its requests.
Parted(l, s) ==
  stage[l] = "gone" => LastWord(inbox[s], l) \/ (Silent(inbox[s], l) /\ ~Holds(s, l))

\* Whoever is behind a request in progress hears of it: a reply or a timeout
\* is awaited, or there is mail.
Attended(l) == stage[l] \in {"power", "screen"} => waits[l] # "none" \/ mail[l] # <<>>

\* A lease has one client, who has it as long as it is of use.
Owned ==
  /\ \A c \in Clients : lease[c] # NoLease => stage[lease[c]] \in {"power", "screen", "enabled"}
  /\ \A c, d \in Clients : lease[c] # NoLease /\ lease[c] = lease[d] => c = d
  /\ \A c \in asking : lease[c] # NoLease /\ stage[lease[c]] # "enabled"

StoppedEmpty(s) == ~up[s] => inbox[s] = <<>> /\ held[s] = {}
ServiceParted(s) == StoppedEmpty(s) /\ \A l \in Leases : Parted(l, s)

DueInv == /\ Owned
          /\ \A l \in Leases : Attended(l)
          /\ \A s \in Services : ServiceParted(s)

\* A client that waits for its answer has a lease that awaits a reply or has
\* mail to handle; and what a service still holds for a lease that is gone
\* has the end of its connection ahead.
AwakeDue ==
  /\ \A c \in asking :
       /\ lease[c] \in Leases
       /\ waits[lease[c]] # "none" \/ mail[lease[c]] # <<>>
  /\ \A l \in Leases, s \in Services :
       stage[l] = "gone" /\ Holds(s, l) => \E n \in DOMAIN inbox[s] : Vanishes(inbox[s][n], l)

LEMMA WordsAppended ==
  ASSUME NEW q \in Seq(Message), NEW m \in Message, NEW l
  PROVE  /\ Vanishes(m, l) => LastWord(Append(q, m), l)
         /\ LastWord(q, l) /\ ~Asks(m, l) => LastWord(Append(q, m), l)
         /\ Silent(q, l) /\ ~Asks(m, l) => Silent(Append(q, m), l)
<1> DEFINE r == Append(q, m)
<1>1. /\ DOMAIN q = 1 .. Len(q) /\ Len(q) \in Nat /\ DOMAIN r = 1 .. Len(q) + 1
      /\ \A n \in DOMAIN q : r[n] = q[n]
      /\ r[Len(q) + 1] = m
  OBVIOUS
<1> HIDE DEF r
<1>2. \A n \in DOMAIN r : n \in DOMAIN q \/ n = Len(q) + 1
  BY <1>1
<1>3. Len(q) + 1 \in DOMAIN r /\ \A n \in DOMAIN q : n \in DOMAIN r /\ n < Len(q) + 1
  BY <1>1
<1>4. Vanishes(m, l) => ~Asks(m, l)
  BY DEF Vanishes, Asks
<1>5. Vanishes(m, l) => LastWord(r, l)
  BY <1>1, <1>2, <1>3, <1>4 DEF LastWord
<1>6. LastWord(q, l) /\ ~Asks(m, l) => LastWord(r, l)
  BY <1>1, <1>2, <1>3 DEF LastWord
<1>7. Silent(q, l) /\ ~Asks(m, l) => Silent(r, l)
  BY <1>1, <1>2, <1>3 DEF Silent
<1> QED
  BY <1>5, <1>6, <1>7 DEF r

LEMMA WordsRead ==
  ASSUME NEW q \in Seq(Message), q # <<>>, NEW l
  PROVE  /\ Silent(q, l) => Silent(Tail(q), l) /\ ~Asks(Head(q), l)
         /\ LastWord(q, l) => \/ LastWord(Tail(q), l)
                              \/ Silent(Tail(q), l) /\ Vanishes(Head(q), l)
<1> DEFINE r == Tail(q)
<1>1. /\ DOMAIN q = 1 .. Len(q) /\ Len(q) \in Nat \ {0} /\ DOMAIN r = 1 .. Len(q) - 1
      /\ \A n \in 1 .. Len(q) - 1 : r[n] = q[n + 1]
      /\ Head(q) = q[1]
  OBVIOUS
<1> HIDE DEF r
<1>2. /\ \A n \in DOMAIN r : n \in Nat /\ n + 1 \in DOMAIN q /\ r[n] = q[n + 1] /\ 1 < n + 1
      /\ 1 \in DOMAIN q
      /\ \A n \in DOMAIN q : n \in Nat /\ (n = 1 \/ (n - 1 \in DOMAIN r /\ r[n - 1] = q[n]))
  BY <1>1
<1>3. Silent(q, l) => Silent(r, l) /\ ~Asks(Head(q), l)
  BY <1>1, <1>2 DEF Silent
<1>4. ASSUME NEW n \in DOMAIN q, Vanishes(q[n], l), \A k \in DOMAIN q : Asks(q[k], l) => k < n
      PROVE  LastWord(r, l) \/ (Silent(r, l) /\ Vanishes(Head(q), l))
  <2>1. CASE n = 1
    <3>1. ASSUME NEW k \in DOMAIN r PROVE ~Asks(r[k], l)
      <4>1. k \in Nat /\ k + 1 \in DOMAIN q /\ r[k] = q[k + 1] /\ 1 < k + 1
        BY <1>2
      <4>2. ~(k + 1 < 1)
        BY <4>1
      <4> QED
        BY <4>1, <4>2, <1>4, <2>1
    <3> QED
      BY <3>1, <1>1, <1>4, <2>1 DEF Silent
  <2>2. CASE n # 1
    <3>1. n - 1 \in DOMAIN r /\ Vanishes(r[n - 1], l) /\ n \in Nat
      BY <1>2, <1>4, <2>2
    <3>2. ASSUME NEW k \in DOMAIN r, Asks(r[k], l) PROVE k < n - 1
      <4>1. k \in Nat /\ k + 1 \in DOMAIN q /\ r[k] = q[k + 1]
        BY <1>2
      <4>2. k + 1 < n
        BY <4>1, <3>2, <1>4
      <4> QED
        BY <4>1, <4>2, <3>1
    <3> QED
      BY <3>1, <3>2 DEF LastWord
  <2> QED
    BY <2>1, <2>2
<1>5. LastWord(q, l) => LastWord(r, l) \/ (Silent(r, l) /\ Vanishes(Head(q), l))
  BY <1>4 DEF LastWord
<1> QED
  BY <1>3, <1>5 DEF r

\* A service whose inbox gets at most a message that asks nothing in the name
\* of a lease that is gone.
LEMMA ServiceHears ==
  ASSUME AwakeInv, NEW s \in Services, ServiceParted(s), up'[s] = up[s], held'[s] = held[s],
         \A l \in Leases : stage'[l] = "gone" => stage[l] = "gone",
         \/ inbox'[s] = inbox[s]
         \/ up[s] /\ \E m \in Message : /\ inbox'[s] = Append(inbox[s], m)
                                        /\ \A l \in m.from : stage[l] # "gone"
  PROVE  ServiceParted(s)'
<1>1. inbox[s] \in Seq(Message)
  BY DEF AwakeInv, AwakeTypeOK
<1>2. StoppedEmpty(s)'
  BY DEF ServiceParted, StoppedEmpty
<1>3. ASSUME NEW l \in Leases, stage'[l] = "gone"
      PROVE  LastWord(inbox'[s], l) \/ (Silent(inbox'[s], l) /\ ~Holds(s, l)')
  <2>1. stage[l] = "gone" /\ (Holds(s, l)' <=> Holds(s, l))
    BY <1>3 DEF Holds
  <2>2. LastWord(inbox[s], l) \/ (Silent(inbox[s], l) /\ ~Holds(s, l))
    BY <2>1 DEF ServiceParted, Parted
  <2>3. CASE inbox'[s] = inbox[s]
    BY <2>1, <2>2, <2>3
  <2>4. ASSUME NEW m \in Message, inbox'[s] = Append(inbox[s], m),
               \A k \in m.from : stage[k] # "gone"
        PROVE  LastWord(inbox'[s], l) \/ (Silent(inbox'[s], l) /\ ~Holds(s, l)')
    <3>1. ~Asks(m, l)
      BY <2>1, <2>4 DEF Asks
    <3> QED
      BY <1>1, <2>1, <2>2, <2>4, <3>1, WordsAppended
  <2> QED
    BY <2>3, <2>4
<1> QED
  BY <1>2, <1>3 DEF ServiceParted, Parted

LEMMA ServiceSame ==
  ASSUME NEW s \in Services, ServiceParted(s), up'[s] = up[s], held'[s] = held[s],
         inbox'[s] = inbox[s], \A l \in Leases : stage'[l] = "gone" => stage[l] = "gone"
  PROVE  ServiceParted(s)'
  BY DEF ServiceParted, StoppedEmpty, Parted, Holds, LastWord, Silent

\* inhibit() in the name of a lease that is not gone.
LEMMA InhibitDue ==
  ASSUME AwakeInv, NEW l \in Leases, NEW s \in Services, NEW rest \in Seq(MailEvent),
         Inhibit(l, s, rest), UNCHANGED <<up, held>>, stage[l] # "gone",
         \A k \in Leases : stage'[k] = "gone" => stage[k] = "gone",
         \A t \in Services : ServiceParted(t)
  PROVE  /\ \A t \in Services : ServiceParted(t)'
         /\ waits'[l] # "none" \/ mail'[l] # <<>>
<1> DEFINE m == [kind |-> "inhibit", cookie |-> 0, from |-> {l}, stale |-> FALSE]
<1>1. m \in Message /\ m.from = {l}
  BY DEF Message
<1> HIDE DEF m
<1>2. CASE up[s]
  <2>1. /\ waits' = [waits EXCEPT ![l] = s]
        /\ inbox' = [inbox EXCEPT ![s] = Append(@, m)]
    BY <1>2 DEF Inhibit, m
  <2>2. waits'[l] = s /\ s # "none"
    BY <2>1 DEF AwakeInv, AwakeTypeOK, Services
  <2>3. inbox'[s] = Append(inbox[s], m) /\ \A t \in Services \ {s} : inbox'[t] = inbox[t]
    BY <2>1 DEF AwakeInv, AwakeTypeOK
  <2>4. ASSUME NEW t \in Services PROVE ServiceParted(t)'
    <3>1. up'[t] = up[t] /\ held'[t] = held[t]
      OBVIOUS
    <3>2. \/ inbox'[t] = inbox[t]
          \/ up[t] /\ \E x \in Message : /\ inbox'[t] = Append(inbox[t], x)
                                         /\ \A k \in x.from : stage[k] # "gone"
      BY <1>1, <1>2, <2>3
    <3> QED
      BY <3>1, <3>2, ServiceHears
  <2> QED
    BY <2>2, <2>4
<1>3. CASE ~up[s]
  <2> DEFINE e == Event("error", s, 0)
  <2>1. mail' = [mail EXCEPT ![l] = Append(rest, e)] /\ inbox' = inbox
    BY <1>3 DEF Inhibit
  <2>2. e \in MailEvent
    BY EventTypes
  <2> HIDE DEF e
  <2>3. Append(rest, e) # <<>>
    BY <2>2, AppendProperties
  <2>4. mail'[l] # <<>>
    BY <2>1, <2>3 DEF AwakeInv, AwakeTypeOK
  <2> QED
    BY <2>1, <2>4, ServiceSame
<1> QED
  BY <1>2, <1>3

\* Only the end of a connection, and releases of cookies, get into an inbox
\* when leases go.
LEMMA ServiceFarewell ==
  ASSUME AwakeInv, NEW s \in Services, ServiceParted(s), up'[s] = up[s], held'[s] = held[s],
         NEW m \in Message, m.kind = "vanish", NEW rel \in Message, rel.kind = "uninhibit",
         \A l \in Leases : stage'[l] = "gone" => stage[l] = "gone" \/ l \in m.from,
         ~up[s] => inbox'[s] = <<>>,
         up[s] => \/ inbox'[s] = Append(inbox[s], m)
                  \/ inbox'[s] = Append(Append(inbox[s], rel), m)
  PROVE  ServiceParted(s)'
<1>1. inbox[s] \in Seq(Message)
  BY DEF AwakeInv, AwakeTypeOK
<1>2. Append(inbox[s], rel) \in Seq(Message)
  BY <1>1, AppendProperties
<1>3. StoppedEmpty(s)'
  BY DEF ServiceParted, StoppedEmpty
<1>4. ASSUME NEW l \in Leases, stage'[l] = "gone"
      PROVE  LastWord(inbox'[s], l) \/ (Silent(inbox'[s], l) /\ ~Holds(s, l)')
  <2>1. ~Asks(m, l) /\ ~Asks(rel, l)
    BY DEF Asks
  <2>2. Holds(s, l)' <=> Holds(s, l)
    BY DEF Holds
  <2>3. CASE ~up[s]
    <3>1. held[s] = {} /\ inbox'[s] = <<>>
      BY <2>3 DEF ServiceParted, StoppedEmpty
    <3>2. Silent(<<>>, l)
      BY DEF Silent
    <3> QED
      BY <2>2, <3>1, <3>2 DEF Holds
  <2>4. CASE up[s] /\ l \in m.from
    <3>1. Vanishes(m, l)
      BY <2>4 DEF Vanishes
    <3> QED
      BY <1>1, <1>2, <2>4, <3>1, WordsAppended
  <2>5. CASE up[s] /\ l \notin m.from
    <3>1. LastWord(inbox[s], l) \/ (Silent(inbox[s], l) /\ ~Holds(s, l))
      BY <1>4, <2>5 DEF ServiceParted, Parted
    <3>2. \/ LastWord(Append(inbox[s], rel), l)
          \/ Silent(Append(inbox[s], rel), l) /\ ~Holds(s, l)
      BY <1>1, <2>1, <3>1, WordsAppended
    <3> QED
      BY <1>1, <1>2, <2>1, <2>2, <2>5, <3>1, <3>2, WordsAppended
  <2> QED
    BY <2>3, <2>4, <2>5
<1> QED
  BY <1>3, <1>4 DEF ServiceParted, Parted

LEMMA DestroyDue ==
  ASSUME AwakeInv, NEW l \in Leases, Destroy(l), UNCHANGED <<up, held>>,
         \A s \in Services : ServiceParted(s), \A k \in Leases : Attended(k)
  PROVE  /\ \A s \in Services : ServiceParted(s)'
         /\ \A k \in Leases : Attended(k)'
<1>1. /\ stage' = [stage EXCEPT ![l] = "gone"]
      /\ waits' = [waits EXCEPT ![l] = "none"] /\ mail' = [mail EXCEPT ![l] = <<>>]
      /\ inbox' = [s \in Services |-> IF up[s] THEN inbox[s] \o Farewell(l, s) ELSE <<>>]
  BY DEF Destroy
<1>2. /\ stage'[l] = "gone"
      /\ \A k \in Leases \ {l} : /\ stage'[k] = stage[k] /\ waits'[k] = waits[k]
                                 /\ mail'[k] = mail[k]
  BY <1>1 DEF AwakeInv, AwakeTypeOK
<1>3. \A k \in Leases : Attended(k)'
  BY <1>2 DEF Attended
<1>4. ASSUME NEW s \in Services PROVE ServiceParted(s)'
  <2> DEFINE m == [kind |-> "vanish", cookie |-> 0, from |-> {l}, stale |-> FALSE]
  <2>1. PICK rel : rel = [kind |-> "uninhibit", cookie |-> cookie[l][s], from |-> {l},
                          stale |-> OwnerGone(l, s)]
    OBVIOUS
  <2>2. m \in Message /\ m.kind = "vanish" /\ m.from = {l}
    BY DEF Message
  <2>3. rel \in Message /\ rel.kind = "uninhibit"
    <3>1. OwnerGone(l, s) \in BOOLEAN /\ cookie[l][s] \in Nat
      BY DEF OwnerGone, AwakeInv, AwakeTypeOK
    <3> QED
      BY <2>1, <3>1 DEF Message
  <2>4. Farewell(l, s) = (IF cookie[l][s] # 0 THEN <<rel>> ELSE <<>>) \o <<m>>
    BY <2>1 DEF Farewell
  <2> HIDE DEF m
  <2>5. inbox[s] \in Seq(Message)
    BY DEF AwakeInv, AwakeTypeOK
  <2>6. <<m>> \in Seq(Message) /\ <<rel>> \in Seq(Message) /\ <<>> \in Seq(Message)
    BY <2>2, <2>3
  <2>7. /\ Append(inbox[s], m) = inbox[s] \o <<m>>
        /\ Append(inbox[s], rel) = inbox[s] \o <<rel>>
        /\ Append(inbox[s], rel) \in Seq(Message)
    BY <2>2, <2>3, <2>5, AppendIsConcat, AppendProperties
  <2>8. Append(Append(inbox[s], rel), m) = (inbox[s] \o <<rel>>) \o <<m>>
    BY <2>2, <2>7, AppendIsConcat
  <2>9. inbox[s] \o (<<rel>> \o <<m>>) = (inbox[s] \o <<rel>>) \o <<m>>
    BY <2>5, <2>6, ConcatAssociative
  <2>10. <<>> \o <<m>> = <<m>>
    BY <2>6, ConcatEmptySeq
  <2>11. up[s] => \/ inbox'[s] = Append(inbox[s], m)
                  \/ inbox'[s] = Append(Append(inbox[s], rel), m)
    <3>1. up[s] => inbox'[s] = inbox[s] \o Farewell(l, s)
      BY <1>1
    <3>2. CASE cookie[l][s] # 0
      <4>1. Farewell(l, s) = <<rel>> \o <<m>>
        BY <2>4, <3>2
      <4> QED
        BY <3>1, <4>1, <2>8, <2>9
    <3>3. CASE cookie[l][s] = 0
      <4>1. Farewell(l, s) = <<m>>
        BY <2>4, <2>10, <3>3
      <4> QED
        BY <3>1, <4>1, <2>7
    <3> QED
      BY <3>2, <3>3
  <2>12. ~up[s] => inbox'[s] = <<>>
    BY <1>1
  <2>13. \A k \in Leases : stage'[k] = "gone" => stage[k] = "gone" \/ k \in m.from
    BY <1>2, <2>2
  <2>14. up'[s] = up[s] /\ held'[s] = held[s] /\ ServiceParted(s)
    OBVIOUS
  <2> QED
    BY <2>2, <2>3, <2>11, <2>12, <2>13, <2>14, ServiceFarewell
<1> QED
  BY <1>3, <1>4

LEMMA CrashDue ==
  ASSUME AwakeInv, DueInv, AwakeCrash
  PROVE  DueInv'
<1>1. PICK C : C = {l \in Leases : Connected(l)}
  OBVIOUS
<1> DEFINE m == [kind |-> "vanish", cookie |-> 0, from |-> C, stale |-> FALSE]
<1>2. /\ lease' = [c \in Clients |-> NoLease] /\ asking' = {}
      /\ stage' = [l \in Leases |-> IF l \in C THEN "gone" ELSE stage[l]]
      /\ inbox' = [s \in Services |-> IF up[s] THEN Append(inbox[s], m) ELSE <<>>]
      /\ UNCHANGED <<up, held>>
  BY <1>1 DEF AwakeCrash
<1>3. m \in Message /\ m.kind = "vanish" /\ m.from = C
  BY <1>1 DEF Message
<1> HIDE DEF m
<1>4. PICK rel : rel = [kind |-> "uninhibit", cookie |-> 0, from |-> {}, stale |-> FALSE]
  OBVIOUS
<1>5. rel \in Message /\ rel.kind = "uninhibit"
  BY <1>4 DEF Message
<1>6. ASSUME NEW s \in Services PROVE ServiceParted(s)'
  <2>1. /\ ServiceParted(s) /\ up'[s] = up[s] /\ held'[s] = held[s]
        /\ up[s] => inbox'[s] = Append(inbox[s], m)
        /\ ~up[s] => inbox'[s] = <<>>
    BY <1>2 DEF DueInv
  <2>2. \A l \in Leases : stage'[l] = "gone" => stage[l] = "gone" \/ l \in m.from
    BY <1>2, <1>3
  <2> QED
    BY <1>3, <1>5, <2>1, <2>2, ServiceFarewell
<1>7. \A l \in Leases : stage'[l] \notin {"power", "screen"}
  BY <1>1, <1>2 DEF Connected
<1>8. Owned'
  BY <1>2 DEF Owned
<1> QED
  BY <1>6, <1>7, <1>8 DEF DueInv, Attended

\* The leases of clients, when clients get no other lease and no lease of a
\* client ends.
LEMMA SameOwners ==
  ASSUME AwakeInv, Owned, lease' \in [Clients -> Leases \cup {NoLease}], asking' \subseteq asking,
         \A c \in Clients : lease'[c] \in {lease[c], NoLease},
         \A c \in Clients : lease'[c] # NoLease =>
           \/ stage'[lease[c]] = stage[lease[c]]
           \/ stage'[lease[c]] \in {"power", "screen", "enabled"},
         \A c \in asking' : lease'[c] # NoLease /\ stage'[lease'[c]] # "enabled"
  PROVE  Owned'
<1>1. \A c \in Clients : lease'[c] # NoLease => lease'[c] = lease[c]
  OBVIOUS
<1> QED
  BY <1>1 DEF Owned

LEMMA EnableDue ==
  ASSUME AwakeInv, DueInv, NEW c \in Clients, Enable(c)
  PROVE  DueInv'
<1>1. PICK l \in Leases : /\ stage[l] = "unused" /\ lease' = [lease EXCEPT ![c] = l]
                          /\ stage' = [stage EXCEPT ![l] = "power"]
                          /\ Inhibit(l, "power", <<>>)
  BY DEF Enable
<1>2. /\ asking' = asking \cup {c} /\ lease[c] = NoLease
      /\ UNCHANGED <<cookie, up, held, issued, crossed, restarts>>
  BY DEF Enable
<1>3. /\ stage'[l] = "power" /\ \A k \in Leases \ {l} : stage'[k] = stage[k]
      /\ lease'[c] = l /\ \A d \in Clients \ {c} : lease'[d] = lease[d]
  BY <1>1 DEF AwakeInv, AwakeTypeOK
<1>4. <<>> \in Seq(MailEvent) /\ "power" \in Services /\ stage[l] # "gone"
      /\ \A k \in Leases : stage'[k] = "gone" => stage[k] = "gone"
  BY <1>1, <1>3 DEF Services
<1>5. /\ \A t \in Services : ServiceParted(t)'
      /\ waits'[l] # "none" \/ mail'[l] # <<>>
  BY <1>1, <1>2, <1>4, InhibitDue DEF DueInv
<1>6. \A k \in Leases \ {l} : waits'[k] = waits[k] /\ mail'[k] = mail[k]
  BY <1>1 DEF Inhibit, AwakeInv, AwakeTypeOK
<1>7. \A k \in Leases : Attended(k)'
  BY <1>3, <1>5, <1>6 DEF Attended, DueInv
<1>8. Owned'
  <2>1. \A d \in Clients : lease[d] \in Leases \cup {NoLease}
    BY DEF AwakeInv, AwakeTypeOK
  <2>2. \A d \in Clients \ {c} : lease[d] # l
    BY <1>1, AwakeAssumption DEF DueInv, Owned
  <2>3. \A d \in Clients \ {c} : lease'[d] # NoLease =>
          /\ lease'[d] # l /\ stage'[lease'[d]] = stage[lease[d]]
          /\ stage[lease[d]] \in {"power", "screen", "enabled"}
    BY <1>3, <2>1, <2>2 DEF DueInv, Owned
  <2>4. \A d \in Clients, e \in Clients : lease'[d] # NoLease /\ lease'[d] = lease'[e] => d = e
    BY <1>3, <2>2 DEF DueInv, Owned
  <2>5. asking \subseteq Clients /\ l # NoLease
    BY AwakeAssumption DEF AwakeInv, AwakeTypeOK
  <2>6. \A d \in asking' : lease'[d] # NoLease /\ stage'[lease'[d]] # "enabled"
    <3> SUFFICES ASSUME NEW d \in asking' PROVE lease'[d] # NoLease /\ stage'[lease'[d]] # "enabled"
      OBVIOUS
    <3>1. CASE d = c
      BY <1>3, <2>5, <3>1
    <3>2. CASE d # c
      <4>1. d \in asking /\ d \in Clients \ {c}
        BY <1>2, <2>5, <3>2
      <4>2. lease'[d] = lease[d] /\ lease[d] # NoLease /\ stage[lease[d]] # "enabled"
        BY <1>3, <4>1 DEF DueInv, Owned
      <4> QED
        BY <2>3, <4>1, <4>2
    <3> QED
      BY <3>1, <3>2
  <2>7. \A d \in Clients : lease'[d] # NoLease =>
          stage'[lease'[d]] \in {"power", "screen", "enabled"}
    BY <1>3, <2>3
  <2> QED
    BY <2>4, <2>6, <2>7 DEF Owned
<1> QED
  BY <1>5, <1>7, <1>8 DEF DueInv

LEMMA LeaveDue ==
  ASSUME AwakeInv, DueInv, NEW c \in Clients, Disable(c) \/ Leave(c)
  PROVE  DueInv'
<1>1. /\ lease[c] \in Leases /\ lease[c] # NoLease
      /\ Destroy(lease[c]) /\ lease' = [lease EXCEPT ![c] = NoLease]
      /\ UNCHANGED <<up, held>>
  BY DEF AwakeInv, AwakeTypeOK, Disable, Leave
<1>2. asking' \subseteq asking /\ c \notin asking'
  BY DEF Disable, Leave, DueInv, Owned
<1>3. PICK l \in Leases : l = lease[c]
  BY <1>1
<1>4. /\ \A s \in Services : ServiceParted(s)'
      /\ \A k \in Leases : Attended(k)'
  BY <1>1, <1>3, DestroyDue DEF DueInv
<1>5. \A k \in Leases \ {l} : stage'[k] = stage[k]
  BY <1>1, <1>3 DEF Destroy, AwakeInv, AwakeTypeOK
<1>6. /\ lease'[c] = NoLease /\ \A d \in Clients \ {c} : lease'[d] = lease[d] /\ lease[d] # l
      /\ \A d \in Clients : lease[d] \in Leases \cup {NoLease}
      /\ asking \subseteq Clients
  BY <1>1, <1>3 DEF DueInv, Owned, AwakeInv, AwakeTypeOK
<1>7. /\ lease' \in [Clients -> Leases \cup {NoLease}]
      /\ \A d \in Clients : lease'[d] \in {lease[d], NoLease}
  BY <1>1, <1>6 DEF AwakeInv, AwakeTypeOK
<1>8. \A d \in Clients : lease'[d] # NoLease => stage'[lease[d]] = stage[lease[d]]
  BY <1>5, <1>6
<1>9. \A d \in asking' : lease'[d] # NoLease /\ stage'[lease'[d]] # "enabled"
  <2> SUFFICES ASSUME NEW d \in asking' PROVE lease'[d] # NoLease /\ stage'[lease'[d]] # "enabled"
    OBVIOUS
  <2>1. d \in asking /\ d \in Clients \ {c}
    BY <1>2, <1>6
  <2>2. lease'[d] = lease[d] /\ lease[d] # NoLease /\ stage[lease[d]] # "enabled"
    BY <1>6, <2>1 DEF DueInv, Owned
  <2> QED
    BY <1>8, <2>1, <2>2
<1>10. Owned'
  BY <1>2, <1>7, <1>8, <1>9, SameOwners DEF DueInv
<1> QED
  BY <1>4, <1>10 DEF DueInv

LEMMA DeleteDue ==
  ASSUME AwakeInv, DueInv, NEW l \in Leases, Delete(l)
  PROVE  DueInv'
<1>1. stage[l] = "dropped" /\ Destroy(l) /\ UNCHANGED <<lease, asking, up, held>>
  BY DEF Delete
<1>2. /\ \A s \in Services : ServiceParted(s)'
      /\ \A k \in Leases : Attended(k)'
  BY <1>1, DestroyDue DEF DueInv
<1>3. \A k \in Leases \ {l} : stage'[k] = stage[k]
  BY <1>1 DEF Destroy, AwakeInv, AwakeTypeOK
<1>4. \A c \in Clients : lease[c] # NoLease => lease[c] \in Leases \ {l}
  BY <1>1 DEF DueInv, Owned, AwakeInv, AwakeTypeOK
<1>5. asking \subseteq Clients
  BY DEF AwakeInv, AwakeTypeOK
<1>6. Owned'
  BY <1>1, <1>3, <1>4, <1>5 DEF DueInv, Owned
<1> QED
  BY <1>2, <1>6 DEF DueInv

\* Drop() of a lease that is not gone.
LEMMA DropDue ==
  ASSUME AwakeInv, DueInv, NEW l \in Leases, Drop(l), stage[l] # "gone", UNCHANGED <<waits, inbox, up, held>>,
         \A k \in Leases \ {l} : mail'[k] = mail[k]
  PROVE  DueInv'
<1>1. /\ asking' = {c \in asking : lease[c] # l}
      /\ lease' = [c \in Clients |-> IF lease[c] = l THEN NoLease ELSE lease[c]]
  BY DEF Drop
<1>2. stage'[l] = "dropped" /\ \A k \in Leases \ {l} : stage'[k] = stage[k]
  BY DropTypes
<1>3. \A c \in Clients : lease[c] \in Leases \cup {NoLease}
  BY DEF AwakeInv, AwakeTypeOK
<1>4. /\ lease' \in [Clients -> Leases \cup {NoLease}] /\ asking' \subseteq asking
      /\ \A c \in Clients : lease'[c] \in {lease[c], NoLease} /\ lease'[c] # l
  BY <1>1, <1>3, AwakeAssumption
<1>5. \A c \in Clients : lease'[c] # NoLease => stage'[lease[c]] = stage[lease[c]]
  BY <1>2, <1>3, <1>4
<1>6. \A c \in asking' : lease'[c] # NoLease /\ stage'[lease'[c]] # "enabled"
  <2> SUFFICES ASSUME NEW c \in asking' PROVE lease'[c] # NoLease /\ stage'[lease'[c]] # "enabled"
    OBVIOUS
  <2>1. c \in asking /\ c \in Clients /\ lease[c] # l /\ lease'[c] = lease[c]
    BY <1>1 DEF AwakeInv, AwakeTypeOK
  <2>2. lease[c] # NoLease /\ stage[lease[c]] # "enabled"
    BY <2>1 DEF DueInv, Owned
  <2> QED
    BY <1>5, <2>1, <2>2
<1>7. Owned'
  BY <1>4, <1>5, <1>6, SameOwners DEF DueInv
<1>8. \A k \in Leases : Attended(k)'
  BY <1>2 DEF Attended, DueInv
<1>9. \A k \in Leases : stage'[k] = "gone" => stage[k] = "gone"
  BY <1>2
<1>10. \A s \in Services : ServiceParted(s)'
  BY <1>9, ServiceSame DEF DueInv
<1> QED
  BY <1>7, <1>8, <1>10 DEF DueInv

LEMMA MailedLives ==
  ASSUME AwakeInv, NEW l \in Leases, mail[l] # <<>>
  PROVE  stage[l] \notin {"unused", "gone"}
  BY DEF AwakeInv, LeaseOK, Local

LEMMA OwnerChangedDue ==
  ASSUME AwakeInv, DueInv, NEW l \in Leases, OwnerChanged(l)
  PROVE  DueInv'
<1>1. /\ Drop(l) /\ UNCHANGED <<waits, inbox, up, held>> /\ mail[l] # <<>>
      /\ mail' = [mail EXCEPT ![l] = Tail(@)]
  BY DEF OwnerChanged, serviceVars
<1>2. \A k \in Leases \ {l} : mail'[k] = mail[k]
  BY <1>1 DEF AwakeInv, AwakeTypeOK
<1> QED
  BY <1>1, <1>2, MailedLives, DropDue

LEMMA GotErrorDue ==
  ASSUME AwakeInv, DueInv, NEW l \in Leases, GotError(l)
  PROVE  DueInv'
<1>1. /\ UNCHANGED <<waits, inbox, up, held>> /\ mail[l] # <<>>
      /\ mail' = [mail EXCEPT ![l] = Tail(@)]
      /\ \/ stage[l] = "dropped" /\ UNCHANGED <<asking, lease, stage>>
         \/ Drop(l)
  BY DEF GotError, serviceVars
<1>2. \A k \in Leases \ {l} : mail'[k] = mail[k]
  BY <1>1 DEF AwakeInv, AwakeTypeOK
<1>3. CASE Drop(l)
  BY <1>1, <1>2, <1>3, MailedLives, DropDue
<1>4. CASE stage[l] = "dropped" /\ UNCHANGED <<asking, lease, stage>>
  <2>1. Owned'
    BY <1>4 DEF DueInv, Owned
  <2>2. \A k \in Leases : Attended(k)'
    BY <1>1, <1>2, <1>4 DEF DueInv, Attended
  <2>3. \A s \in Services : ServiceParted(s)'
    BY <1>1, <1>4, ServiceSame DEF DueInv
  <2> QED
    BY <2>1, <2>2, <2>3 DEF DueInv
<1> QED
  BY <1>1, <1>3, <1>4

LEMMA CallTimeoutDue ==
  ASSUME AwakeInv, DueInv, NEW l \in Leases, CallTimeout(l)
  PROVE  DueInv'
<1>1. /\ waits[l] # "none" /\ mail' = [mail EXCEPT ![l] = Append(@, Event("error", waits[l], 0))]
      /\ waits' = [waits EXCEPT ![l] = "none"]
      /\ UNCHANGED <<lease, asking, stage, inbox, up, held>>
  BY DEF CallTimeout, serviceVars
<1>2. waits[l] \in Services /\ mail[l] \in Seq(MailEvent)
  BY <1>1 DEF AwakeInv, AwakeTypeOK
<1>3. Append(mail[l], Event("error", waits[l], 0)) # <<>>
  BY <1>2, EventTypes, AppendProperties
<1>4. /\ mail'[l] # <<>>
      /\ \A k \in Leases \ {l} : mail'[k] = mail[k] /\ waits'[k] = waits[k]
  BY <1>1, <1>3 DEF AwakeInv, AwakeTypeOK
<1>5. \A k \in Leases : Attended(k)'
  BY <1>1, <1>4 DEF DueInv, Attended
<1>6. Owned'
  BY <1>1 DEF DueInv, Owned
<1>7. \A s \in Services : ServiceParted(s)'
  BY <1>1, ServiceSame DEF DueInv
<1> QED
  BY <1>5, <1>6, <1>7 DEF DueInv

LEMMA GotCookieDue ==
  ASSUME AwakeInv, DueInv, NEW l \in Leases, GotCookie(l)
  PROVE  DueInv'
<1> DEFINE e == Head(mail[l])
<1>1. /\ mail[l] # <<>> /\ e.kind = "cookie" /\ UNCHANGED <<lease, up, held>>
  BY DEF GotCookie
<1>2. stage[l] \notin {"unused", "gone"}
  BY <1>1, MailedLives
<1>3. mail[l] \in Seq(MailEvent) /\ e \in Elems(mail[l]) /\ e \in MailEvent
      /\ Tail(mail[l]) \in Seq(MailEvent)
  BY <1>1, HeadAndTail DEF AwakeInv, AwakeTypeOK
<1>4. stage[l] # "dropped" => e.of = stage[l]
  BY <1>1, <1>3 DEF AwakeInv, LeaseOK, Local
<1>5. e.of \in Services
  BY <1>3 DEF MailEvent
<1>6. \/ /\ stage[l] = "dropped" /\ mail' = [mail EXCEPT ![l] = Tail(@)]
         /\ UNCHANGED <<asking, stage, waits, inbox>>
      \/ /\ stage[l] # "dropped" /\ e.of = "power" /\ Inhibit(l, "screen", Tail(mail[l]))
         /\ stage' = [stage EXCEPT ![l] = "screen"] /\ UNCHANGED asking
      \/ /\ stage[l] # "dropped" /\ e.of # "power" /\ stage' = [stage EXCEPT ![l] = "enabled"]
         /\ asking' = {c \in asking : lease[c] # l}
         /\ mail' = [mail EXCEPT ![l] = Tail(@)] /\ UNCHANGED <<waits, inbox>>
  BY DEF GotCookie
<1> HIDE DEF e
<1>7. lease \in [Clients -> Leases \cup {NoLease}] /\ asking \subseteq Clients
  BY DEF AwakeInv, AwakeTypeOK
<1>8. CASE stage[l] = "dropped" /\ mail' = [mail EXCEPT ![l] = Tail(@)]
           /\ UNCHANGED <<asking, stage, waits, inbox>>
  <2>1. Owned'
    BY <1>1, <1>8 DEF DueInv, Owned
  <2>2. \A k \in Leases \ {l} : mail'[k] = mail[k]
    BY <1>8 DEF AwakeInv, AwakeTypeOK
  <2>3. \A k \in Leases : Attended(k)'
    BY <1>8, <2>2 DEF DueInv, Attended
  <2>4. \A s \in Services : ServiceParted(s)'
    BY <1>1, <1>8, ServiceSame DEF DueInv
  <2> QED
    BY <2>1, <2>3, <2>4 DEF DueInv
<1>9. CASE stage[l] # "dropped" /\ e.of = "power" /\ Inhibit(l, "screen", Tail(mail[l]))
           /\ stage' = [stage EXCEPT ![l] = "screen"] /\ UNCHANGED asking
  <2>1. stage'[l] = "screen" /\ \A k \in Leases \ {l} : stage'[k] = stage[k]
    BY <1>9 DEF AwakeInv, AwakeTypeOK
  <2>2. /\ \A k \in Leases : stage'[k] = "gone" => stage[k] = "gone"
        /\ "screen" \in Services /\ UNCHANGED <<up, held>> /\ stage[l] # "gone"
    BY <1>1, <1>2, <2>1 DEF Services
  <2>3. /\ \A t \in Services : ServiceParted(t)'
        /\ waits'[l] # "none" \/ mail'[l] # <<>>
    BY <1>3, <1>9, <2>2, InhibitDue DEF DueInv
  <2>4. \A k \in Leases \ {l} : waits'[k] = waits[k] /\ mail'[k] = mail[k]
    BY <1>9 DEF Inhibit, AwakeInv, AwakeTypeOK
  <2>5. \A k \in Leases : Attended(k)'
    BY <2>1, <2>3, <2>4 DEF DueInv, Attended
  <2>6. \A c \in asking : lease[c] # NoLease /\ lease[c] \in Leases /\ stage[lease[c]] # "enabled"
    BY <1>7 DEF DueInv, Owned
  <2>7. \A c \in Clients : lease[c] \in Leases => stage'[lease[c]] = stage[lease[c]] \/ stage'[lease[c]] = "screen"
    BY <2>1
  <2>8. \A c \in Clients : lease[c] \in Leases \cup {NoLease}
    BY <1>7
  <2>9. Owned'
    BY <1>1, <1>7, <1>9, <2>6, <2>7, <2>8 DEF DueInv, Owned
  <2> QED
    BY <2>3, <2>5, <2>9 DEF DueInv
<1>10. CASE /\ stage[l] # "dropped" /\ e.of # "power" /\ stage' = [stage EXCEPT ![l] = "enabled"]
            /\ asking' = {c \in asking : lease[c] # l}
            /\ mail' = [mail EXCEPT ![l] = Tail(@)] /\ UNCHANGED <<waits, inbox>>
  <2>1. stage'[l] = "enabled" /\ \A k \in Leases \ {l} : stage'[k] = stage[k]
    BY <1>10 DEF AwakeInv, AwakeTypeOK
  <2>2. \A k \in Leases \ {l} : mail'[k] = mail[k]
    BY <1>10 DEF AwakeInv, AwakeTypeOK
  <2>3. \A k \in Leases : Attended(k)'
    BY <1>10, <2>1, <2>2 DEF DueInv, Attended
  <2>4. \A k \in Leases : stage'[k] = "gone" => stage[k] = "gone"
    BY <2>1
  <2>5. \A s \in Services : ServiceParted(s)'
    BY <1>1, <1>10, <2>4, ServiceSame DEF DueInv
  <2>6. \A c \in asking' : /\ c \in asking /\ c \in Clients /\ lease[c] \in Leases \ {l}
                           /\ lease[c] # NoLease /\ stage[lease[c]] # "enabled"
    BY <1>7, <1>10 DEF DueInv, Owned
  <2>7. \A c \in Clients : lease[c] \in Leases =>
          stage'[lease[c]] = stage[lease[c]] \/ stage'[lease[c]] = "enabled"
    BY <2>1
  <2>8. \A c \in Clients : lease[c] \in Leases \cup {NoLease}
    BY <1>7
  <2>9. \A c \in asking' : lease[c] # NoLease /\ stage'[lease[c]] # "enabled"
    BY <2>1, <2>6
  <2>10. Owned'
    BY <1>1, <2>7, <2>8, <2>9 DEF DueInv, Owned
  <2> QED
    BY <2>3, <2>5, <2>10 DEF DueInv
<1> QED
  BY <1>6, <1>8, <1>9, <1>10

\* Leases that only get mail.
LEMMA MailDue ==
  ASSUME DueInv, UNCHANGED <<lease, asking, stage>>,
         \A k \in Leases : \/ waits'[k] = waits[k] /\ mail'[k] = mail[k]
                           \/ mail'[k] # <<>>
  PROVE  Owned' /\ \A k \in Leases : Attended(k)'
<1>1. Owned'
  BY DEF DueInv, Owned
<1>2. \A k \in Leases : Attended(k)'
  BY DEF DueInv, Attended
<1> QED
  BY <1>1, <1>2

LEMMA AnswerMail ==
  ASSUME AwakeInv, NEW l \in Leases, NEW s \in Services, NEW e \in MailEvent, Answer(l, s, e)
  PROVE  \A k \in Leases : \/ waits'[k] = waits[k] /\ mail'[k] = mail[k]
                           \/ mail'[k] # <<>>
<1>1. /\ \A k \in Leases \ {l} : waits'[k] = waits[k] /\ mail'[k] = mail[k]
      /\ waits[l] = s => mail'[l] = Append(mail[l], e)
      /\ waits[l] # s => waits'[l] = waits[l] /\ mail'[l] = mail[l]
  BY AnswerTypes
<1>2. mail[l] \in Seq(MailEvent)
  BY DEF AwakeInv, AwakeTypeOK
<1>3. Append(mail[l], e) # <<>>
  BY <1>2, AppendProperties
<1> QED
  BY <1>1, <1>3

\* s has handled the first message of its inbox.  It may have got a new
\* inhibition from a request, and lost those of a connection that ended.
LEMMA InboxDue ==
  ASSUME AwakeInv, DueInv, NEW s \in Services, up[s], inbox[s] # <<>>, UNCHANGED <<stage, up>>,
         inbox' = [inbox EXCEPT ![s] = Tail(@)],
         \A t \in Services \ {s} : held'[t] = held[t],
         \A h \in held'[s] : h \in held[s] \/ Asks(Head(inbox[s]), h.lease),
         \A h \in held'[s] : ~Vanishes(Head(inbox[s]), h.lease)
  PROVE  \A t \in Services : ServiceParted(t)'
<1>1. inbox[s] \in Seq(Message)
  BY DEF AwakeInv, AwakeTypeOK
<1>2. inbox'[s] = Tail(inbox[s]) /\ \A t \in Services \ {s} : inbox'[t] = inbox[t]
  BY DEF AwakeInv, AwakeTypeOK
<1>3. \A t \in Services \ {s} : ServiceParted(t)'
  BY <1>2, ServiceSame DEF DueInv
<1>4. ASSUME NEW l \in Leases, stage[l] = "gone"
      PROVE  LastWord(inbox'[s], l) \/ (Silent(inbox'[s], l) /\ ~Holds(s, l)')
  <2>1. LastWord(inbox[s], l) \/ (Silent(inbox[s], l) /\ ~Holds(s, l))
    BY <1>4 DEF DueInv, ServiceParted, Parted
  <2>2. CASE LastWord(inbox[s], l)
    <3>1. \/ LastWord(inbox'[s], l)
          \/ Silent(inbox'[s], l) /\ Vanishes(Head(inbox[s]), l)
      BY <1>1, <1>2, <2>2, WordsRead
    <3> QED
      BY <3>1 DEF Holds
  <2>3. CASE Silent(inbox[s], l) /\ ~Holds(s, l)
    <3>1. Silent(inbox'[s], l) /\ ~Asks(Head(inbox[s]), l)
      BY <1>1, <1>2, <2>3, WordsRead
    <3> QED
      BY <2>3, <3>1 DEF Holds
  <2> QED
    BY <2>1, <2>2, <2>3
<1>5. ServiceParted(s)'
  BY <1>4 DEF ServiceParted, StoppedEmpty, Parted
<1> QED
  BY <1>3, <1>5

LEMMA RefuseDue ==
  ASSUME AwakeInv, DueInv, NEW s \in Services, Refuse(s)
  PROVE  DueInv'
<1>1. /\ up[s] /\ inbox[s] # <<>> /\ Head(inbox[s]).kind = "inhibit"
      /\ inbox' = [inbox EXCEPT ![s] = Tail(@)]
      /\ UNCHANGED <<lease, asking, stage, up, held>>
  BY DEF Refuse
<1>2. Head(inbox[s]) \in Message
  BY <1>1, InboxTail
<1>3. PICK l \in Head(inbox[s]).from : Answer(l, s, Event("error", s, 0))
  BY DEF Refuse
<1>4. l \in Leases /\ Event("error", s, 0) \in MailEvent
  BY <1>2, EventTypes DEF Message
<1>5. Owned' /\ \A k \in Leases : Attended(k)'
  BY <1>1, <1>3, <1>4, AnswerMail, MailDue
<1>6. \A h \in held'[s] : h \in held[s] /\ ~Vanishes(Head(inbox[s]), h.lease)
  BY <1>1 DEF Vanishes
<1>7. \A t \in Services : ServiceParted(t)'
  BY <1>1, <1>6, InboxDue
<1> QED
  BY <1>5, <1>7 DEF DueInv

LEMMA GrantDue ==
  ASSUME AwakeInv, DueInv, NEW s \in Services, Grant(s)
  PROVE  DueInv'
<1>1. /\ up[s] /\ inbox[s] # <<>> /\ Head(inbox[s]).kind = "inhibit"
      /\ inbox' = [inbox EXCEPT ![s] = Tail(@)]
      /\ UNCHANGED <<lease, asking, stage, up>>
  BY DEF Grant
<1>2. Head(inbox[s]) \in Message
  BY <1>1, InboxTail
<1>3. PICK l \in Head(inbox[s]).from :
        /\ held' = [held EXCEPT ![s] = @ \cup {[cookie |-> issued[s] + 1, lease |-> l]}]
        /\ Answer(l, s, Event("cookie", s, issued[s] + 1))
  BY DEF Grant
<1>4. issued[s] + 1 \in Nat
  BY DEF AwakeInv, AwakeTypeOK
<1>5. l \in Leases /\ Event("cookie", s, issued[s] + 1) \in MailEvent
  BY <1>2, <1>4, EventTypes DEF Message
<1>6. Owned' /\ \A k \in Leases : Attended(k)'
  BY <1>1, <1>3, <1>5, AnswerMail, MailDue
<1>7. /\ held'[s] = held[s] \cup {[cookie |-> issued[s] + 1, lease |-> l]}
      /\ \A t \in Services \ {s} : held'[t] = held[t]
  BY <1>3 DEF AwakeInv, AwakeTypeOK
<1>8. \A h \in held'[s] : h \in held[s] \/ Asks(Head(inbox[s]), h.lease)
  BY <1>1, <1>7 DEF Asks
<1>9. \A h \in held'[s] : ~Vanishes(Head(inbox[s]), h.lease)
  BY <1>1 DEF Vanishes
<1>10. \A t \in Services : ServiceParted(t)'
  BY <1>1, <1>7, <1>8, <1>9, InboxDue
<1> QED
  BY <1>6, <1>10 DEF DueInv

LEMMA ReleaseDue ==
  ASSUME AwakeInv, DueInv, NEW s \in Services, Release(s)
  PROVE  DueInv'
<1> DEFINE m == Head(inbox[s])
<1>1. /\ up[s] /\ inbox[s] # <<>> /\ inbox' = [inbox EXCEPT ![s] = Tail(@)]
      /\ UNCHANGED <<lease, asking, stage, waits, mail, up>>
  BY DEF Release, leaseVars
<1>2. PICK ends : /\ ends = {h \in held[s] : IF m.kind = "vanish" THEN h.lease \in m.from
                                             ELSE h.cookie = m.cookie}
                  /\ held' = [held EXCEPT ![s] = @ \ ends]
  BY DEF Release
<1> HIDE DEF m
<1>3. held'[s] = held[s] \ ends /\ \A t \in Services \ {s} : held'[t] = held[t]
  BY <1>2 DEF AwakeInv, AwakeTypeOK
<1>4. \A h \in held'[s] : h \in held[s] /\ ~Vanishes(m, h.lease)
  BY <1>2, <1>3 DEF Vanishes
<1>5. \A t \in Services : ServiceParted(t)'
  BY <1>1, <1>3, <1>4, InboxDue DEF m
<1>6. Owned' /\ \A k \in Leases : Attended(k)'
  BY <1>1, MailDue
<1> QED
  BY <1>5, <1>6 DEF DueInv

LEMMA ServiceEndsDue ==
  ASSUME AwakeInv, DueInv, NEW s \in Services, ServiceEnds(s)
  PROVE  DueInv'
<1>1. /\ up' = [up EXCEPT ![s] = FALSE] /\ inbox' = [inbox EXCEPT ![s] = <<>>]
      /\ held' = [held EXCEPT ![s] = {}]
      /\ waits' = [l \in Leases |-> IF waits[l] = s THEN "none" ELSE waits[l]]
      /\ UNCHANGED <<lease, asking, stage>>
  BY DEF ServiceEnds
<1>2. mail' = [l \in Leases |->
        (IF Connected(l) THEN Append(mail[l], Event("owner", s, 0)) ELSE mail[l])
        \o (IF waits[l] = s THEN <<Event("error", s, 0)>> ELSE <<>>)]
  BY DEF ServiceEnds
<1>3. ASSUME NEW l \in Leases
      PROVE  (waits'[l] = waits[l] /\ mail'[l] = mail[l]) \/ mail'[l] # <<>>
  <2>1. mail[l] \in Seq(MailEvent) /\ Local(l)
    BY DEF AwakeInv, AwakeTypeOK, LeaseOK
  <2>2. CASE Connected(l)
    <3>1. PICK waited \in BOOLEAN : waited <=> waits[l] = s
      OBVIOUS
    <3>2. mail'[l] = Append(mail[l], Event("owner", s, 0))
                     \o (IF waited THEN <<Event("error", s, 0)>> ELSE <<>>)
      BY <1>2, <2>2, <3>1
    <3>3. Event("owner", s, 0) \in Elems(mail'[l])
      BY <2>1, <3>2, LastNews
    <3> QED
      BY <3>3, EmptyMail
  <2>3. CASE ~Connected(l)
    <3>1. mail[l] = <<>> /\ waits[l] = "none"
      BY <2>1, <2>3 DEF Connected, Local
    <3>2. waits[l] # s
      BY <3>1 DEF Services
    <3>3. mail'[l] = <<>> \o <<>>
      BY <1>2, <2>3, <3>1, <3>2
    <3>4. mail'[l] = mail[l]
      BY <3>1, <3>3, EmptySeq, ConcatEmptySeq
    <3> QED
      BY <1>1, <3>2, <3>4
  <2> QED
    BY <2>2, <2>3
<1>4. Owned' /\ \A k \in Leases : Attended(k)'
  BY <1>1, <1>3, MailDue
<1>5. ASSUME NEW t \in Services PROVE ServiceParted(t)'
  <2>1. CASE t = s
    <3>1. inbox'[s] = <<>> /\ held'[s] = {}
      BY <1>1 DEF AwakeInv, AwakeTypeOK
    <3> QED
      BY <2>1, <3>1 DEF ServiceParted, StoppedEmpty, Parted, Silent, Holds
  <2>2. CASE t # s
    <3>1. inbox'[t] = inbox[t] /\ held'[t] = held[t] /\ up'[t] = up[t]
      BY <1>1, <2>2 DEF AwakeInv, AwakeTypeOK
    <3> QED
      BY <1>1, <3>1, ServiceSame DEF DueInv
  <2> QED
    BY <2>1, <2>2
<1> QED
  BY <1>4, <1>5 DEF DueInv

LEMMA ServiceStartsDue ==
  ASSUME AwakeInv, DueInv, NEW s \in Services, ServiceStarts(s)
  PROVE  DueInv'
<1>1. /\ up' = [up EXCEPT ![s] = TRUE]
      /\ UNCHANGED <<lease, asking, stage, waits, mail, inbox, held>>
  BY DEF ServiceStarts, leaseVars
<1>2. \A t \in Services : up[t] => up'[t]
  BY <1>1 DEF AwakeInv, AwakeTypeOK
<1>3. \A t \in Services : ServiceParted(t)'
  BY <1>1, <1>2 DEF DueInv, ServiceParted, StoppedEmpty, Parted, Holds
<1>4. Owned' /\ \A k \in Leases : Attended(k)'
  BY <1>1, MailDue
<1> QED
  BY <1>3, <1>4 DEF DueInv

LEMMA DueInit ==
  ASSUME AwakeInit
  PROVE  DueInv
<1>1. Owned /\ \A l \in Leases : Attended(l)
  BY DEF AwakeInit, Owned, Attended
<1>2. \A s \in Services : ServiceParted(s)
  BY DEF AwakeInit, ServiceParted, StoppedEmpty, Parted
<1> QED
  BY <1>1, <1>2 DEF DueInv

LEMMA DueKept ==
  ASSUME AwakeInv, DueInv, AwakeNext \/ UNCHANGED awakeVars
  PROVE  DueInv'
<1>1. CASE \E c \in Clients : Enable(c) \/ Disable(c) \/ Leave(c)
  BY <1>1, EnableDue, LeaveDue
<1>2. CASE \E l \in Leases : Handle(l) \/ CallTimeout(l) \/ Delete(l)
  BY <1>2, OwnerChangedDue, GotCookieDue, GotErrorDue, CallTimeoutDue, DeleteDue DEF Handle
<1>3. CASE \E s \in Services : Serve(s) \/ ServiceEnds(s) \/ ServiceStarts(s)
  BY <1>3, GrantDue, RefuseDue, ReleaseDue, ServiceEndsDue, ServiceStartsDue DEF Serve
<1>4. CASE AwakeCrash
  BY <1>4, CrashDue
<1>5. CASE UNCHANGED awakeVars
  <2>1. UNCHANGED <<lease, asking, stage, waits, mail, up, inbox, held>>
    BY <1>5 DEF awakeVars, leaseVars, serviceVars
  <2>2. \A s \in Services : ServiceParted(s)'
    BY <2>1, ServiceSame DEF DueInv
  <2>3. Owned' /\ \A k \in Leases : Attended(k)'
    BY <2>1, MailDue
  <2> QED
    BY <2>2, <2>3 DEF DueInv
<1> QED
  BY <1>1, <1>2, <1>3, <1>4, <1>5 DEF AwakeNext

LEMMA DueImplies ==
  ASSUME AwakeInv, DueInv
  PROVE  AwakeDue
<1>1. ASSUME NEW c \in asking
      PROVE  lease[c] \in Leases /\ (waits[lease[c]] # "none" \/ mail[lease[c]] # <<>>)
  <2>1. lease[c] \in Leases /\ stage[lease[c]] \in {"power", "screen"}
    BY DEF AwakeInv, AwakeTypeOK, DueInv, Owned
  <2> QED
    BY <2>1 DEF DueInv, Attended
<1>2. ASSUME NEW l \in Leases, NEW s \in Services, stage[l] = "gone", Holds(s, l)
      PROVE  \E n \in DOMAIN inbox[s] : Vanishes(inbox[s][n], l)
  BY <1>2 DEF DueInv, ServiceParted, Parted, LastWord
<1> QED
  BY <1>1, <1>2 DEF AwakeDue

-----------------------------------------------------------------------------
(* File operations.                                                        *)

Places(d, t) == {p \in Paths : t \in d[p].has}
Owing(w, t)  == {j \in Jobs : /\ w[j].mode = "move"
                              /\ w[j].state \in {"copying", "removing"}
                              /\ t \in w[j].copied}
Enough(d, w, t) == Cardinality(Owing(w, t)) < Cardinality(Places(d, t))

Forgiven == late \cup blanked \cup replaced

-----------------------------------------------------------------------------
(* Lemmas about counting.                                                  *)

LEMMA PathsFinite == IsFiniteSet(Paths) /\ Sources \subseteq Paths /\ Slots \subseteq Paths
<1>1. IsFiniteSet(Slots)
  BY TransferAssumption, FS_Interval DEF Slots
<1> QED
  BY <1>1, TransferAssumption, FS_Union DEF Paths

LEMMA Finite ==
  ASSUME NEW d, NEW w, NEW t
  PROVE  /\ IsFiniteSet(Places(d, t)) /\ Cardinality(Places(d, t)) \in Nat
         /\ IsFiniteSet(Owing(w, t)) /\ Cardinality(Owing(w, t)) \in Nat
<1>1. Places(d, t) \in SUBSET Paths /\ Owing(w, t) \in SUBSET Jobs
  BY DEF Places, Owing
<1>2. IsFiniteSet(Jobs)
  BY TransferAssumption DEF TransferAssumption
<1>3. IsFiniteSet(Places(d, t)) /\ IsFiniteSet(Owing(w, t))
  BY <1>1, <1>2, PathsFinite, FS_Subset
<1> QED
  BY <1>3, FS_CardinalityType

\* No place less, no debt more.
LEMMA StaysEnough ==
  ASSUME NEW d, NEW w, NEW e, NEW v, NEW t, Enough(d, w, t),
         Places(d, t) \subseteq Places(e, t), Owing(v, t) \subseteq Owing(w, t)
  PROVE  Enough(e, v, t)
<1>1. Cardinality(Places(d, t)) <= Cardinality(Places(e, t))
  BY Finite, FS_Subset
<1>2. Cardinality(Owing(v, t)) <= Cardinality(Owing(w, t))
  BY Finite, FS_Subset
<1> QED
  BY <1>1, <1>2, Finite DEF Enough

LEMMA OneMore ==
  ASSUME NEW S, NEW T, NEW x, IsFiniteSet(T), x \notin S, S \cup {x} \subseteq T
  PROVE  Cardinality(S) + 1 <= Cardinality(T)
<1>1. IsFiniteSet(S) /\ Cardinality(S) \in Nat
  BY FS_Subset, FS_CardinalityType
<1>2. Cardinality(S \cup {x}) = Cardinality(S) + 1
  BY <1>1, FS_AddElement
<1>3. Cardinality(S \cup {x}) <= Cardinality(T)
  BY FS_Subset
<1> QED
  BY <1>2, <1>3

LEMMA AtMostOneMore ==
  ASSUME NEW S, NEW T, NEW x, IsFiniteSet(S), T \subseteq S \cup {x}
  PROVE  Cardinality(T) <= Cardinality(S) + 1
<1>1. IsFiniteSet(S \cup {x})
  BY FS_AddElement
<1>2. Cardinality(T) <= Cardinality(S \cup {x}) /\ IsFiniteSet(T)
  BY <1>1, FS_Subset
<1>3. Cardinality(S \cup {x}) = IF x \in S THEN Cardinality(S) ELSE Cardinality(S) + 1
  BY FS_AddElement
<1>4. Cardinality(S) \in Nat /\ Cardinality(T) \in Nat
  BY <1>2, FS_CardinalityType
<1> QED
  BY <1>2, <1>3, <1>4

\* A copy is a place and a debt more.
LEMMA CopyEnough ==
  ASSUME NEW d, NEW w, NEW e, NEW v, NEW t, NEW p, NEW j, Enough(d, w, t),
         p \notin Places(d, t), Places(d, t) \cup {p} \subseteq Places(e, t),
         Owing(v, t) \subseteq Owing(w, t) \cup {j}
  PROVE  Enough(e, v, t)
<1>1. Cardinality(Places(d, t)) + 1 <= Cardinality(Places(e, t))
  BY Finite, OneMore
<1>2. Cardinality(Owing(v, t)) <= Cardinality(Owing(w, t)) + 1
  BY Finite, AtMostOneMore
<1> QED
  BY <1>1, <1>2, Finite DEF Enough

\* A removal is a place and a debt less.
LEMMA RemovalEnough ==
  ASSUME NEW d, NEW w, NEW e, NEW v, NEW t, NEW p, NEW j, Enough(d, w, t),
         j \in Owing(w, t), Places(d, t) \ {p} \subseteq Places(e, t),
         Owing(v, t) \subseteq Owing(w, t) \ {j}
  PROVE  Enough(e, v, t)
<1>1. Cardinality(Places(d, t)) <= Cardinality(Places(e, t)) + 1
  <2>1. Places(d, t) \subseteq Places(e, t) \cup {p}
    OBVIOUS
  <2> QED
    BY <2>1, Finite, AtMostOneMore
<1>2. Cardinality(Owing(v, t)) + 1 <= Cardinality(Owing(w, t))
  <2>1. j \notin Owing(v, t) /\ Owing(v, t) \cup {j} \subseteq Owing(w, t)
    OBVIOUS
  <2> QED
    BY <2>1, Finite, OneMore
<1> QED
  BY <1>1, <1>2, Finite DEF Enough

\* A rename moves a place.
LEMMA RenameEnough ==
  ASSUME NEW d, NEW w, NEW e, NEW v, NEW t, NEW p, NEW q, Enough(d, w, t),
         p \in Places(d, t), q \notin Places(d, t),
         (Places(d, t) \ {p}) \cup {q} \subseteq Places(e, t),
         Owing(v, t) \subseteq Owing(w, t)
  PROVE  Enough(e, v, t)
<1> DEFINE R == Places(d, t) \ {p}
<1>1. IsFiniteSet(R) /\ Cardinality(R) = Cardinality(Places(d, t)) - 1 /\ q \notin R
  BY Finite, FS_RemoveElement
<1> HIDE DEF R
<1>2. Cardinality(R \cup {q}) = Cardinality(R) + 1
  BY <1>1, FS_AddElement
<1>3. R \cup {q} \in SUBSET Places(e, t)
  BY DEF R
<1>4. Cardinality(R \cup {q}) <= Cardinality(Places(e, t))
  BY <1>3, Finite, FS_Subset
<1>5. Cardinality(Owing(v, t)) <= Cardinality(Owing(w, t))
  BY Finite, FS_Subset
<1> QED
  BY <1>1, <1>2, <1>4, <1>5, Finite DEF Enough
-----------------------------------------------------------------------------
(* The invariant of the files.                                             *)

JobRecord == [state : {"new", "choosing", "placing", "copying", "removing",
                       "reading", "writing", "done", "failed"},
              mode : {"copy", "move", "replace"}, todo : Seq(Sources),
              to : Slots \cup {NoSlot}, copied : SUBSET Things, listed : SUBSET Things]
Item == [kind : {"none", "file", "folder"}, has : SUBSET Things]

Owes(r, t) == r.mode = "move" /\ r.state \in {"copying", "removing"} /\ t \in r.copied

\* A job that goes on has a source and, after its choice, a slot.  What is
\* removed after a folder was copied is only what was copied.
Sane(r) ==
  /\ r \in JobRecord
  /\ r.state \notin {"new", "done", "failed"} => Len(r.todo) > 0
  /\ r.state \in {"placing", "copying", "removing", "reading", "writing"} => r.to \in Slots
  /\ r.state \in {"choosing", "placing"} => r.copied = {} /\ r.listed = {}
  /\ r.state = "removing" => r.mode = "move" /\ r.listed \subseteq r.copied
  /\ r.copied \subseteq made

JobsInv   == job \in [Jobs -> JobRecord] /\ \A j \in Jobs : Sane(job[j])
DiskInv   == /\ disk \in [Paths -> Item]
             /\ \A p \in Paths : disk[p].kind = "none" => disk[p].has = {}
             /\ \A p \in Paths : disk[p].has \subseteq made
OthersInv == /\ creating \in Slots \cup {NoSlot} /\ made \subseteq Things
             /\ late \subseteq Things /\ blanked \subseteq Things /\ replaced \subseteq Things
             /\ others \in 0 .. MaxOthers
Counted   == \A t \in made \ Forgiven : Enough(disk, job, t)

FilesInv == JobsInv /\ DiskInv /\ OthersInv /\ Counted

LEMMA OwingJobs ==
  ASSUME NEW w, NEW t
  PROVE  Owing(w, t) = {j \in Jobs : Owes(w[j], t)}
  BY DEF Owing, Owes

\* A job changes its record.
LEMMA SetJob ==
  ASSUME JobsInv, NEW j \in Jobs, NEW r, Set(j, r), made' = made, Sane(r)
  PROVE  /\ JobsInv'
         /\ \A t : Owing(job', t) \subseteq Owing(job, t) \cup {j}
         /\ \A t : ~Owes(r, t) => Owing(job', t) \subseteq Owing(job, t) \ {j}
         /\ \A t : (Owes(r, t) => Owes(job[j], t)) => Owing(job', t) \subseteq Owing(job, t)
<1>1. job' = [job EXCEPT ![j] = r] /\ job \in [Jobs -> JobRecord] /\ r \in JobRecord
  BY DEF Set, JobsInv, Sane
<1>2. job' \in [Jobs -> JobRecord] /\ job'[j] = r /\ \A k \in Jobs \ {j} : job'[k] = job[k]
  BY <1>1
<1>3. \A k \in Jobs : Sane(job[k])
  BY DEF JobsInv
<1>4. \A k \in Jobs : Sane(job'[k])
  BY <1>2, <1>3
<1>5. \A k \in Jobs : Sane(job[k])'
  BY <1>4 DEF Sane
<1>6. JobsInv'
  BY <1>2, <1>5 DEF JobsInv
<1>7. \A t : Owing(job', t) = {k \in Jobs : Owes(job'[k], t)}
             /\ Owing(job, t) = {k \in Jobs : Owes(job[k], t)}
  BY OwingJobs
<1> QED
  BY <1>2, <1>6, <1>7

LEMMA HeadTail ==
  ASSUME NEW S, NEW q \in Seq(S), Len(q) > 0
  PROVE  /\ Head(q) \in S /\ Tail(q) \in Seq(S)
         /\ Len(q) \in Nat /\ Len(Tail(q)) = Len(q) - 1
<1>1. q # <<>> /\ Len(q) \in Nat
  BY EmptySeq, LenProperties
<1> QED
  BY <1>1, HeadTailProperties

LEMMA NextPathSane ==
  ASSUME NEW r, Sane(r), r.state \notin {"new", "done", "failed"}
  PROVE  Sane(NextPath(r)) /\ \A t : ~Owes(NextPath(r), t)
<1>1. r.todo \in Seq(Sources) /\ Len(r.todo) > 0 /\ r \in JobRecord
  BY DEF Sane, JobRecord
<1>2. Tail(r.todo) \in Seq(Sources) /\ (Len(r.todo) # 1 => Len(Tail(r.todo)) > 0)
  <2> DEFINE q == r.todo
  <2>1. q \in Seq(Sources) /\ Len(q) > 0
    BY <1>1
  <2> HIDE DEF q
  <2>2. Tail(q) \in Seq(Sources) /\ Len(q) \in Nat /\ Len(Tail(q)) = Len(q) - 1
    BY <2>1, HeadTail
  <2>3. Len(q) # 1 => Len(Tail(q)) > 0
    BY <2>1, <2>2
  <2> QED
    BY <2>2, <2>3 DEF q
<1>3. NextPath(r) \in JobRecord
  BY <1>1, <1>2 DEF NextPath, Path, JobRecord
<1> QED
  BY <1>2, <1>3 DEF NextPath, Path, Sane, Owes

LEMMA FailedSane ==
  ASSUME NEW r, Sane(r)
  PROVE  /\ Sane([r EXCEPT !.state = "failed"])
         /\ \A t : ~Owes([r EXCEPT !.state = "failed"], t)
<1>1. [r EXCEPT !.state = "failed"] \in JobRecord
  BY DEF Sane, JobRecord
<1>2. r \in JobRecord
  BY DEF Sane
<1>3. /\ [r EXCEPT !.state = "failed"].state = "failed"
      /\ [r EXCEPT !.state = "failed"].copied = r.copied
  BY <1>2 DEF JobRecord
<1> QED
  BY <1>1, <1>3 DEF Sane, Owes

-----------------------------------------------------------------------------
(* Steps of a job.                                                         *)

\* A step that leaves the disk alone and takes on no debt.
LEMMA SameDisk ==
  ASSUME FilesInv, NEW j \in Jobs, NEW r, Set(j, r), Sane(r),
         \A t : Owes(r, t) => Owes(job[j], t),
         UNCHANGED <<disk, creating, made, late, blanked, replaced, others>>
  PROVE  FilesInv'
<1>1. JobsInv' /\ \A t : Owing(job', t) \subseteq Owing(job, t)
  BY SetJob DEF FilesInv
<1>2. DiskInv' /\ OthersInv'
  BY DEF FilesInv, DiskInv, OthersInv
<1>3. ASSUME NEW t \in made', t \notin Forgiven' PROVE Enough(disk', job', t)
  <2>1. Enough(disk, job, t)
    BY <1>3 DEF FilesInv, Counted, Forgiven
  <2> QED
    BY <2>1, <1>1, StaysEnough
<1> QED
  BY <1>1, <1>2, <1>3 DEF FilesInv, Counted, Enough, Places, Owing

LEMMA FailSame ==
  ASSUME FilesInv, NEW j \in Jobs, Fails(j),
         UNCHANGED <<disk, creating, made, late, blanked, replaced, others>>
  PROVE  FilesInv'
<1> DEFINE r == [job[j] EXCEPT !.state = "failed"]
<1>1. Sane(job[j])
  BY DEF FilesInv, JobsInv
<1>2. Sane(r) /\ \A t : ~Owes(r, t)
  BY <1>1, FailedSane
<1>3. Set(j, r)
  BY DEF Fails
<1> HIDE DEF r
<1> QED
  BY <1>2, <1>3, SameDisk

LEMMA TakeSafe ==
  ASSUME FilesInv, NEW j \in Jobs, Take(j)
  PROVE  FilesInv'
<1>1. PICK s \in {"choosing", "reading"}, m \in {"copy", "move", "replace"},
           q \in Seq(Sources), n \in Slots \cup {NoSlot} :
         /\ Set(j, Path(s, m, q, n))
         /\ Len(q) > 0 /\ (s = "reading" => n \in Slots)
  <2>1. CASE \E m \in {"copy", "move"}, p, q \in Sources :
               Set(j, Path("choosing", m, IF p = q THEN <<p>> ELSE <<p, q>>, NoSlot))
    <3>1. PICK m \in {"copy", "move"}, p \in Sources, q \in Sources :
            Set(j, Path("choosing", m, IF p = q THEN <<p>> ELSE <<p, q>>, NoSlot))
      BY <2>1
    <3> DEFINE todo == IF p = q THEN <<p>> ELSE <<p, q>>
    <3>2. todo \in Seq(Sources) /\ Len(todo) > 0
      OBVIOUS
    <3>3. Set(j, Path("choosing", m, todo, NoSlot))
      BY <3>1
    <3> HIDE DEF todo
    <3> QED
      BY <3>2, <3>3
  <2>2. CASE \E p \in Sources, n \in Slots : Set(j, Path("reading", "replace", <<p>>, n))
    <3>1. PICK p \in Sources, n \in Slots : Set(j, Path("reading", "replace", <<p>>, n))
      BY <2>2
    <3>2. <<p>> \in Seq(Sources) /\ Len(<<p>>) > 0
      OBVIOUS
    <3> QED
      BY <3>1, <3>2
  <2> QED
    BY <2>1, <2>2 DEF Take
<1>2. Sane(Path(s, m, q, n))
  BY <1>1 DEF Sane, JobRecord, Path
<1>3. \A t : ~Owes(Path(s, m, q, n), t)
  BY DEF Owes, Path
<1> QED
  BY <1>1, <1>2, <1>3, SameDisk DEF Take

LEMMA ChooseSafe ==
  ASSUME FilesInv, NEW j \in Jobs, Choose(j)
  PROVE  FilesInv'
<1>1. CASE Fails(j)
  BY <1>1, FailSame DEF Choose
<1>2. ASSUME NEW n \in Slots, Set(j, [job[j] EXCEPT !.to = n, !.state = "placing"])
      PROVE  FilesInv'
  <2> DEFINE r == [job[j] EXCEPT !.to = n, !.state = "placing"]
  <2>1. Sane(job[j]) /\ job[j].state = "choosing"
    BY DEF FilesInv, JobsInv, Choose
  <2>2. Sane(r) /\ \A t : ~Owes(r, t)
    BY <2>1 DEF Sane, JobRecord, Owes
  <2> HIDE DEF r
  <2>3. Set(j, r)
    BY <1>2 DEF r
  <2> QED
    BY <2>2, <2>3, SameDisk DEF Choose
<1> QED
  BY <1>1, <1>2 DEF Choose

LEMMA EndCopySafe ==
  ASSUME FilesInv, NEW j \in Jobs, EndCopy(j)
  PROVE  FilesInv'
<1>1. Sane(job[j]) /\ job[j].state = "copying"
  BY DEF FilesInv, JobsInv, EndCopy
<1>2. UNCHANGED <<disk, creating, made, late, blanked, replaced, others>>
  BY DEF EndCopy
<1>3. CASE job[j].mode = "move"
  <2> DEFINE l == job[j].listed \cap disk[From(j)].has
             r == [job[j] EXCEPT !.state = "removing", !.listed = l]
  <2>1. Set(j, r) /\ l \subseteq job[j].copied
    BY <1>3 DEF EndCopy
  <2>2. l \subseteq Things
    BY <1>1 DEF Sane, JobRecord
  <2> HIDE DEF l
  <2>3. Sane(r) /\ \A t : Owes(r, t) => Owes(job[j], t)
    BY <1>1, <1>3, <2>1, <2>2 DEF Sane, JobRecord, Owes
  <2> HIDE DEF r
  <2> QED
    BY <2>1, <2>3, <1>2, SameDisk
<1>4. CASE job[j].mode # "move"
  <2>1. Set(j, NextPath(job[j]))
    BY <1>4 DEF EndCopy
  <2> QED
    BY <2>1, <1>1, <1>2, NextPathSane, SameDisk
<1> QED
  BY <1>3, <1>4

LEMMA ReadSourceSafe ==
  ASSUME FilesInv, NEW j \in Jobs, ReadSource(j)
  PROVE  FilesInv'
<1>1. Sane(job[j]) /\ job[j].state = "reading"
  BY DEF FilesInv, JobsInv, ReadSource
<1> DEFINE c == disk[From(j)].has
           r == [job[j] EXCEPT !.state = "writing", !.copied = c]
<1>2. c \subseteq made /\ c \subseteq Things
  <2>1. From(j) \in Paths
    BY <1>1, HeadTail, PathsFinite DEF From, Sane, JobRecord
  <2> QED
    BY <2>1 DEF FilesInv, DiskInv, Item
<1> HIDE DEF c
<1>3. Sane(r) /\ \A t : ~Owes(r, t)
  BY <1>1, <1>2 DEF Sane, JobRecord, Owes
<1>4. Set(j, r)
  BY DEF ReadSource, c
<1> HIDE DEF r
<1> QED
  BY <1>3, <1>4, SameDisk DEF ReadSource

LEMMA JobAt ==
  ASSUME FilesInv, NEW j \in Jobs,
         job[j].state \in {"placing", "copying", "removing", "reading", "writing"}
  PROVE  /\ Sane(job[j]) /\ From(j) \in Paths /\ job[j].to \in Paths
         /\ From(j) # job[j].to
<1>1. Sane(job[j])
  BY DEF FilesInv, JobsInv
<1> DEFINE q == job[j].todo
<1>2. q \in Seq(Sources) /\ Len(q) > 0 /\ job[j].to \in Slots
  BY <1>1 DEF Sane, JobRecord
<1> HIDE DEF q
<1>3. Head(q) \in Sources
  BY <1>2, HeadTail
<1> QED
  BY <1>1, <1>2, <1>3, PathsFinite, TransferAssumption DEF From, q

\* What stood at p stands at q.
LEMMA MoveSafe ==
  ASSUME FilesInv, NEW p \in Paths, NEW q \in Paths, disk[p] # Nothing, disk[q] = Nothing,
         disk' = [disk EXCEPT ![p] = Nothing, ![q] = disk[p]],
         UNCHANGED <<made, late, blanked, replaced>>,
         \A t : Owing(job', t) \subseteq Owing(job, t)
  PROVE  DiskInv' /\ Counted'
<1>1. /\ disk \in [Paths -> Item] /\ disk' \in [Paths -> Item] /\ p # q
      /\ disk'[p] = Nothing /\ disk'[q] = disk[p]
      /\ \A x \in Paths \ {p, q} : disk'[x] = disk[x]
  BY DEF FilesInv, DiskInv, Item, Nothing
<1>2. DiskInv'
  BY <1>1 DEF FilesInv, DiskInv, Nothing
<1>3. ASSUME NEW t \in made', t \notin Forgiven' PROVE Enough(disk', job', t)
  <2>1. Enough(disk, job, t)
    BY <1>3 DEF FilesInv, Counted, Forgiven
  <2>2. q \notin Places(disk, t)
    BY DEF Places, Nothing
  <2>3. CASE p \in Places(disk, t)
    <3>1. (Places(disk, t) \ {p}) \cup {q} \subseteq Places(disk', t)
      BY <2>3, <1>1 DEF Places
    <3> QED
      BY <3>1, <2>1, <2>2, <2>3, RenameEnough
  <2>4. CASE p \notin Places(disk, t)
    <3>1. Places(disk, t) \subseteq Places(disk', t)
      BY <2>2, <2>4, <1>1 DEF Places
    <3> QED
      BY <3>1, <2>1, StaysEnough
  <2> QED
    BY <2>3, <2>4
<1> QED
  BY <1>2, <1>3 DEF Counted, Enough, Places, Owing

LEMMA RenameSafe ==
  ASSUME FilesInv, NEW j \in Jobs, Rename(j)
  PROVE  FilesInv'
<1>1. /\ Sane(job[j]) /\ From(j) \in Paths /\ job[j].to \in Paths
  BY JobAt DEF Rename
<1>2. /\ Set(j, NextPath(job[j])) /\ job[j].state = "placing"
      /\ disk[From(j)] # Nothing /\ disk[job[j].to] = Nothing
      /\ disk' = [disk EXCEPT ![From(j)] = Nothing, ![job[j].to] = disk[From(j)]]
      /\ UNCHANGED <<creating, made, late, blanked, replaced, others>>
  BY DEF Rename, Vacant
<1>3. Sane(NextPath(job[j])) /\ \A t : ~Owes(NextPath(job[j]), t)
  BY <1>1, <1>2, NextPathSane
<1>4. JobsInv' /\ \A t : Owing(job', t) \subseteq Owing(job, t)
  BY <1>2, <1>3, SetJob DEF FilesInv
<1>5. DiskInv' /\ Counted'
  BY <1>1, <1>2, <1>4, MoveSafe
<1>6. OthersInv'
  BY <1>2 DEF FilesInv, OthersInv
<1> QED
  BY <1>4, <1>5, <1>6 DEF FilesInv

\* The path p gets x, which has all that p had and is known.
LEMMA GrowInv ==
  ASSUME DiskInv, NEW p \in Paths, NEW x \in Item, disk' = [disk EXCEPT ![p] = x],
         x.kind # "none", disk[p].has \subseteq x.has, x.has \subseteq made',
         made \subseteq made'
  PROVE  /\ DiskInv'
         /\ \A t : Places(disk, t) \subseteq Places(disk', t)
         /\ \A t \in x.has : p \in Places(disk', t)
<1>1. /\ disk \in [Paths -> Item] /\ disk' \in [Paths -> Item]
      /\ disk'[p] = x /\ \A y \in Paths \ {p} : disk'[y] = disk[y]
  BY DEF DiskInv
<1>2. DiskInv'
  BY <1>1 DEF DiskInv
<1> QED
  BY <1>1, <1>2 DEF Places

LEMMA CopyFileSafe ==
  ASSUME FilesInv, NEW j \in Jobs, CopyFile(j)
  PROVE  FilesInv'
<1> DEFINE p == From(j)
           q == job[j].to
           x == disk[p]
           m == [job[j] EXCEPT !.state = "removing", !.copied = x.has]
           r == IF job[j].mode = "move" THEN m ELSE NextPath(job[j])
<1>1. Sane(job[j]) /\ p \in Paths /\ q \in Paths
  BY JobAt DEF CopyFile
<1>2. /\ Set(j, r) /\ job[j].state = "placing" /\ x.kind = "file"
      /\ disk[q] = Nothing /\ disk' = [disk EXCEPT ![q] = x]
      /\ UNCHANGED <<creating, made, late, blanked, replaced, others>>
  BY DEF CopyFile, Vacant
<1>3. x \in Item /\ x.has \subseteq made /\ x.has \subseteq Things
  BY <1>1 DEF FilesInv, DiskInv, Item
<1> HIDE DEF p, q, x
<1>4. Sane(r) /\ \A t : Owes(r, t) => t \in x.has
  <2>1. CASE job[j].mode = "move"
    BY <2>1, <1>1, <1>2, <1>3 DEF Sane, JobRecord, Owes
  <2>2. CASE job[j].mode # "move"
    BY <2>2, <1>1, <1>2, NextPathSane
  <2> QED
    BY <2>1, <2>2
<1> HIDE DEF r
<1>5. /\ JobsInv' /\ \A t : Owing(job', t) \subseteq Owing(job, t) \cup {j}
      /\ \A t : ~Owes(r, t) => Owing(job', t) \subseteq Owing(job, t)
  BY <1>2, <1>4, SetJob DEF FilesInv
<1>6. /\ DiskInv' /\ \A t : Places(disk, t) \subseteq Places(disk', t)
      /\ \A t \in x.has : q \in Places(disk', t)
  <2>1. DiskInv /\ disk[q].has \subseteq x.has /\ x.kind # "none"
        /\ x.has \subseteq made' /\ made \subseteq made'
    BY <1>2, <1>3 DEF FilesInv, Nothing
  <2> QED
    BY <2>1, <1>1, <1>2, <1>3, GrowInv
<1>7. ASSUME NEW t \in made', t \notin Forgiven' PROVE Enough(disk', job', t)
  <2>1. Enough(disk, job, t)
    BY <1>2, <1>7 DEF FilesInv, Counted, Forgiven
  <2>2. CASE t \in x.has
    <3>1. q \notin Places(disk, t)
      BY <1>2 DEF Places, Nothing
    <3>2. Places(disk, t) \cup {q} \subseteq Places(disk', t)
      BY <2>2, <1>6
    <3>3. Owing(job', t) \subseteq Owing(job, t) \cup {j}
      BY <1>5
    <3> QED
      BY <2>1, <3>1, <3>2, <3>3, CopyEnough
  <2>3. CASE t \notin x.has
    BY <2>1, <2>3, <1>4, <1>5, <1>6, StaysEnough
  <2> QED
    BY <2>2, <2>3
<1>8. Counted'
  BY <1>7 DEF Counted, Enough, Places, Owing
<1>9. OthersInv'
  BY <1>2 DEF FilesInv, OthersInv
<1> QED
  BY <1>5, <1>6, <1>8, <1>9 DEF FilesInv

LEMMA MakeFolderSafe ==
  ASSUME FilesInv, NEW j \in Jobs, MakeFolder(j)
  PROVE  FilesInv'
<1> DEFINE p == From(j)
           q == job[j].to
           l == disk[p].has
           x == [kind |-> "folder", has |-> {}]
           r == [job[j] EXCEPT !.state = "copying", !.listed = l]
<1>1. Sane(job[j]) /\ p \in Paths /\ q \in Paths
  BY JobAt DEF MakeFolder
<1>2. /\ Set(j, r) /\ job[j].state = "placing"
      /\ disk[q] = Nothing /\ disk' = [disk EXCEPT ![q] = x]
      /\ UNCHANGED <<creating, made, late, blanked, replaced, others>>
  BY DEF MakeFolder, Vacant
<1>3. l \subseteq Things /\ x \in Item
  BY <1>1 DEF FilesInv, DiskInv, Item
<1> HIDE DEF p, q, l
<1>4. Sane(r) /\ \A t : ~Owes(r, t)
  BY <1>1, <1>2, <1>3 DEF Sane, JobRecord, Owes
<1> HIDE DEF r
<1>5. JobsInv' /\ \A t : Owing(job', t) \subseteq Owing(job, t)
  BY <1>2, <1>4, SetJob DEF FilesInv
<1>6. /\ DiskInv' /\ \A t : Places(disk, t) \subseteq Places(disk', t)
  <2>1. DiskInv /\ disk[q].has \subseteq x.has /\ x.kind # "none"
        /\ x.has \subseteq made' /\ made \subseteq made'
    BY <1>2 DEF FilesInv, Nothing
  <2> QED
    BY <2>1, <1>1, <1>2, <1>3, GrowInv
<1>7. Counted'
  <2>1. ASSUME NEW t \in made', t \notin Forgiven' PROVE Enough(disk', job', t)
    <3>1. Enough(disk, job, t)
      BY <1>2, <2>1 DEF FilesInv, Counted, Forgiven
    <3> QED
      BY <3>1, <1>5, <1>6, StaysEnough
  <2> QED
    BY <2>1 DEF Counted, Enough, Places, Owing
<1>8. OthersInv'
  BY <1>2 DEF FilesInv, OthersInv
<1> QED
  BY <1>5, <1>6, <1>7, <1>8 DEF FilesInv

LEMMA CopyEntrySafe ==
  ASSUME FilesInv, NEW j \in Jobs, CopyEntry(j)
  PROVE  FilesInv'
<1> DEFINE p == From(j)
           q == job[j].to
<1>1. Sane(job[j]) /\ p \in Paths /\ q \in Paths
  BY JobAt DEF CopyEntry
<1>2. PICK t \in disk[p].has \ (job[j].copied \cup disk[q].has) :
        /\ disk' = [disk EXCEPT ![q].has = @ \cup {t}]
        /\ Set(j, [job[j] EXCEPT !.copied = @ \cup {t}])
  BY DEF CopyEntry
<1> DEFINE c == job[j].copied \cup {t}
           r == [job[j] EXCEPT !.copied = c]
           x == [disk[q] EXCEPT !.has = @ \cup {t}]
<1>3. /\ Set(j, r) /\ disk' = [disk EXCEPT ![q] = x] /\ job[j].state = "copying"
      /\ disk[q].kind = "folder" /\ UNCHANGED <<creating, made, late, blanked, replaced, others>>
  BY <1>2, <1>1 DEF CopyEntry, FilesInv, DiskInv
<1>4. t \in made /\ t \in Things /\ disk[q] \in Item /\ disk[q].has \subseteq made
  BY <1>1, <1>2 DEF FilesInv, DiskInv, Item
<1>5. x \in Item /\ x.has = disk[q].has \cup {t} /\ x.kind = "folder"
  BY <1>3, <1>4 DEF Item
<1>6. c \subseteq made /\ c \subseteq Things
  BY <1>1, <1>4 DEF Sane, JobRecord
<1>7. Sane(r) /\ \A u : Owes(r, u) => u = t \/ Owes(job[j], u)
  <2>1. job[j] \in JobRecord /\ r \in JobRecord /\ r.copied = c
    BY <1>1, <1>6 DEF Sane, JobRecord
  <2>2. r.state = "copying" /\ r.mode = job[j].mode /\ r.todo = job[j].todo
        /\ r.to = job[j].to
    BY <1>3, <2>1 DEF JobRecord
  <2> HIDE DEF r
  <2> QED
    BY <1>1, <1>3, <1>6, <2>1, <2>2 DEF Sane, Owes
<1> HIDE DEF p, q, c, r, x
<1>8. /\ JobsInv' /\ \A u : Owing(job', u) \subseteq Owing(job, u) \cup {j}
      /\ \A u : u # t => Owing(job', u) \subseteq Owing(job, u)
  BY <1>3, <1>7, SetJob DEF FilesInv
<1>9. /\ DiskInv' /\ \A u : Places(disk, u) \subseteq Places(disk', u)
      /\ q \in Places(disk', t) /\ q \notin Places(disk, t)
  <2>1. DiskInv /\ disk[q].has \subseteq x.has /\ x.kind # "none"
        /\ x.has \subseteq made' /\ made \subseteq made' /\ t \in x.has
    BY <1>3, <1>4, <1>5 DEF FilesInv
  <2>2. t \notin disk[q].has
    BY <1>2
  <2>3. /\ DiskInv' /\ \A u : Places(disk, u) \subseteq Places(disk', u)
        /\ q \in Places(disk', t)
    BY <2>1, <1>1, <1>3, <1>5, GrowInv
  <2> QED
    BY <2>2, <2>3 DEF Places
<1>10. Counted'
  <2>1. ASSUME NEW u \in made', u \notin Forgiven' PROVE Enough(disk', job', u)
    <3>1. Enough(disk, job, u)
      BY <1>3, <2>1 DEF FilesInv, Counted, Forgiven
    <3>2. CASE u = t
      <4>1. Places(disk, u) \cup {q} \subseteq Places(disk', u) /\ q \notin Places(disk, u)
        BY <1>9, <3>2
      <4>2. Owing(job', u) \subseteq Owing(job, u) \cup {j}
        BY <1>8
      <4> QED
        BY <3>1, <4>1, <4>2, CopyEnough
    <3>3. CASE u # t
      BY <3>1, <3>3, <1>8, <1>9, StaysEnough
    <3> QED
      BY <3>2, <3>3
  <2> QED
    BY <2>1 DEF Counted, Enough, Places, Owing
<1>11. OthersInv'
  BY <1>3 DEF FilesInv, OthersInv
<1> QED
  BY <1>8, <1>9, <1>10, <1>11 DEF FilesInv

\* Something is taken away from p, or all of it: the job that ends had copied
\* it, or it is forgiven.
LEMMA RemovalSafe ==
  ASSUME FilesInv, NEW j \in Jobs, NEW r, Set(j, r), Sane(r), \A t : ~Owes(r, t),
         job[j].state = "removing",
         NEW x \in Item, x.has \subseteq disk[From(j)].has, x.kind = "none" => x.has = {},
         disk' = [disk EXCEPT ![From(j)] = x],
         late' = late \cup (Strangers(j) \ x.has),
         UNCHANGED <<creating, made, blanked, replaced, others>>
  PROVE  FilesInv'
<1> DEFINE p == From(j)
<1>1. Sane(job[j]) /\ p \in Paths /\ job[j].mode = "move"
  BY JobAt DEF Sane
<1> HIDE DEF p
<1>2. /\ disk \in [Paths -> Item] /\ disk' \in [Paths -> Item]
      /\ disk'[p] = x /\ \A y \in Paths \ {p} : disk'[y] = disk[y]
  BY <1>1 DEF FilesInv, DiskInv, p
<1>3. DiskInv'
  BY <1>1, <1>2 DEF FilesInv, DiskInv, p
<1>4. /\ JobsInv' /\ \A t : Owing(job', t) \subseteq Owing(job, t) \ {j}
  BY SetJob DEF FilesInv
<1>5. OthersInv'
  <2>1. Strangers(j) \subseteq Things
    BY <1>1, <1>2 DEF Strangers, Item, p
  <2> QED
    BY <2>1 DEF FilesInv, OthersInv
<1>6. ASSUME NEW t \in made', t \notin Forgiven' PROVE Enough(disk', job', t)
  <2>1. Enough(disk, job, t) /\ t \notin Strangers(j) \ x.has
    BY <1>6 DEF FilesInv, Counted, Forgiven
  <2>2. Places(disk, t) \ {p} \subseteq Places(disk', t)
    BY <1>2 DEF Places
  <2>3. CASE t \in job[j].copied
    <3>1. j \in Owing(job, t)
      BY <1>1, <2>3 DEF Owing
    <3> QED
      BY <2>1, <2>2, <3>1, <1>4, RemovalEnough
  <2>4. CASE t \notin job[j].copied
    <3>1. t \in disk[p].has => t \in x.has
      BY <1>1, <2>1, <2>4 DEF Strangers, Sane, p
    <3>2. Places(disk, t) \subseteq Places(disk', t)
      BY <3>1, <2>2, <1>1, <1>2 DEF Places
    <3> QED
      BY <2>1, <3>2, <1>4, StaysEnough
  <2> QED
    BY <2>3, <2>4
<1>7. Counted'
  BY <1>6 DEF Counted, Enough, Places, Owing
<1> QED
  BY <1>3, <1>4, <1>5, <1>7 DEF FilesInv

LEMMA RemoveSourceSafe ==
  ASSUME FilesInv, NEW j \in Jobs, RemoveSource(j)
  PROVE  FilesInv'
<1>1. Sane(job[j]) /\ job[j].state = "removing"
  BY JobAt DEF RemoveSource
<1>2. Sane(NextPath(job[j])) /\ \A t : ~Owes(NextPath(job[j]), t)
  BY <1>1, NextPathSane
<1>3. Nothing \in Item /\ Nothing.has = {}
  BY DEF Nothing, Item
<1>4. /\ Set(j, NextPath(job[j])) /\ disk' = [disk EXCEPT ![From(j)] = Nothing]
      /\ late' = late \cup (Strangers(j) \ Nothing.has)
      /\ UNCHANGED <<creating, made, blanked, replaced, others>>
  BY <1>3 DEF RemoveSource
<1> QED
  BY <1>1, <1>2, <1>3, <1>4, RemovalSafe

LEMMA FailSafe ==
  ASSUME FilesInv, NEW j \in Jobs, Fail(j)
  PROVE  FilesInv'
<1>1. Fails(j) /\ UNCHANGED <<creating, made, blanked, replaced, others>>
  BY DEF Fail
<1>2. CASE job[j].state # "removing"
  BY <1>1, <1>2, FailSame DEF Fail
<1>3. CASE job[j].state = "removing"
  <2> DEFINE p == From(j)
             r == [job[j] EXCEPT !.state = "failed"]
  <2>1. Sane(job[j]) /\ p \in Paths /\ disk[p] \in Item
    BY <1>3, JobAt DEF FilesInv, DiskInv
  <2>2. PICK left \in SUBSET disk[p].has :
          /\ disk' = [disk EXCEPT ![p].has = left]
          /\ late' = late \cup (Strangers(j) \ left)
    BY <1>3 DEF Fail
  <2> DEFINE x == [disk[p] EXCEPT !.has = left]
  <2>3. x \in Item /\ x.has = left /\ x.kind = disk[p].kind
    BY <2>1 DEF Item
  <2>4. disk' = [disk EXCEPT ![p] = x]
    BY <2>1, <2>2 DEF FilesInv, DiskInv
  <2>5. x.kind = "none" => x.has = {}
    BY <2>1, <2>2, <2>3 DEF FilesInv, DiskInv
  <2>6. Sane(r) /\ (\A t : ~Owes(r, t)) /\ Set(j, r)
    BY <2>1, <1>1, FailedSane DEF Fails
  <2> HIDE DEF x, r
  <2> QED
    BY <1>1, <1>3, <2>2, <2>3, <2>4, <2>5, <2>6, RemovalSafe
<1> QED
  BY <1>2, <1>3

\* A step that keeps every place, but for what it forgives.
LEMMA KeepSafe ==
  ASSUME FilesInv, made' = made, Forgiven \subseteq Forgiven',
         \A t \in made \ Forgiven' : Places(disk, t) \subseteq Places(disk', t),
         \A t : Owing(job', t) \subseteq Owing(job, t)
  PROVE  Counted'
<1>1. ASSUME NEW t \in made', t \notin Forgiven' PROVE Enough(disk', job', t)
  <2>1. Enough(disk, job, t)
    BY <1>1 DEF FilesInv, Counted
  <2> QED
    BY <1>1, <2>1, StaysEnough
<1> QED
  BY <1>1 DEF Counted, Enough, Places, Owing

LEMMA CommitSafe ==
  ASSUME FilesInv, NEW j \in Jobs, Commit(j)
  PROVE  FilesInv'
<1> DEFINE q == job[j].to
           x == [kind |-> "file", has |-> job[j].copied]
<1>1. Sane(job[j]) /\ q \in Paths
  BY JobAt DEF Commit
<1>2. /\ Set(j, NextPath(job[j])) /\ job[j].state = "writing"
      /\ disk' = [disk EXCEPT ![q] = x]
      /\ replaced' = replaced \cup (disk[q].has \ job[j].copied)
      /\ UNCHANGED <<creating, made, late, blanked, others>>
  BY DEF Commit
<1>3. x \in Item /\ x.has \subseteq made
  BY <1>1 DEF Sane, JobRecord, Item
<1> HIDE DEF q
<1>4. /\ disk \in [Paths -> Item] /\ disk' \in [Paths -> Item]
      /\ disk'[q] = x /\ \A y \in Paths \ {q} : disk'[y] = disk[y]
  BY <1>1, <1>2, <1>3 DEF FilesInv, DiskInv
<1>5. DiskInv'
  BY <1>2, <1>3, <1>4 DEF FilesInv, DiskInv
<1>6. Sane(NextPath(job[j])) /\ \A t : ~Owes(NextPath(job[j]), t)
  BY <1>1, <1>2, NextPathSane
<1>7. JobsInv' /\ \A t : Owing(job', t) \subseteq Owing(job, t)
  BY <1>2, <1>6, SetJob DEF FilesInv
<1>8. OthersInv'
  <2>1. disk[q].has \subseteq Things
    BY <1>1, <1>4 DEF Item
  <2> QED
    BY <2>1, <1>2 DEF FilesInv, OthersInv
<1>9. Counted'
  <2>1. \A t \in made \ Forgiven' : t \in disk[q].has => t \in x.has
    BY <1>2 DEF Forgiven
  <2>2. \A t \in made \ Forgiven' : Places(disk, t) \subseteq Places(disk', t)
    BY <2>1, <1>4 DEF Places
  <2>3. Forgiven \subseteq Forgiven' /\ made' = made
    BY <1>2 DEF Forgiven
  <2> QED
    BY <2>2, <2>3, <1>7, KeepSafe
<1> QED
  BY <1>5, <1>7, <1>8, <1>9 DEF FilesInv

-----------------------------------------------------------------------------
(* Steps of the event loop and of other programs.                          *)

LEMMA CreateSafe ==
  ASSUME FilesInv, CreateChoose \/ Create
  PROVE  FilesInv'
<1>1. UNCHANGED <<job, made, late, replaced>>
  BY DEF CreateChoose, Create
<1>2. JobsInv' /\ \A t : Owing(job', t) \subseteq Owing(job, t)
  BY <1>1 DEF FilesInv, JobsInv, Sane
<1>3. CASE UNCHANGED <<disk, blanked>>
  <2>1. DiskInv'
    BY <1>1, <1>3 DEF FilesInv, DiskInv
  <2>2. Counted'
    BY <1>1, <1>2, <1>3, KeepSafe DEF Forgiven
  <2>3. creating' \in Slots \cup {NoSlot} /\ others' \in 0 .. MaxOthers
    BY TransferAssumption DEF FilesInv, OthersInv, CreateChoose, Create
  <2>4. OthersInv'
    BY <1>1, <1>3, <2>3 DEF FilesInv, OthersInv
  <2> QED
    BY <1>2, <2>1, <2>2, <2>4 DEF FilesInv
<1>4. CASE \E k \in {"file", "folder"} :
             /\ disk' = [disk EXCEPT ![creating] = [kind |-> k, has |-> {}]]
             /\ blanked' = blanked \cup disk[creating].has
             /\ creating # NoSlot /\ creating' = NoSlot /\ others' = others
  <2>1. PICK k \in {"file", "folder"} :
          /\ disk' = [disk EXCEPT ![creating] = [kind |-> k, has |-> {}]]
          /\ blanked' = blanked \cup disk[creating].has
          /\ creating # NoSlot /\ creating' = NoSlot /\ others' = others
    BY <1>4
  <2> DEFINE x == [kind |-> k, has |-> {}]
  <2>2. creating \in Paths /\ x \in Item /\ x.has = {} /\ x.kind # "none"
    BY <2>1, PathsFinite DEF FilesInv, OthersInv, Item
  <2>3. /\ disk \in [Paths -> Item] /\ disk' \in [Paths -> Item]
        /\ disk'[creating] = x /\ \A y \in Paths \ {creating} : disk'[y] = disk[y]
    BY <2>1, <2>2 DEF FilesInv, DiskInv
  <2> HIDE DEF x
  <2>4. DiskInv'
    BY <1>1, <2>2, <2>3 DEF FilesInv, DiskInv
  <2>5. OthersInv'
    <3>1. disk[creating].has \subseteq Things
      BY <2>2, <2>3 DEF Item
    <3> QED
      BY <3>1, <1>1, <2>1 DEF FilesInv, OthersInv
  <2>6. \A t \in made \ Forgiven' : Places(disk, t) \subseteq Places(disk', t)
    BY <2>1, <2>2, <2>3 DEF Places, Forgiven
  <2>7. Forgiven \subseteq Forgiven'
    BY <1>1, <2>1 DEF Forgiven
  <2>8. Counted'
    BY <1>1, <1>2, <2>6, <2>7, KeepSafe
  <2> QED
    BY <1>2, <2>4, <2>5, <2>8 DEF FilesInv
<1> QED
  BY <1>3, <1>4 DEF CreateChoose, Create, Nothing

LEMMA RenameFileSafe ==
  ASSUME FilesInv, RenameFile
  PROVE  FilesInv'
<1>1. PICK p \in Paths, q \in Paths :
        /\ disk[p] # Nothing /\ disk[q] = Nothing
        /\ disk' = [disk EXCEPT ![p] = Nothing, ![q] = disk[p]]
  BY DEF RenameFile
<1>2. UNCHANGED <<job, creating, made, late, blanked, replaced>>
  BY DEF RenameFile
<1>3. JobsInv' /\ \A t : Owing(job', t) \subseteq Owing(job, t)
  BY <1>2 DEF FilesInv, JobsInv, Sane
<1>4. DiskInv' /\ Counted'
  BY <1>1, <1>2, <1>3, MoveSafe
<1>5. others' \in 0 .. MaxOthers
  BY TransferAssumption DEF FilesInv, OthersInv, RenameFile
<1>6. OthersInv'
  BY <1>2, <1>5 DEF FilesInv, OthersInv
<1> QED
  BY <1>3, <1>4, <1>6 DEF FilesInv

LEMMA OtherWritesSafe ==
  ASSUME FilesInv, OtherWrites
  PROVE  FilesInv'
<1>1. PICK t \in Things \ made, p \in Paths :
        /\ disk[p] # Nothing /\ disk' = [disk EXCEPT ![p].has = @ \cup {t}]
        /\ made' = made \cup {t}
  BY DEF OtherWrites
<1>2. UNCHANGED <<job, creating, late, blanked, replaced>>
  BY DEF OtherWrites
<1>3. JobsInv' /\ \A u : Owing(job', u) \subseteq Owing(job, u)
  BY <1>1, <1>2 DEF FilesInv, JobsInv, Sane
<1> DEFINE x == [disk[p] EXCEPT !.has = @ \cup {t}]
<1>4. disk[p] \in Item /\ DiskInv /\ disk[p].has \subseteq made
  BY DEF FilesInv, DiskInv
<1>5. x \in Item /\ x.has = disk[p].has \cup {t} /\ x.kind = disk[p].kind
  BY <1>1, <1>4 DEF Item
<1>6. disk' = [disk EXCEPT ![p] = x]
  BY <1>1, <1>4 DEF DiskInv
<1>7. x.kind # "none"
  <2>1. disk[p] = [kind |-> disk[p].kind, has |-> disk[p].has]
    BY <1>4 DEF Item
  <2> QED
    BY <1>1, <1>4, <1>5, <2>1 DEF DiskInv, Nothing
<1> HIDE DEF x
<1>8. /\ DiskInv' /\ \A u : Places(disk, u) \subseteq Places(disk', u)
      /\ p \in Places(disk', t)
  <2>1. disk[p].has \subseteq x.has /\ x.has \subseteq made' /\ made \subseteq made' /\ t \in x.has
    BY <1>1, <1>4, <1>5
  <2> QED
    BY <2>1, <1>4, <1>5, <1>6, <1>7, GrowInv
<1>9. ASSUME NEW u \in made', u \notin Forgiven' PROVE Enough(disk', job', u)
  <2>1. CASE u = t
    <3>1. Owing(job', u) = {}
      BY <1>1, <1>2, <2>1 DEF FilesInv, JobsInv, Sane, Owing
    <3>2. Cardinality(Owing(job', u)) = 0
      BY <3>1, FS_EmptySet
    <3>3. Cardinality(Places(disk', u)) # 0
      BY <1>8, <2>1, Finite, FS_EmptySet
    <3> QED
      BY <3>2, <3>3, Finite DEF Enough
  <2>2. CASE u # t
    <3>1. Enough(disk, job, u)
      BY <1>1, <1>2, <1>9, <2>2 DEF FilesInv, Counted, Forgiven
    <3> QED
      BY <3>1, <1>3, <1>8, StaysEnough
  <2> QED
    BY <2>1, <2>2
<1>10. Counted'
  BY <1>9 DEF Counted, Enough, Places, Owing
<1>11. others' \in 0 .. MaxOthers
  BY TransferAssumption DEF FilesInv, OthersInv, OtherWrites
<1>12. OthersInv'
  BY <1>1, <1>2, <1>11 DEF FilesInv, OthersInv
<1> QED
  BY <1>3, <1>8, <1>10, <1>12 DEF FilesInv

LEMMA FileCrashSafe ==
  ASSUME FilesInv, FileCrash
  PROVE  FilesInv'
<1>1. /\ job' = [j \in Jobs |-> IF Working(j) THEN [job[j] EXCEPT !.state = "failed"] ELSE job[j]]
      /\ creating' = NoSlot
      /\ UNCHANGED <<disk, made, late, blanked, replaced, others>>
  BY DEF FileCrash
<1>2. ASSUME NEW j \in Jobs
      PROVE  /\ Sane(job'[j]) /\ \A t : Owes(job'[j], t) => Owes(job[j], t)
             /\ job'[j] \in JobRecord
  <2>1. Sane(job[j])
    BY DEF FilesInv, JobsInv
  <2>2. job'[j] = [job[j] EXCEPT !.state = "failed"] \/ job'[j] = job[j]
    BY <1>1
  <2>3. job[j] \in JobRecord
    BY <2>1 DEF Sane
  <2>4. ASSUME NEW r, Sane(r), job'[j] = r, \A t : Owes(r, t) => Owes(job[j], t)
        PROVE  /\ Sane(job'[j]) /\ \A t : Owes(job'[j], t) => Owes(job[j], t)
               /\ job'[j] \in JobRecord
    BY <2>4 DEF Sane
  <2>5. CASE job'[j] = job[j]
    BY <2>1, <2>4, <2>5
  <2>6. CASE job'[j] = [job[j] EXCEPT !.state = "failed"]
    <3>1. PICK r : r = [job[j] EXCEPT !.state = "failed"]
      OBVIOUS
    <3>2. Sane(r) /\ \A t : ~Owes(r, t)
      BY <2>1, <3>1, FailedSane
    <3>3. job'[j] = r
      BY <2>6, <3>1
    <3> QED
      BY <2>4, <3>2, <3>3
  <2> QED
    BY <2>2, <2>5, <2>6
<1>3. JobsInv'
  <2>1. job' \in [Jobs -> JobRecord]
    BY <1>1, <1>2
  <2>2. \A j \in Jobs : Sane(job[j])'
    BY <1>1, <1>2 DEF Sane
  <2> QED
    BY <2>1, <2>2 DEF JobsInv
<1>4. \A t : Owing(job', t) \subseteq Owing(job, t)
  BY <1>2, OwingJobs
<1>5. DiskInv' /\ OthersInv'
  BY <1>1 DEF FilesInv, DiskInv, OthersInv
<1>6. Counted'
  BY <1>1, <1>4, KeepSafe DEF Forgiven, Places
<1> QED
  BY <1>3, <1>5, <1>6 DEF FilesInv

LEMMA FileInitInv == FileInit => FilesInv
<1> SUFFICES ASSUME FileInit PROVE FilesInv
  OBVIOUS
<1>1. PICK kinds \in [Sources -> {"file", "folder"}] :
        disk = [p \in Paths |-> IF p \in Sources THEN [kind |-> kinds[p], has |-> Initially[p]]
                                ELSE Nothing]
  BY DEF FileInit
<1>2. /\ made = UNION {Initially[p] : p \in Sources} /\ job = [j \in Jobs |-> Unstarted]
      /\ creating = NoSlot /\ late = {} /\ blanked = {} /\ replaced = {} /\ others = 0
  BY DEF FileInit
<1>3. Initially \in [Sources -> SUBSET Things]
  BY TransferAssumption
<1>4. JobsInv
  BY <1>2 DEF JobsInv, Sane, JobRecord, Unstarted, Path
<1>5. DiskInv
  <2>1. \A p \in Paths : disk[p] \in Item /\ disk[p].has \subseteq made
                         /\ (disk[p].kind = "none" => disk[p].has = {})
    BY <1>1, <1>2, <1>3 DEF Item, Nothing
  <2> QED
    BY <1>1, <2>1 DEF DiskInv
<1>6. OthersInv
  <2>1. others \in 0 .. MaxOthers
    BY <1>2, TransferAssumption
  <2> QED
    BY <1>2, <1>3, <2>1 DEF OthersInv
<1>7. ASSUME NEW t \in made PROVE Enough(disk, job, t)
  <2>1. PICK p \in Sources : t \in Initially[p]
    BY <1>2
  <2>2. p \in Places(disk, t)
    BY <1>1, <2>1, PathsFinite DEF Places
  <2>3. Owing(job, t) = {}
    BY <1>2 DEF Owing, Unstarted, Path
  <2>4. Cardinality(Owing(job, t)) = 0
    BY <2>3, FS_EmptySet
  <2>5. Cardinality(Places(disk, t)) # 0
    BY <2>2, Finite, FS_EmptySet
  <2> QED
    BY <2>4, <2>5, Finite DEF Enough
<1> QED
  BY <1>4, <1>5, <1>6, <1>7 DEF FilesInv, Counted

LEMMA FileSameInv ==
  ASSUME FilesInv, UNCHANGED fileVars
  PROVE  FilesInv'
<1>1. UNCHANGED <<disk, job, creating, made, late, blanked, replaced, others>>
  BY DEF fileVars
<1>2. JobsInv' /\ DiskInv' /\ OthersInv'
  BY <1>1 DEF FilesInv, JobsInv, Sane, DiskInv, OthersInv
<1>3. Counted'
  BY <1>1 DEF FilesInv, Counted, Enough, Places, Owing, Forgiven
<1> QED
  BY <1>2, <1>3 DEF FilesInv

LEMMA FileNextInv ==
  ASSUME FilesInv, FileNext
  PROVE  FilesInv'
<1>1. ASSUME NEW j \in Jobs, Step(j) PROVE FilesInv'
  BY <1>1, TakeSafe, ChooseSafe, RenameSafe, CopyFileSafe, MakeFolderSafe, CopyEntrySafe,
     EndCopySafe, RemoveSourceSafe, ReadSourceSafe, CommitSafe, FailSafe DEF Step
<1> QED
  BY <1>1, CreateSafe, RenameFileSafe, OtherWritesSafe, FileCrashSafe DEF FileNext

-----------------------------------------------------------------------------
(* Pins.                                                                   *)

\* A description has its data, or its removal comes next; what is added has
\* its data before the rest.
Described == \A c \in meta : c \in data \/ c \in half \/ task = Task("remove", c, 2)
Added     == \A c \in Contents : task.op = "add" /\ task.step > 1 /\ task.pin = c => c \in data

PinInv == Described /\ Added

LEMMA TaskUnique ==
  ASSUME NEW o, NEW p, NEW c, NEW d, NEW m, NEW n
  PROVE  /\ Task(o, c, m) = Task(p, d, n) => o = p /\ c = d /\ m = n
         /\ Task(o, c, m) # Idle
<1>1. Task(o, c, m).op = o /\ Task(o, c, m).pin = c /\ Task(o, c, m).step = m
  BY DEF Task
<1>2. Task(p, d, n).op = p /\ Task(p, d, n).pin = d /\ Task(p, d, n).step = n
  BY DEF Task
<1>3. DOMAIN Task(o, c, m) # DOMAIN Idle
  BY DEF Task, Idle
<1> QED
  BY <1>1, <1>2, <1>3

LEMMA TaskParts ==
  ASSUME NEW o, NEW c, NEW n
  PROVE  /\ Task(o, c, n).op = o /\ Task(o, c, n).pin = c /\ Task(o, c, n).step = n
         /\ Idle.op = "idle"
  BY DEF Task, Idle

LEMMA PinNextInv ==
  ASSUME PinInv, PinNext
  PROVE  PinInv'
<1>1. ASSUME NEW c \in Contents, Request(c) PROVE PinInv'
  <2>1. PICK o \in {"add", "remove"} : task' = Task(o, c, 1)
    BY <1>1 DEF Request
  <2>2. task'.step = 1 /\ UNCHANGED <<data, meta, half>> /\ task = Idle
    BY <1>1, <2>1, TaskParts DEF Request
  <2>3. Added'
    BY <2>2 DEF Added
  <2>4. Described'
    BY <2>2, TaskUnique DEF PinInv, Described
  <2> QED
    BY <2>3, <2>4 DEF PinInv
<1>2. ASSUME NEW c \in Contents, AddStep(c) PROVE PinInv'
  <2>1. PICK n \in {1, 2, 3} : task = Task("add", c, n)
    BY <1>2 DEF AddStep, AddData, AddThumb, AddMeta, Serving
  <2>2. \A d \in meta : d \in data \/ d \in half
    <3>1. \A d : task # Task("remove", d, 2)
      <4>1. task.op = "add" /\ \A d : Task("remove", d, 2).op = "remove"
        BY <2>1 DEF Task
      <4> QED
        BY <4>1
    <3> QED
      BY <3>1 DEF PinInv, Described
  <2>3. CASE AddMeta(c)
    <3>1. task = Task("add", c, 3) /\ task' = Idle
      BY <2>3 DEF AddMeta, Serving
    <3>2. c \in data
      BY <3>1, TaskParts DEF PinInv, Added
    <3>3. Described'
      BY <2>2, <2>3, <3>2 DEF Described, AddMeta
    <3>4. Added'
      BY <3>1, TaskParts DEF Added
    <3> QED
      BY <3>3, <3>4 DEF PinInv
  <2>4. CASE AddData(c)
    <3>1. Described'
      BY <2>2, <2>4 DEF Described, AddData
    <3>2. \/ data' = data \cup {c} /\ task' = Task("add", c, 2)
          \/ task' = Idle
      BY <2>4 DEF AddData
    <3>3. Added'
      BY <3>2, TaskParts DEF Added
    <3> QED
      BY <3>1, <3>3 DEF PinInv
  <2>5. CASE AddThumb(c)
    <3>1. task = Task("add", c, 2) /\ task' = Task("add", c, 3)
          /\ UNCHANGED <<data, meta, half>>
      BY <2>5 DEF AddThumb, Serving
    <3>2. c \in data
      BY <3>1, TaskParts DEF PinInv, Added
    <3>3. Described'
      BY <2>2, <3>1 DEF Described
    <3>4. Added'
      BY <3>1, <3>2, TaskParts DEF Added
    <3> QED
      BY <3>3, <3>4 DEF PinInv
  <2> QED
    BY <1>2, <2>3, <2>4, <2>5 DEF AddStep
<1>3. ASSUME NEW c \in Contents, RemoveStep(c) PROVE PinInv'
  <2>1. Described'
    BY <1>3, TaskUnique DEF PinInv, Described, RemoveStep, Serving
  <2>2. task' = Idle \/ \E n \in {2, 3} : task' = Task("remove", c, n)
    BY <1>3 DEF RemoveStep
  <2>3. Added'
    BY <2>2, TaskParts DEF Added
  <2> QED
    BY <2>1, <2>3 DEF PinInv
<1>4. CASE PinCrash
  <2>1. ASSUME NEW c \in meta, task = Task("remove", c, 2), c \notin data PROVE c \in half'
    <3>1. task.op = "remove" /\ task.pin = c /\ task.step = 2
      BY <2>1, TaskParts
    <3> QED
      BY <1>4, <2>1, <3>1 DEF PinCrash
  <2>2. half \subseteq half' /\ UNCHANGED <<data, meta>> /\ task' = Idle
    BY <1>4 DEF PinCrash
  <2>3. Described'
    BY <2>1, <2>2 DEF PinInv, Described
  <2>4. Added'
    BY <2>2, TaskParts DEF Added
  <2> QED
    BY <2>3, <2>4 DEF PinInv
<1> QED
  BY <1>1, <1>2, <1>3, <1>4 DEF PinNext

LEMMA PinTypes ==
  ASSUME PinTypeOK, PinNext \/ UNCHANGED pinVars
  PROVE  PinTypeOK'
<1> DEFINE Tasks == {Task(o, c, n) : o \in {"add", "remove"}, c \in Contents, n \in 1 .. 3}
<1>1. \A o \in {"add", "remove"}, c \in Contents : \A n \in {1, 2, 3} : Task(o, c, n) \in Tasks
  OBVIOUS
<1>2. ASSUME task' = Idle \/ task' \in Tasks, data' \subseteq Contents, meta' \subseteq Contents,
             thumb' \subseteq Images, half' \subseteq Contents
      PROVE  PinTypeOK'
  BY <1>2 DEF PinTypeOK
<1> HIDE DEF Tasks
<1>3. ASSUME NEW c \in Contents, Request(c) PROVE PinTypeOK'
  BY <1>1, <1>2, <1>3 DEF PinTypeOK, Request
<1>4. ASSUME NEW c \in Contents, AddData(c) PROVE PinTypeOK'
  BY <1>1, <1>2, <1>4 DEF PinTypeOK, AddData
<1>5. ASSUME NEW c \in Contents, AddThumb(c) PROVE PinTypeOK'
  BY <1>1, <1>2, <1>5 DEF PinTypeOK, AddThumb
<1>6. ASSUME NEW c \in Contents, AddMeta(c) PROVE PinTypeOK'
  BY <1>1, <1>2, <1>6 DEF PinTypeOK, AddMeta
<1>7. ASSUME NEW c \in Contents, RemoveStep(c) PROVE PinTypeOK'
  BY <1>1, <1>2, <1>7 DEF PinTypeOK, RemoveStep
<1>8. CASE PinCrash
  BY <1>2, <1>8 DEF PinTypeOK, PinCrash
<1>9. CASE UNCHANGED pinVars
  BY <1>9 DEF PinTypeOK, pinVars
<1> QED
  BY <1>3, <1>4, <1>5, <1>6, <1>7, <1>8, <1>9 DEF PinNext, AddStep

-----------------------------------------------------------------------------
(* Theorems.                                                               *)

LEMMA DaemonInit == Init => FilesInv /\ PinInv /\ AwakeInv
  BY FileInitInv, AwakeInitOK, AwakeAssumption DEF Init, PinInit, PinInv, Described, Added, Idle

LEMMA DaemonNext == FilesInv /\ PinInv /\ AwakeInv /\ [Next]_vars
                      => FilesInv' /\ PinInv' /\ AwakeInv'
<1> SUFFICES ASSUME FilesInv, PinInv, AwakeInv, [Next]_vars
             PROVE  FilesInv' /\ PinInv' /\ AwakeInv'
  OBVIOUS
<1>1. FileNext \/ UNCHANGED fileVars
  BY DEF Next, vars
<1>2. PinNext \/ UNCHANGED pinVars
  BY DEF Next, vars
<1>3. AwakeNext \/ UNCHANGED awakeVars
  BY DEF Next, vars
<1>4. UNCHANGED pinVars => PinInv'
  BY DEF PinInv, Described, Added, pinVars
<1>5. AwakeInv'
  BY <1>3, AwakeKept, AwakeSame, AwakeAssumption
<1> QED
  BY <1>1, <1>2, <1>4, <1>5, FileNextInv, FileSameInv, PinNextInv

\* The variables of the three parts keep their types.
THEOREM TypeCorrect == Spec => []TypeOK
<1>1. Init => PinTypeOK
  BY PinAssumption DEF Init, PinInit, PinTypeOK
<1>2. PinTypeOK /\ [Next]_vars => PinTypeOK'
  <2>1. [Next]_vars => PinNext \/ UNCHANGED pinVars
    BY DEF Next, vars
  <2> QED
    BY <2>1, PinTypes
<1>3. FilesInv /\ AwakeInv /\ PinTypeOK => TypeOK
  BY DEF TypeOK, AwakeInv, FilesInv, FileTypeOK, JobsInv, DiskInv, OthersInv, JobRecord, Item
<1> QED
  BY <1>1, <1>2, <1>3, DaemonInit, DaemonNext, PTL DEF Spec

\* Whatever number of jobs, threads and other programs, and wherever a job
\* fails or the daemon is killed: nothing is lost but what is forgiven.
THEOREM FilesKept == Spec => []NothingLost
<1>1. FilesInv => NothingLost
  <2> SUFFICES ASSUME FilesInv, NEW t \in made, t \notin Forgiven
               PROVE  \E p \in Paths : t \in disk[p].has
    BY DEF NothingLost, Forgiven
  <2>1. Enough(disk, job, t)
    BY DEF FilesInv, Counted
  <2>2. Cardinality(Places(disk, t)) # 0
    BY <2>1, Finite DEF Enough
  <2>3. Places(disk, t) # {}
    BY <2>2, FS_EmptySet
  <2> QED
    BY <2>3 DEF Places
<1> QED
  BY <1>1, DaemonInit, DaemonNext, PTL DEF Spec

\* A pin that the list shows has its data, but for the three exceptions.
THEOREM PinsAreWhole == Spec => []PinsWhole
<1>1. PinInv => PinsWhole
  BY TaskUnique DEF PinInv, Described, PinsWhole
<1> QED
  BY <1>1, DaemonInit, DaemonNext, PTL DEF Spec

\* Whatever number of clients, leases and restarts of a service: while a lease
\* is enabled, each service holds its inhibition, or the lease is being told
\* that the service ended, or its cookie was released by another lease that
\* did not know of the end yet.
THEOREM LeasesAreHeld == Spec => []EnabledIsHeld
  BY DaemonInit, DaemonNext, AwakeImplies, PTL DEF Spec

\* The safety that AwakeSettles rests on, whatever number of clients, leases
\* and restarts: no reply, restart, leave or timeout leaves a client without
\* an event that its lease will act on, or an inhibition behind a lease that
\* is gone without the end of its connection ahead of the service
\* (KeepAwakeLease.cpp 26-103).
THEOREM AlwaysDue == Spec => []AwakeDue
<1>1. Init => DueInv
  BY DueInit DEF Init
<1>2. AwakeInv /\ DueInv /\ [Next]_vars => DueInv'
  <2>1. [Next]_vars => AwakeNext \/ UNCHANGED awakeVars
    BY DEF Next, vars
  <2> QED
    BY <2>1, DueKept
<1> QED
  BY <1>1, <1>2, DueImplies, DaemonInit, DaemonNext, PTL DEF Spec
=============================================================================
