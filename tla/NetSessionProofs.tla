-------------------------- MODULE NetSessionProofs --------------------------
(***************************************************************************)
(* No nonce is used twice, no packet is opened twice or out of order and   *)
(* none is lost in the output buffer, for any number of boots, of packets, *)
(* and of packets lost, repeated or replayed from an earlier boot.         *)
(*                                                                         *)
(* The argument: the node's own boot is part of the session id, so what    *)
(* was sealed or opened in an earlier boot can never match again; and      *)
(* within a boot the session is accepted once, so that everything sealed   *)
(* or opened in the present boot has the present session's id and a        *)
(* sequence number its counters have passed.                               *)
(***************************************************************************)
EXTENDS NetSession, TLAPS

\* The types the proof needs.  An established session has the boot of the
\* other side; one that is not has sealed and opened nothing.
Sessions ==
    {s \in [active : BOOLEAN, remote : 0 .. MaxBoots, sent : 0 .. MaxSequence,
            received : 0 .. MaxSequence] :
        IF s.active THEN s.remote # 0 ELSE s.sent = 0 /\ s.received = 0}

Types ==
    /\ boot \in [Nodes -> 1 .. MaxBoots] /\ session \in [Nodes -> Sessions]
    /\ pending \in [Nodes -> DataPackets \cup Hellos \cup {Nothing}]
    /\ net \subseteq submitted /\ submitted \subseteq DataPackets \cup Hellos
    /\ opened \in [Nodes -> Seq(DataPackets)]

\* The data packets that left session.c.
SealedPackets == {p \in submitted \cup {pending[n] : n \in Nodes} : p.kind \in {"request", "reply"}}

\* A packet of n's present boot is one of its present session.
OfThisSession(n, p) ==
    /\ p.sid[n] <= boot[n]
    /\ p.sid[n] = boot[n] => session[n].active /\ p.sid = SessionId(n, session[n])

SealedInv ==
    \A p \in SealedPackets :
        /\ OfThisSession(p.from, p)
        /\ p.sid[p.from] = boot[p.from] => p.sequence <= session[p.from].sent

OpenedInv ==
    \A n \in Nodes : \A i \in 1 .. Len(opened[n]) :
        /\ OfThisSession(n, opened[n][i])
        /\ opened[n][i].sid[n] = boot[n] => opened[n][i].sequence <= session[n].received

IInv ==
    /\ Types /\ SealedInv /\ OpenedInv
    /\ NoncesAreFresh /\ OpenedOnceInOrder /\ SealedPacketsAreKept

-----------------------------------------------------------------------------
(* What one call changes *)

\* How the session of a node may change within a boot: what is established
\* stays, and the counters only grow.
Grows(s, t) ==
    s.active => /\ t.active /\ t.remote = s.remote
                /\ t.sent >= s.sent /\ t.received >= s.received

\* The packet sealed with the session t, which follows s.
Seals(n, s, t, p) ==
    /\ p \in DataPackets /\ p.from = n /\ p.sid = SessionId(n, t) /\ p.sequence = t.sent /\ t.active
    /\ s.active => p.sequence > s.sent

\* The counters are numbers.
LEMMA Counters ==
    /\ \A s \in Sessions : s.sent \in Nat /\ s.received \in Nat /\ s.remote \in Nat
    /\ \A p \in DataPackets : p.sequence \in Nat
BY SessionConstants DEF Sessions, DataPackets

\* net_session_accept: a hello establishes a session or changes nothing.
LEMMA AcceptFacts ==
    ASSUME NEW s \in Sessions, NEW p \in Hellos
    PROVE  /\ net_session_accept(s, p) \in Sessions /\ Grows(s, net_session_accept(s, p))
           /\ net_session_accept(s, p).sent = s.sent
<1>1. CASE s.active
  <2>1. net_session_accept(s, p) = s
    BY <1>1 DEF net_session_accept
  <2> QED
    BY <2>1 DEF Grows, Sessions
<1>2. CASE ~s.active
  <2>1. net_session_accept(s, p) = [active |-> TRUE, remote |-> p.boot, sent |-> 0, received |-> 0]
    BY <1>2 DEF net_session_accept
  <2> QED
    BY <1>2, <2>1 DEF Grows, Sessions, Hellos
<1> QED
  BY <1>1, <1>2

\* net_session_seal: the next sequence number, under the session's id.
LEMMA SealFacts ==
    ASSUME Types, NEW n \in Nodes, NEW s \in Sessions, CanSeal(s), NEW kind \in {"request", "reply"}
    PROVE  LET t == [s EXCEPT !.sent = @ + 1]
           IN  t \in Sessions /\ Grows(s, t) /\ t.received = s.received /\ t.sent = s.sent + 1
               /\ Seals(n, s, t, Sealed(n, s, kind))
<1> DEFINE t == [s EXCEPT !.sent = @ + 1]
<1>1. /\ s.sent \in Nat /\ s.sent + 1 \in 1 .. MaxSequence /\ s.received \in Nat
      /\ s.active /\ s.remote \in 1 .. MaxBoots
  BY SessionConstants DEF Sessions, CanSeal
<1>2. /\ t.sent = s.sent + 1 /\ t.received = s.received
      /\ t.active = s.active /\ t.remote = s.remote
  BY DEF Sessions
<1>7. t \in Sessions
  <2>1. t \in [active : BOOLEAN, remote : 0 .. MaxBoots, sent : 0 .. MaxSequence,
               received : 0 .. MaxSequence]
    BY <1>1, SessionConstants DEF Sessions
  <2> QED
    BY <1>1, <1>2, <2>1 DEF Sessions
<1> HIDE DEF t
<1>3. SessionId(n, t) = SessionId(n, s) /\ SessionId(n, s) \in [Nodes -> 1 .. MaxBoots]
  BY <1>1, <1>2 DEF SessionId, Types
<1>4. /\ Sealed(n, s, kind) \in DataPackets /\ Sealed(n, s, kind).from = n
      /\ Sealed(n, s, kind).sid = SessionId(n, s) /\ Sealed(n, s, kind).sequence = s.sent + 1
  BY <1>1, <1>3 DEF Sealed, DataPackets
<1>5. Grows(s, t)
  BY <1>1, <1>2 DEF Grows
<1>6. Seals(n, s, t, Sealed(n, s, kind))
  BY <1>1, <1>2, <1>3, <1>4 DEF Seals
<1> QED
  BY <1>2, <1>5, <1>6, <1>7 DEF t

\* A datagram received: the session grows, past the packet if it was opened,
\* and the buffer keeps what it had or holds a reply sealed now.
LEMMA ReceivedFacts ==
    ASSUME Types, NEW n \in Nodes, NEW p \in DataPackets \cup Hellos, NEW buffer
    PROVE  LET s == session[n]
               r == Received(n, p, buffer)
           IN  /\ r.session \in Sessions /\ Grows(s, r.session)
               /\ p.kind # "hello" /\ net_session_open(n, s, p) => r.session.received >= p.sequence
               /\ \/ r.pending = buffer /\ r.session.sent = s.sent
                  \/ Seals(n, s, r.session, r.pending) /\ r.session.sent = s.sent + 1
<1> DEFINE s == session[n]
           r == Received(n, p, buffer)
           next == [s EXCEPT !.received = p.sequence]
<1>1. s \in Sessions
  BY DEF Types
<1>2. CASE p.kind = "hello"
  <2>1. p \in Hellos
    BY <1>2 DEF DataPackets
  <2>2. r = [session |-> net_session_accept(s, p), pending |-> buffer]
    BY <1>2 DEF Received
  <2> QED
    BY <1>1, <1>2, <2>1, <2>2, AcceptFacts
<1>3. CASE p.kind # "hello" /\ ~net_session_open(n, s, p)
  <2>1. r = [session |-> s, pending |-> buffer]
    BY <1>3 DEF Received
  <2>2. Grows(s, s)
    BY <1>1 DEF Grows, Sessions
  <2> QED
    BY <1>1, <1>3, <2>1, <2>2
<1>4. CASE p.kind # "hello" /\ net_session_open(n, s, p)
  <2>1. s.active /\ p.sequence \in Nat /\ p.sequence > s.received /\ s.sent \in Nat /\ s.received \in Nat
    BY <1>1, <1>4, SessionConstants DEF net_session_open, DataPackets, Hellos, Sessions
  <2>7. p.sequence \in 1 .. MaxSequence
    BY <1>4 DEF DataPackets, Hellos
  <2>2. /\ next \in Sessions /\ next.active /\ next.received = p.sequence
        /\ next.sent = s.sent /\ next.remote = s.remote
    BY <1>1, <2>1, <2>7 DEF Sessions
  <2>3. r = IF p.kind = "request" /\ CanSeal(next)
            THEN [session |-> [next EXCEPT !.sent = @ + 1], pending |-> Sealed(n, next, "reply")]
            ELSE [session |-> next, pending |-> buffer]
    BY <1>4 DEF Received
  <2> HIDE DEF next
  <2>4. Grows(s, next)
    BY <2>1, <2>2 DEF Grows
  <2>5. CASE p.kind = "request" /\ CanSeal(next)
    <3> DEFINE t == [next EXCEPT !.sent = @ + 1]
    <3>1. /\ t \in Sessions /\ Grows(next, t) /\ t.received = next.received
          /\ t.sent = next.sent + 1 /\ Seals(n, next, t, Sealed(n, next, "reply"))
      BY <2>2, <2>5, SealFacts
    <3>2. r.session = t /\ r.pending = Sealed(n, next, "reply")
      BY <2>3, <2>5
    <3> HIDE DEF t
    <3>3. Grows(s, t) /\ Seals(n, s, t, Sealed(n, next, "reply"))
      BY <2>1, <2>2, <3>1 DEF Grows, Seals, Sessions
    <3>4. t.received >= p.sequence /\ t.sent = s.sent + 1
      BY <2>1, <2>2, <3>1
    <3> HIDE DEF r
    <3> QED
      BY <3>1, <3>2, <3>3, <3>4 DEF r
  <2>6. CASE ~(p.kind = "request" /\ CanSeal(next))
    <3>1. r.session = next /\ r.pending = buffer
      BY <2>3, <2>6
    <3>2. next.received >= p.sequence
      BY <2>1, <2>2
    <3> HIDE DEF r
    <3> QED
      BY <2>2, <2>4, <3>1, <3>2 DEF r
  <2> QED
    BY <2>5, <2>6
<1> QED
  BY <1>2, <1>3, <1>4

\* What net_peer_step changes: the session grows to s, at most one packet is
\* sealed, and at most the packet p is opened.
StepEffect(n, p, s) ==
    /\ boot' = boot /\ s \in Sessions /\ Grows(session[n], s)
    /\ session' = [session EXCEPT ![n] = s]
    /\ Types'
    /\ \/ s.sent = session[n].sent /\ SealedPackets' \subseteq SealedPackets
       \/ \E x \in submitted' \cup {pending'[n]} :
             /\ s.sent = session[n].sent + 1 /\ Seals(n, session[n], s, x)
             /\ SealedPackets' \subseteq SealedPackets \cup {x}
    /\ \A m \in Nodes : submitted \cup {pending[m]} \subseteq submitted' \cup {pending'[m], Nothing}
    /\ \/ opened' = opened
       \/ /\ p \in DataPackets /\ net_session_open(n, session[n], p) /\ s.received >= p.sequence
          /\ opened' = [opened EXCEPT ![n] = Append(@, p)]

LEMMA PeerStepEffect ==
    ASSUME Types, NEW n \in Nodes, NEW tx, NEW tx2, NEW due, NEW p \in Arriving(n),
           net_peer_step(n, tx, p, due, tx2)
    PROVE  \E s : StepEffect(n, p, s)
<1> DEFINE first == Kept(pending[n], tx)
           r == IF p # Nothing /\ MayReceive(first) THEN Received(n, p, first)
                ELSE [session |-> session[n], pending |-> first]
           idle == r.pending = Nothing
           hello == idle /\ "hello" \in due /\ NeedsHello(r.session)
           asks == idle /\ ~hello /\ "summary" \in due /\ CanSeal(r.session)
           opens == /\ p # Nothing /\ MayReceive(first) /\ p.kind # "hello"
                    /\ net_session_open(n, session[n], p)
           second == CASE hello -> Hello(n)
                       [] asks -> Sealed(n, r.session, "request")
                       [] OTHER -> r.pending
           s == IF asks THEN [r.session EXCEPT !.sent = @ + 1] ELSE r.session
<1>1. /\ session' = [session EXCEPT ![n] = s]
      /\ pending' = [pending EXCEPT ![n] = Kept(second, tx2)]
      /\ net' = net \cup Carried(pending[n], tx) \cup Carried(second, tx2)
      /\ submitted' = submitted \cup Taken(pending[n], tx) \cup Taken(second, tx2)
      /\ opened' = [opened EXCEPT ![n] = IF opens THEN Append(@, p) ELSE @]
      /\ boot' = boot
  BY DEF net_peer_step
<1>2. session[n] \in Sessions /\ pending[n] \in DataPackets \cup Hellos \cup {Nothing}
      /\ p \in DataPackets \cup Hellos \cup {Nothing}
  BY DEF Types, Arriving
<1>3. first \in {pending[n], Nothing}
  BY DEF Kept
<1>4. /\ r.session \in Sessions /\ Grows(session[n], r.session)
      /\ opens => r.session.received >= p.sequence
      /\ \/ r.pending = first /\ r.session.sent = session[n].sent
         \/ Seals(n, session[n], r.session, r.pending) /\ r.session.sent = session[n].sent + 1
  <2>1. CASE p # Nothing /\ MayReceive(first)
    <3>1. r = Received(n, p, first) /\ p \in DataPackets \cup Hellos
      BY <1>2, <2>1
    <3> HIDE DEF first, r
    <3>2. opens => p.kind # "hello" /\ net_session_open(n, session[n], p)
      OBVIOUS
    <3> HIDE DEF opens
    <3> QED
      BY <3>1, <3>2, ReceivedFacts
  <2>2. CASE ~(p # Nothing /\ MayReceive(first))
    <3>1. r.session = session[n] /\ r.pending = first /\ ~opens
      BY <2>2
    <3> HIDE DEF r, first, opens
    <3>2. Grows(session[n], session[n])
      BY <1>2 DEF Grows, Sessions
    <3> QED
      BY <1>2, <3>1, <3>2
  <2> HIDE DEF r, first, opens
  <2> QED
    BY <2>1, <2>2
<1>5. /\ asks => CanSeal(r.session) /\ r.session.active /\ ~hello /\ r.pending = Nothing
      /\ hello => r.pending = Nothing
      /\ first # Nothing => r.pending = first
  BY DEF CanSeal, MayReceive
<1>6. /\ hello => second = Hello(n)
      /\ asks => second = Sealed(n, r.session, "request")
      /\ ~hello /\ ~asks => second = r.pending
  <2> HIDE DEF hello, r
  <2> QED
    BY <1>5
<1>7. asks => s = [r.session EXCEPT !.sent = @ + 1]
  OBVIOUS
<1>8. ~asks => s = r.session
  OBVIOUS
<1> HIDE DEF first, r, hello, asks, opens, second, s, idle
<1>9. s \in Sessions /\ Grows(session[n], s) /\ (opens => s.received >= p.sequence)
  <2>1. CASE asks
    <3>1. /\ s \in Sessions /\ Grows(r.session, s) /\ s.received = r.session.received
          /\ s.sent = r.session.sent + 1
      BY <1>4, <1>5, <1>7, <2>1, SealFacts
    <3>2. Grows(session[n], s)
      BY <1>2, <1>4, <3>1 DEF Grows, Sessions
    <3> QED
      BY <1>4, <3>1, <3>2
  <2>2. CASE ~asks
    BY <1>4, <1>8, <2>2
  <2> QED
    BY <2>1, <2>2
<1>10. \/ s.sent = session[n].sent /\ (second = Hello(n) \/ second = first)
       \/ s.sent = session[n].sent + 1 /\ Seals(n, session[n], s, second)
  <2>0. r.pending = Nothing => r.pending = first /\ r.session.sent = session[n].sent
    BY <1>4 DEF Seals, DataPackets, Nothing
  <2>1. CASE asks
    <3>1. Seals(n, r.session, s, second)
      BY <1>4, <1>5, <1>6, <1>7, <2>1, SealFacts
    <3>2. Seals(n, session[n], s, second)
      BY <1>2, <1>4, <3>1 DEF Grows, Seals, Sessions, DataPackets
    <3>3. s.sent = session[n].sent + 1
      BY <1>4, <1>5, <1>7, <2>0, <2>1, SealFacts
    <3> QED
      BY <3>2, <3>3
  <2>2. CASE ~asks /\ ~hello
    BY <1>4, <1>6, <1>8, <2>2
  <2>3. CASE ~asks /\ hello
    BY <1>5, <1>6, <1>8, <2>0, <2>3
  <2> QED
    BY <1>5, <2>1, <2>2, <2>3
<1>11. Hello(n) \in Hellos
  BY DEF Hello, Hellos, Types
<1>12. second \in DataPackets \cup Hellos \cup {Nothing}
  BY <1>2, <1>3, <1>10, <1>11 DEF Seals
<1>13. /\ \A x : Kept(x, tx2) \in {x, Nothing} /\ Taken(x, tx) \subseteq {x} \ {Nothing}
                 /\ Taken(x, tx2) \subseteq {x} \ {Nothing}
                 /\ Carried(x, tx) \subseteq Taken(x, tx) /\ Carried(x, tx2) \subseteq Taken(x, tx2)
  BY DEF Kept, Taken, Carried
<1>14. opens => p \in DataPackets /\ net_session_open(n, session[n], p)
  BY <1>2 DEF opens, Hellos
<1>15. Types'
  <2>1. opened' \in [Nodes -> Seq(DataPackets)]
    BY <1>1, <1>14 DEF Types
  <2>2. pending' \in [Nodes -> DataPackets \cup Hellos \cup {Nothing}]
    <3>1. Kept(second, tx2) \in DataPackets \cup Hellos \cup {Nothing}
      BY <1>12, <1>13
    <3> QED
      BY <1>1, <3>1 DEF Types
  <2>3. net' \subseteq submitted' /\ submitted' \subseteq DataPackets \cup Hellos
    BY <1>1, <1>2, <1>12, <1>13 DEF Types
  <2>4. Nothing' = Nothing /\ session' \in [Nodes -> Sessions]
    BY <1>1, <1>9 DEF Types, Nothing
  <2> QED
    BY <1>1, <2>1, <2>2, <2>3, <2>4 DEF Types
<1>16. \/ s.sent = session[n].sent /\ SealedPackets' \subseteq SealedPackets
       \/ /\ s.sent = session[n].sent + 1 /\ Seals(n, session[n], s, second)
          /\ SealedPackets' \subseteq SealedPackets \cup {second}
  <2>1. Nothing.kind = "none" /\ Hello(n).kind = "hello"
    BY DEF Nothing, Hello
  <2>2. \A x \in SealedPackets' : x \in SealedPackets \cup {second}
    <3> TAKE x \in SealedPackets'
    <3>1. x.kind \in {"request", "reply"} /\ x \in submitted' \cup {pending'[m] : m \in Nodes}
      BY DEF SealedPackets
    <3>2. x \in submitted \cup {pending[m] : m \in Nodes} \cup {second, Nothing}
      BY <1>1, <1>13, <3>1 DEF Types
    <3> QED
      BY <2>1, <3>1, <3>2 DEF SealedPackets
  <2>3. second \in SealedPackets' =>
            second \in SealedPackets \/ (s.sent = session[n].sent + 1 /\ Seals(n, session[n], s, second))
    BY <1>3, <1>10, <2>1 DEF SealedPackets
  <2> QED
    BY <1>10, <2>2, <2>3
<1>17. opened' = opened \/ (opens /\ opened' = [opened EXCEPT ![n] = Append(@, p)])
  BY <1>1 DEF Types
<1>19. second \in submitted' \cup {pending'[n], Nothing}
  <2>1. Kept(second, tx2) = second \/ Taken(second, tx2) = {second} \ {Nothing}
    BY DEF Kept, Taken
  <2>2. pending'[n] = Kept(second, tx2)
    BY <1>1 DEF Types
  <2> QED
    BY <1>1, <2>1, <2>2
<1>20. \A m \in Nodes : submitted \cup {pending[m]} \subseteq submitted' \cup {pending'[m], Nothing}
  <2>1. pending[n] \in submitted' \cup {second, Nothing}
    <3>1. CASE tx = "busy"
      <4>1. first = pending[n]
        BY <3>1 DEF first, Kept
      <4>2. first # Nothing => ~hello /\ ~asks /\ r.pending = first
        BY <1>5
      <4> QED
        BY <1>6, <4>1, <4>2
    <3>2. CASE tx # "busy"
      BY <1>1, <3>2 DEF Taken
    <3> QED
      BY <3>1, <3>2
  <2>2. \A m \in Nodes : m # n => pending'[m] = pending[m]
    BY <1>1 DEF Types
  <2> QED
    BY <1>1, <1>19, <2>1, <2>2
<1>21. Seals(n, session[n], s, second) => second \in submitted' \cup {pending'[n]}
  BY <1>19 DEF Seals, DataPackets, Nothing
<1>18. StepEffect(n, p, s)
  BY <1>1, <1>9, <1>14, <1>15, <1>16, <1>17, <1>20, <1>21 DEF StepEffect
<1> QED
  BY <1>18

-----------------------------------------------------------------------------
(* The invariant *)

\* The id of a session contains the node's own boot.
LEMMA OwnBoot ==
    ASSUME Types, NEW n \in Nodes, NEW s \in Sessions
    PROVE  SessionId(n, s)[n] = boot[n]
BY DEF SessionId

\* A packet of this session remains one when the session grows.
LEMMA StaysOfThisSession ==
    ASSUME Types, NEW n \in Nodes, NEW m \in Nodes, NEW p \in DataPackets, NEW s \in Sessions,
           boot' = boot, session' = [session EXCEPT ![n] = s], Grows(session[n], s),
           OfThisSession(m, p)
    PROVE  /\ OfThisSession(m, p)'
           /\ p.sid[m] = boot[m] => /\ session'[m].sent >= session[m].sent
                                    /\ session'[m].received >= session[m].received
<1>1. session[m] \in Sessions /\ session[n] \in Sessions
  BY DEF Types
<1>2. CASE m = n
  <2>1. session'[m] = s
    BY <1>2 DEF Types
  <2>2. CASE p.sid[m] = boot[m]
    <3>1. s.active /\ s.remote = session[n].remote /\ p.sid = SessionId(n, session[n])
      BY <1>2, <2>2 DEF OfThisSession, Grows
    <3>2. p.sid = SessionId(m, session[m])'
      BY <1>2, <2>1, <3>1 DEF SessionId
    <3>3. s.sent >= session[n].sent /\ s.received >= session[n].received
      BY <1>2, <2>2 DEF OfThisSession, Grows
    <3> QED
      BY <1>2, <2>1, <3>1, <3>2, <3>3 DEF OfThisSession
  <2>3. CASE p.sid[m] # boot[m]
    BY <2>3 DEF OfThisSession
  <2> QED
    BY <2>2, <2>3
<1>3. CASE m # n
  <2>1. session'[m] = session[m]
    BY <1>3 DEF Types
  <2>2. SessionId(m, session[m])' = SessionId(m, session[m])
    BY <2>1 DEF SessionId
  <2> QED
    BY <1>1, <2>1, <2>2 DEF OfThisSession, Sessions
<1> QED
  BY <1>2, <1>3

\* Sealed packets are data packets.
LEMMA SealedAreData == Types => SealedPackets \subseteq DataPackets
BY DEF Types, SealedPackets, Hellos, Nothing

\* Nonces: what net_peer_step seals has a number above all of its session.
LEMMA StepNonces ==
    ASSUME IInv, NEW n \in Nodes, NEW p, NEW s, StepEffect(n, p, s)
    PROVE  SealedInv' /\ NoncesAreFresh'
<1> USE DEF IInv
<1>1. /\ boot' = boot /\ s \in Sessions /\ Grows(session[n], s) /\ session' = [session EXCEPT ![n] = s]
      /\ SealedPackets \subseteq DataPackets /\ session'[n] = s /\ session[n] \in Sessions /\ Types'
  BY SealedAreData DEF StepEffect, Types
<1>2. \A x \in SealedPackets :
        /\ OfThisSession(x.from, x)'
        /\ x.sid[x.from] = boot'[x.from] => x.sequence <= session'[x.from].sent
  <2> TAKE x \in SealedPackets
  <2>1. x \in DataPackets /\ x.from \in Nodes /\ OfThisSession(x.from, x)
    BY <1>1 DEF SealedInv, DataPackets
  <2>2. /\ OfThisSession(x.from, x)'
        /\ x.sid[x.from] = boot[x.from] => session'[x.from].sent >= session[x.from].sent
    BY <1>1, <2>1, StaysOfThisSession
  <2>3. session[x.from].sent \in Nat /\ session'[x.from].sent \in Nat /\ x.sequence \in Nat
    BY <1>1, <2>1, Counters DEF Types
  <2>4. x.sid[x.from] = boot[x.from] => x.sequence <= session[x.from].sent
    BY DEF SealedInv
  <2> QED
    BY <1>1, <2>2, <2>3, <2>4
<1>3. ASSUME NEW x, Seals(n, session[n], s, x)
      PROVE  /\ OfThisSession(x.from, x)' /\ x.sequence <= session'[x.from].sent
             /\ \A y \in SealedPackets :
                  ~(y.from = x.from /\ y.sid = x.sid /\ y.sequence = x.sequence)
  <2>1. x \in DataPackets /\ x.from = n /\ x.sid = SessionId(n, s) /\ x.sequence = s.sent /\ s.active
    BY <1>3 DEF Seals
  <2>2. x.sid[n] = boot[n] /\ boot[n] \in Nat
    BY <1>1, <2>1, OwnBoot DEF Types
  <2>3. SessionId(n, session[n])' = SessionId(n, s)
    BY <1>1 DEF SessionId
  <2>4. OfThisSession(n, x)'
    BY <1>1, <2>1, <2>2, <2>3 DEF OfThisSession
  <2>5. ASSUME NEW y \in SealedPackets, y.from = x.from, y.sid = x.sid, y.sequence = x.sequence
        PROVE  FALSE
    <3>1. session[n].active /\ y.sequence <= session[n].sent
      BY <2>1, <2>2, <2>5 DEF SealedInv, OfThisSession
    <3>2. x.sequence > session[n].sent
      BY <1>3, <3>1 DEF Seals
    <3> QED
      BY <1>1, <2>1, <2>5, <3>1, <3>2 DEF Sessions
  <2> QED
    BY <1>1, <2>1, <2>4, <2>5 DEF Sessions
<1>4. \A x, y \in SealedPackets' :
        x.from = y.from /\ x.sid = y.sid /\ x.sequence = y.sequence => x = y
  <2>1. \A x, y \in SealedPackets :
          x.from = y.from /\ x.sid = y.sid /\ x.sequence = y.sequence => x = y
    BY DEF NoncesAreFresh, SealedPackets
  <2>2. CASE SealedPackets' \subseteq SealedPackets
    BY <2>1, <2>2
  <2>3. ASSUME NEW x, Seals(n, session[n], s, x), SealedPackets' \subseteq SealedPackets \cup {x}
        PROVE  \A y, z \in SealedPackets' :
                 y.from = z.from /\ y.sid = z.sid /\ y.sequence = z.sequence => y = z
    BY <1>3, <2>1, <2>3
  <2> QED
    BY <2>2, <2>3 DEF StepEffect
<1>5. SealedInv'
  <2>1. CASE SealedPackets' \subseteq SealedPackets
    BY <1>2, <2>1 DEF SealedInv
  <2>2. ASSUME NEW x, Seals(n, session[n], s, x), SealedPackets' \subseteq SealedPackets \cup {x}
        PROVE  SealedInv'
    BY <1>2, <1>3, <2>2 DEF SealedInv
  <2> QED
    BY <2>1, <2>2 DEF StepEffect
<1> QED
  BY <1>4, <1>5 DEF NoncesAreFresh, SealedPackets

\* Packets opened: net_session_open takes a number above all of its session.
LEMMA StepOpened ==
    ASSUME IInv, NEW n \in Nodes, NEW p, NEW s, StepEffect(n, p, s)
    PROVE  OpenedInv' /\ OpenedOnceInOrder'
<1> USE DEF IInv
<1>1. /\ boot' = boot /\ s \in Sessions /\ Grows(session[n], s) /\ session' = [session EXCEPT ![n] = s]
      /\ session'[n] = s /\ session[n] \in Sessions /\ Types'
  BY DEF StepEffect, Types
<1>2. ASSUME NEW m \in Nodes, NEW x \in DataPackets, OfThisSession(m, x),
             x.sid[m] = boot[m] => x.sequence <= session[m].received
      PROVE  /\ OfThisSession(m, x)'
             /\ x.sid[m] = boot'[m] => x.sequence <= session'[m].received
  <2>1. /\ OfThisSession(m, x)'
        /\ x.sid[m] = boot[m] => session'[m].received >= session[m].received
    BY <1>1, <1>2, StaysOfThisSession
  <2>2. session[m].received \in Nat /\ session'[m].received \in Nat /\ x.sequence \in Nat
    BY <1>1, <1>2, Counters DEF Types
  <2> QED
    BY <1>1, <1>2, <2>1, <2>2
<1>3. \A m \in Nodes : \A i \in 1 .. Len(opened[m]) :
        /\ opened[m][i] \in DataPackets /\ OfThisSession(m, opened[m][i])
        /\ opened[m][i].sid[m] = boot[m] => opened[m][i].sequence <= session[m].received
  BY DEF Types, OpenedInv
<1>4. CASE opened' = opened
  <2>1. OpenedInv'
    <3> SUFFICES ASSUME NEW m \in Nodes, NEW i \in 1 .. Len(opened[m])
                 PROVE  /\ OfThisSession(m, opened[m][i])'
                        /\ opened[m][i].sid[m] = boot'[m] =>
                             opened[m][i].sequence <= session'[m].received
      BY <1>4 DEF OpenedInv
    <3>1. opened'[m][i] = opened[m][i]
      BY <1>4
    <3> QED
      BY <1>2, <1>3, <3>1 DEF OfThisSession
  <2> QED
    BY <1>4, <2>1 DEF OpenedOnceInOrder
<1>5. CASE /\ p \in DataPackets /\ net_session_open(n, session[n], p) /\ s.received >= p.sequence
           /\ opened' = [opened EXCEPT ![n] = Append(@, p)]
  <2>1. session[n].active /\ p.sid = SessionId(n, session[n]) /\ p.sequence > session[n].received
    BY <1>5 DEF net_session_open
  <2>2. p.sid[n] = boot[n] /\ boot[n] \in Nat
    BY <1>1, <2>1, OwnBoot DEF Types
  <2>3. OfThisSession(n, p)
    BY <2>1, <2>2 DEF OfThisSession
  <2>4. OfThisSession(n, p)'
    BY <1>1, <1>5, <2>3, StaysOfThisSession
  <2>5. /\ opened[n] \in Seq(DataPackets) /\ opened'[n] = Append(opened[n], p)
        /\ \A m \in Nodes : m # n => opened'[m] = opened[m]
    BY <1>5 DEF Types
  <2>6. /\ Len(opened'[n]) = Len(opened[n]) + 1 /\ Len(opened[n]) \in Nat
        /\ opened'[n][Len(opened[n]) + 1] = p
        /\ \A i \in 1 .. Len(opened[n]) : opened'[n][i] = opened[n][i]
    BY <1>5, <2>5
  <2>7. ASSUME NEW m \in Nodes, NEW i \in 1 .. Len(opened'[m])
        PROVE  /\ OfThisSession(m, opened[m][i])'
               /\ opened'[m][i].sid[m] = boot'[m] => opened'[m][i].sequence <= session'[m].received
    <3>1. CASE m = n /\ i = Len(opened[n]) + 1
      <4>1. opened'[m][i] = p
        BY <2>6, <3>1
      <4>2. OfThisSession(m, opened[m][i])'
        BY <2>4, <3>1, <4>1 DEF OfThisSession
      <4> QED
        BY <1>1, <1>5, <3>1, <4>1, <4>2 DEF Sessions, DataPackets
    <3>2. CASE ~(m = n /\ i = Len(opened[n]) + 1)
      <4>1. i \in 1 .. Len(opened[m]) /\ opened'[m][i] = opened[m][i]
        BY <2>5, <2>6, <3>2
      <4> QED
        BY <1>2, <1>3, <4>1 DEF OfThisSession
    <3> QED
      BY <3>1, <3>2
  <2>8. ASSUME NEW m \in Nodes, NEW i \in DOMAIN opened'[m], NEW j \in DOMAIN opened'[m], i < j,
               opened'[m][i].sid = opened'[m][j].sid
        PROVE  opened'[m][i].sequence < opened'[m][j].sequence
    <3>1. opened'[m] \in Seq(DataPackets) /\ opened[m] \in Seq(DataPackets)
      BY <1>1 DEF Types
    <3>2. i \in 1 .. Len(opened'[m]) /\ j \in 1 .. Len(opened'[m])
      BY <3>1
    <3>3. CASE m = n /\ j = Len(opened[n]) + 1
      <4>1. i \in 1 .. Len(opened[n]) /\ opened'[n][i] = opened[n][i] /\ opened'[n][j] = p
        BY <2>6, <2>8, <3>2, <3>3
      <4>2. opened[n][i].sequence <= session[n].received
        BY <2>2, <2>8, <3>3, <4>1 DEF OpenedInv
      <4>3. opened[n][i] \in DataPackets
        BY <2>5, <4>1
      <4>4. /\ opened[n][i].sequence \in Nat /\ p.sequence \in Nat
            /\ session[n].received \in Nat
        BY <1>1, <1>5, <4>3, Counters
      <4>5. opened[n][i].sequence < p.sequence
        BY <2>1, <4>2, <4>4
      <4> QED
        BY <3>3, <4>1, <4>5
    <3>4. CASE ~(m = n /\ j = Len(opened[n]) + 1)
      <4>1. /\ i \in DOMAIN opened[m] /\ j \in DOMAIN opened[m]
            /\ opened'[m][i] = opened[m][i] /\ opened'[m][j] = opened[m][j]
        BY <2>5, <2>6, <2>8, <3>1, <3>2, <3>4
      <4> QED
        BY <2>8, <4>1 DEF OpenedOnceInOrder
    <3> QED
      BY <3>3, <3>4
  <2>9. OpenedInv'
    BY <2>7 DEF OpenedInv
  <2>10. OpenedOnceInOrder'
    BY <2>8 DEF OpenedOnceInOrder
  <2> QED
    BY <2>9, <2>10
<1> QED
  BY <1>4, <1>5 DEF StepEffect

\* Kept: what a session sealed before stays where it was or is submitted, and
\* the buffer was empty when net_peer_step sealed one more.
LEMMA StepKept ==
    ASSUME IInv, NEW n \in Nodes, NEW p, NEW s, StepEffect(n, p, s)
    PROVE  SealedPacketsAreKept'
<1> USE DEF IInv
<1>1. /\ boot' = boot /\ s \in Sessions /\ Grows(session[n], s) /\ session' = [session EXCEPT ![n] = s]
      /\ session[n] \in Sessions /\ Types'
      /\ \A m \in Nodes : submitted \cup {pending[m]} \subseteq submitted' \cup {pending'[m], Nothing}
  BY DEF StepEffect, Types
<1>2. ASSUME NEW m \in Nodes, NEW k \in 1 .. session[m].sent
      PROVE  \E x \in submitted' \cup {pending'[m]} :
                /\ x.kind \in {"request", "reply"} /\ x.from = m
                /\ x.sid = SessionId(m, session[m]) /\ x.sequence = k
  <2>1. PICK x \in submitted \cup {pending[m]} :
                /\ x.kind \in {"request", "reply"} /\ x.from = m
                /\ x.sid = SessionId(m, session[m]) /\ x.sequence = k
    BY DEF SealedPacketsAreKept
  <2>2. x # Nothing
    BY <2>1 DEF Nothing
  <2> QED
    BY <1>1, <2>1, <2>2
<1>3. \A m \in Nodes : m # n => session'[m] = session[m]
  BY <1>1 DEF Types
<1>4. session'[n] = s
  BY <1>1 DEF Types
<1>5. \A m \in Nodes : session[m].sent >= 1 =>
          SessionId(m, session[m])' = SessionId(m, session[m])
  <2> SUFFICES ASSUME NEW m \in Nodes, session[m].sent >= 1
               PROVE  SessionId(m, session[m])' = SessionId(m, session[m])
    OBVIOUS
  <2>1. CASE m = n
    <3>1. session[n].active
      BY <1>1, <2>1 DEF Sessions
    <3>2. s.remote = session[n].remote
      BY <1>1, <3>1 DEF Grows
    <3> QED
      BY <1>1, <1>4, <2>1, <3>2 DEF SessionId
  <2>2. CASE m # n
    BY <1>1, <1>3, <2>2 DEF SessionId
  <2> QED
    BY <2>1, <2>2
<1>6. ASSUME NEW m \in Nodes, NEW k \in 1 .. session[m].sent
      PROVE  \E x \in submitted' \cup {pending'[m]} :
                /\ x.kind \in {"request", "reply"} /\ x.from = m
                /\ x.sid = SessionId(m, session[m])' /\ x.sequence = k
  <2>1. session[m].sent \in Nat
    BY SessionConstants DEF Types, Sessions
  <2>2. session[m].sent >= 1
    BY <2>1
  <2> QED
    BY <1>2, <1>5, <2>2
<1>7. ASSUME s.sent # session[n].sent
      PROVE  /\ s.sent = session[n].sent + 1
             /\ \E x \in submitted' \cup {pending'[n]} :
                   /\ x.kind \in {"request", "reply"} /\ x.from = n
                   /\ x.sid = SessionId(n, session[n])' /\ x.sequence = s.sent
  <2>1. PICK x \in submitted' \cup {pending'[n]} :
            s.sent = session[n].sent + 1 /\ Seals(n, session[n], s, x)
    BY <1>7 DEF StepEffect
  <2>2. SessionId(n, session[n])' = SessionId(n, s)
    BY <1>1, <1>4 DEF SessionId
  <2> QED
    BY <2>1, <2>2 DEF Seals, DataPackets
<1>8. ASSUME NEW m \in Nodes, NEW k \in 1 .. session'[m].sent
      PROVE  \E x \in submitted' \cup {pending'[m]} :
                /\ x.kind \in {"request", "reply"} /\ x.from = m
                /\ x.sid = SessionId(m, session[m])' /\ x.sequence = k
  <2>1. CASE k \in 1 .. session[m].sent
    BY <1>6, <2>1
  <2>2. CASE k \notin 1 .. session[m].sent
    <3>1. session[n].sent \in Nat /\ s.sent \in Nat
      BY <1>1, SessionConstants DEF Sessions
    <3>2. m = n /\ s.sent # session[n].sent
      BY <1>3, <1>4, <2>2
    <3>3. k = s.sent
      BY <1>4, <1>7, <2>2, <3>1, <3>2
    <3> QED
      BY <1>7, <3>2, <3>3
  <2> QED
    BY <2>1, <2>2
<1> QED
  BY <1>8 DEF SealedPacketsAreKept

\* A restart: the new boot is larger than every boot in an id.
LEMMA RestartIInv ==
    ASSUME IInv, NEW n \in Nodes, Restart(n)
    PROVE  IInv'
<1> USE DEF IInv
<1>1. /\ boot' = [boot EXCEPT ![n] = @ + 1] /\ session' = [session EXCEPT ![n] = Fresh]
      /\ pending' = [pending EXCEPT ![n] = Nothing] /\ UNCHANGED <<net, submitted, opened>>
  BY DEF Restart
<1>2. Fresh \in Sessions
  BY SessionConstants DEF Fresh, Sessions
<1>3. Types'
  <2>1. boot[n] + 1 \in 1 .. MaxBoots
    BY SessionConstants DEF Types, Restart
  <2> QED
    BY <1>1, <1>2, <2>1 DEF Types, Nothing
<1>4. SealedPackets' \subseteq SealedPackets
  <2>1. Nothing.kind = "none"
    BY DEF Nothing
  <2> QED
    BY <1>1, <2>1 DEF SealedPackets, Types
<1>5. ASSUME NEW m \in Nodes, NEW p \in DataPackets, OfThisSession(m, p)
      PROVE  /\ OfThisSession(m, p)'
             /\ m = n => p.sid[m] # boot'[m]
             /\ m # n => boot'[m] = boot[m] /\ session'[m] = session[m]
  <2>1. p.sid[m] \in Nat /\ boot[m] \in Nat
    BY DEF Types, DataPackets
  <2>2. CASE m = n
    <3>1. boot'[m] = boot[m] + 1
      BY <1>1, <2>2 DEF Types
    <3> QED
      BY <1>5, <2>1, <2>2, <3>1 DEF OfThisSession
  <2>3. CASE m # n
    <3>1. boot'[m] = boot[m] /\ session'[m] = session[m]
      BY <1>1, <2>3 DEF Types
    <3>2. SessionId(m, session[m])' = SessionId(m, session[m])
      BY <3>1 DEF SessionId
    <3> QED
      BY <1>5, <2>3, <3>1, <3>2 DEF OfThisSession
  <2> QED
    BY <2>2, <2>3
<1>6. SealedInv'
  <2> SUFFICES ASSUME NEW x \in SealedPackets'
               PROVE  /\ OfThisSession(x.from, x)'
                      /\ x.sid[x.from] = boot'[x.from] => x.sequence <= session'[x.from].sent
    BY DEF SealedInv
  <2>1. x \in SealedPackets /\ x \in DataPackets /\ x.from \in Nodes /\ OfThisSession(x.from, x)
    BY <1>4, SealedAreData DEF SealedInv, DataPackets
  <2> QED
    BY <1>5, <2>1 DEF SealedInv
<1>7. OpenedInv'
  <2> SUFFICES ASSUME NEW m \in Nodes, NEW i \in 1 .. Len(opened[m])
               PROVE  /\ OfThisSession(m, opened[m][i])'
                      /\ opened[m][i].sid[m] = boot'[m] => opened[m][i].sequence <= session'[m].received
    BY <1>1 DEF OpenedInv
  <2> DEFINE x == opened[m][i]
  <2>1. x \in DataPackets /\ OfThisSession(m, x)
        /\ (x.sid[m] = boot[m] => x.sequence <= session[m].received)
    BY DEF Types, OpenedInv
  <2>2. x' = x
    BY <1>1
  <2> HIDE DEF x
  <2>3. /\ m = n => x.sid[m] # boot'[m]
        /\ m # n => boot'[m] = boot[m] /\ session'[m] = session[m]
        /\ OfThisSession(m, x)'
    BY <1>5, <2>1, <2>2 DEF OfThisSession
  <2> QED
    BY <2>1, <2>2, <2>3 DEF x
<1>8. NoncesAreFresh' /\ OpenedOnceInOrder'
  BY <1>1, <1>4 DEF NoncesAreFresh, OpenedOnceInOrder, SealedPackets
<1>9. SealedPacketsAreKept'
  <2> SUFFICES ASSUME NEW m \in Nodes, NEW k \in 1 .. session'[m].sent
               PROVE  \E x \in submitted' \cup {pending'[m]} :
                         /\ x.kind \in {"request", "reply"} /\ x.from = m
                         /\ x.sid = SessionId(m, session[m])' /\ x.sequence = k
    BY DEF SealedPacketsAreKept
  <2>1. m # n
    BY <1>1 DEF Types, Fresh
  <2>2. /\ session'[m] = session[m] /\ boot'[m] = boot[m] /\ pending'[m] = pending[m]
        /\ submitted' = submitted
    BY <1>1, <2>1 DEF Types
  <2>3. SessionId(m, session[m])' = SessionId(m, session[m])
    BY <2>2 DEF SessionId
  <2> QED
    BY <2>2, <2>3 DEF SealedPacketsAreKept
<1> QED
  BY <1>3, <1>6, <1>7, <1>8, <1>9

\* At the first boot nothing is sealed and nothing is opened.
LEMMA InitIInv == SessionInit => IInv
<1> SUFFICES ASSUME SessionInit PROVE IInv
  OBVIOUS
<1>1. Fresh \in Sessions /\ Nothing.kind = "none" /\ 1 \in 1 .. MaxBoots
  BY SessionConstants DEF Fresh, Sessions, Nothing
<1>2. Types
  BY <1>1 DEF SessionInit, Types
<1>5. SealedPacketsAreKept
  BY DEF SessionInit, Fresh, SealedPacketsAreKept
<1>3. SealedPackets = {}
  BY <1>1 DEF SessionInit, SealedPackets
<1>4. \A n \in Nodes : opened[n] = <<>>
  BY DEF SessionInit
<1> QED
  BY <1>2, <1>3, <1>4, <1>5 DEF IInv, SealedInv, OpenedInv, NoncesAreFresh, OpenedOnceInOrder, SealedPackets

\* The invariant is inductive.
LEMMA NextIInv == IInv /\ [SessionNext]_sessionVars => IInv'
<1> SUFFICES ASSUME IInv, [SessionNext]_sessionVars PROVE IInv'
  OBVIOUS
<1>1. ASSUME NEW n \in Nodes, Step(n) PROVE IInv'
  <2>1. \E tx, tx2, due : \E p \in Arriving(n) : net_peer_step(n, tx, p, due, tx2)
    BY <1>1, Zenon DEF Step
  <2>2. PICK tx, tx2, due : \E p \in Arriving(n) : net_peer_step(n, tx, p, due, tx2)
    BY <2>1
  <2>3. PICK p \in Arriving(n) : net_peer_step(n, tx, p, due, tx2)
    BY <2>2
  <2>4. PICK s : StepEffect(n, p, s)
    BY <2>3, PeerStepEffect DEF IInv
  <2>5. Types'
    BY <2>4 DEF StepEffect
  <2> QED
    BY <2>4, <2>5, StepNonces, StepOpened, StepKept DEF IInv
<1>2. ASSUME NEW n \in Nodes, Restart(n) PROVE IInv'
  BY <1>2, RestartIInv
<1>3. CASE UNCHANGED sessionVars
  <2> USE <1>3 DEF sessionVars, IInv
  <2>1. Types' /\ SealedPackets' = SealedPackets
    BY DEF Types, SealedPackets, Nothing
  <2>2. \A m, p : OfThisSession(m, p)' <=> OfThisSession(m, p)
    BY DEF OfThisSession, SessionId
  <2>3. SealedInv'
    BY <2>1, <2>2 DEF SealedInv
  <2>4. OpenedInv'
    BY DEF OpenedInv, OfThisSession, SessionId
  <2>5. NoncesAreFresh' /\ OpenedOnceInOrder'
    BY DEF NoncesAreFresh, OpenedOnceInOrder
  <2>6. SealedPacketsAreKept'
    BY DEF SealedPacketsAreKept, SessionId
  <2> QED
    BY <2>1, <2>3, <2>4, <2>5, <2>6
<1> QED
  BY <1>1, <1>2, <1>3 DEF SessionNext

LEMMA Invariance == SessionSpec => []IInv
BY InitIInv, NextIInv, PTL DEF SessionSpec

-----------------------------------------------------------------------------
(* The theorem *)

\* The sessions of session.c and the buffer of peer.c keep their promises for
\* any number of boots and packets: no two packets are sealed under one session
\* id and sequence number, none is opened twice or out of order, every sealed
\* packet is handed to the device or still in the buffer, and the counters stay
\* within their width.
THEOREM SessionSafe == SessionSpec => []SessionSound
<1>1. IInv => SessionTypeOK
  BY DEF IInv, Types, Sessions, SessionTypeOK
<1>2. IInv => SessionSound
  BY <1>1 DEF IInv, SessionSound
<1> QED
  BY <1>2, Invariance, PTL
=============================================================================
