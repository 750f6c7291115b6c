----------------------------- MODULE NetSession -----------------------------
(***************************************************************************)
(* The authenticated session between the two provisioned nodes,            *)
(* kernel/net/session.c, under the packet pump of kernel/net/peer.c.       *)
(*                                                                         *)
(* The network between the peers may lose, delay, reorder and duplicate    *)
(* packets: `net' only grows, a packet in it may be received any number of *)
(* times, and a packet that is transmitted may never enter it.  A node may *)
(* restart; it then has a fresh exchange secret, the number of the boot.   *)
(* A peer whose device or store failed does nothing more until then.  The  *)
(* session id is a hash of both hellos, so it is the pair of boots.        *)
(* Keys, signatures and the AEAD are ideal: a packet opens exactly when it *)
(* was sealed by the peer under the same session id.                       *)
(*                                                                         *)
(* Bodies are of two kinds, a request, which the receiver answers, and a   *)
(* reply, which it does not: a SUMMARY and an UPDATE of replica.c, or a    *)
(* MIGRATION packet and its ACK.                                           *)
(***************************************************************************)
EXTENDS Naturals, Sequences, SequencesExt, FiniteSets

CONSTANTS Nodes,        \* the provisioned pair
          MaxBoots,     \* bound: boots of a node
          MaxSequence,  \* UINT64_MAX, the sequence that ends a session
          Outcomes      \* what may happen to a packet: "busy", "sent", "lost"

ASSUME SessionConstants ==
    Cardinality(Nodes) = 2 /\ MaxBoots \in Nat \ {0} /\ MaxSequence \in Nat
    /\ Outcomes \subseteq {"busy", "sent", "lost"}

VARIABLES
    boot,       \* boot[n]: the exchange secret of n
    session,    \* session[n]: struct net_session
    pending,    \* pending[n]: the one output buffer of struct net_peer
    net,        \* the packets that may arrive
    submitted,  \* ghost: the packets handed to the device
    opened      \* ghost: opened[n], the packets n accepted, over all its boots

sessionVars == <<boot, session, pending, net, submitted, opened>>

Peer(n) == CHOOSE m \in Nodes : m # n

Nothing == [kind |-> "none"]
Hello(n) == [kind |-> "hello", from |-> n, boot |-> boot[n]]

\* net_session_init
Fresh == [active |-> FALSE, remote |-> 0, sent |-> 0, received |-> 0]

SessionInit ==
    /\ boot = [n \in Nodes |-> 1] /\ session = [n \in Nodes |-> Fresh]
    /\ pending = [n \in Nodes |-> Nothing]
    /\ net = {} /\ submitted = {} /\ opened = [n \in Nodes |-> <<>>]

-----------------------------------------------------------------------------
(* session.c, on the session s of node n *)

SessionId(n, s) == [m \in Nodes |-> IF m = n THEN boot[n] ELSE s.remote]

\* Mutant: a repeated hello starts the counters again.
AcceptAgain(s, hello) == [active |-> TRUE, remote |-> hello.boot, sent |-> 0, received |-> 0]

\* An active session does not change, whether the hello is the same or not.
net_session_accept(s, hello) ==
    IF s.active THEN s
    ELSE [active |-> TRUE, remote |-> hello.boot, sent |-> 0, received |-> 0]

CanSeal(s) == s.active /\ s.sent # MaxSequence

Sealed(n, s, kind) ==
    [kind |-> kind, from |-> n, sid |-> SessionId(n, s), sequence |-> s.sent + 1]

\* net_session_open accepts the packet.
net_session_open(n, s, p) == s.active /\ p.sid = SessionId(n, s) /\ p.sequence > s.received

-----------------------------------------------------------------------------
(* peer.c *)

\* flush_pending: the device takes the packet, or is busy; what it takes may
\* be lost on the way.
Kept(p, tx) == IF tx = "busy" THEN p ELSE Nothing
Taken(p, tx) == IF tx = "busy" THEN {} ELSE {p} \ {Nothing}
Carried(p, tx) == IF tx = "lost" THEN {} ELSE Taken(p, tx)

\* The session and the output buffer after the datagram p.
Received(n, p, buffer) ==
    LET s == session[n]
        next == [s EXCEPT !.received = p.sequence]
    IN  CASE p.kind = "hello" -> [session |-> net_session_accept(s, p), pending |-> buffer]
          [] p.kind # "hello" /\ ~net_session_open(n, s, p) ->
               [session |-> s, pending |-> buffer]
          [] OTHER ->
               IF p.kind = "request" /\ CanSeal(next)
               THEN [session |-> [next EXCEPT !.sent = @ + 1],
                     pending |-> Sealed(n, next, "reply")]
               ELSE [session |-> next, pending |-> buffer]

\* Mutant: the hello is sent only until the session is active.
HelloUntilActive(s) == ~s.active

\* The hello is repeated until a packet of the peer has been opened.
NeedsHello(s) == s.received = 0

\* Never consume a request requiring a response while the sole buffer is busy.
MayReceive(buffer) == buffer = Nothing

\* net_peer_step: flush, receive at most one datagram (p, or Nothing when none
\* arrived), produce a hello or a request when its timer is due, and flush.
net_peer_step(n, tx, p, due, tx2) ==
    LET first == Kept(pending[n], tx)
        r == IF p # Nothing /\ MayReceive(first) THEN Received(n, p, first)
             ELSE [session |-> session[n], pending |-> first]
        idle == r.pending = Nothing
        hello == idle /\ "hello" \in due /\ NeedsHello(r.session)
        asks == idle /\ ~hello /\ "summary" \in due /\ CanSeal(r.session)
        opens == /\ p # Nothing /\ MayReceive(first) /\ p.kind # "hello"
                 /\ net_session_open(n, session[n], p)
        second == CASE hello -> Hello(n)
                    [] asks -> Sealed(n, r.session, "request")
                    [] OTHER -> r.pending
    IN  /\ session' = [session EXCEPT ![n] =
                         IF asks THEN [r.session EXCEPT !.sent = @ + 1] ELSE r.session]
        /\ pending' = [pending EXCEPT ![n] = Kept(second, tx2)]
        /\ net' = net \cup Carried(pending[n], tx) \cup Carried(second, tx2)
        /\ submitted' = submitted \cup Taken(pending[n], tx) \cup Taken(second, tx2)
        /\ opened' = [opened EXCEPT ![n] = IF opens THEN Append(@, p) ELSE @]
        /\ UNCHANGED boot

\* A restart: net_peer_start with a fresh exchange secret.
Restart(n) ==
    /\ boot[n] < MaxBoots
    /\ boot' = [boot EXCEPT ![n] = @ + 1]
    /\ session' = [session EXCEPT ![n] = Fresh]
    /\ pending' = [pending EXCEPT ![n] = Nothing]
    /\ UNCHANGED <<net, submitted, opened>>

Timers == {{}, {"hello"}, {"summary"}}

\* A packet that does not open has the effect of no packet.
Arriving(n) ==
    {p \in net : p.from = Peer(n) /\ (p.kind = "hello" \/ net_session_open(n, session[n], p))}
      \cup {Nothing}

Step(n) ==
    \E tx \in (IF pending[n] = Nothing THEN {"sent"} ELSE Outcomes), tx2 \in Outcomes :
    \E due \in Timers, p \in Arriving(n) :
        net_peer_step(n, tx, p, due, tx2)

SessionNext == \E n \in Nodes : Step(n) \/ Restart(n)

SessionSpec == SessionInit /\ [][SessionNext]_sessionVars

\* The steps whose flushes get through, and those that take the hello of the
\* peer's present boot.
StepSends(n) ==
    "sent" \in Outcomes /\
    \E p \in Arriving(n) : net_peer_step(n, "sent", p, {"hello"}, "sent")
StepTakesHello(n) ==
    /\ Hello(Peer(n)) \in net
    /\ \E tx2 \in Outcomes, due \in Timers :
          net_peer_step(n, "sent", Hello(Peer(n)), due, tx2)

\* The caller polls regularly, the network delivers a packet that is sent
\* again and again, and takes one that is offered again and again.
SessionFairness ==
    \A n \in Nodes : SF_sessionVars(StepSends(n)) /\ SF_sessionVars(StepTakesHello(n))

SessionFairSpec == SessionSpec /\ SessionFairness

-----------------------------------------------------------------------------
(* Properties *)

DataPackets ==
    [kind : {"request", "reply"}, from : Nodes, sid : [Nodes -> 1 .. MaxBoots],
     sequence : 1 .. MaxSequence]
Hellos == [kind : {"hello"}, from : Nodes, boot : 1 .. MaxBoots]

\* Type correctness, with the counters of a session within their width.
SessionTypeOK ==
    /\ boot \in [Nodes -> 1 .. MaxBoots]
    /\ session \in [Nodes -> [active : BOOLEAN, remote : 0 .. MaxBoots,
                              sent : 0 .. MaxSequence, received : 0 .. MaxSequence]]
    /\ pending \in [Nodes -> DataPackets \cup Hellos \cup {Nothing}]
    /\ net \subseteq submitted /\ submitted \subseteq DataPackets \cup Hellos

\* Whatever the network repeats, delays or replays from an earlier boot, a
\* node opens no packet twice, and within a session it opens them in the order
\* they were sealed: the receive_sequence check of net_session_open, and the
\* session id that covers both hellos.
OpenedOnceInOrder ==
    \A n \in Nodes : \A i, j \in DOMAIN opened[n] :
        i < j /\ opened[n][i].sid = opened[n][j].sid =>
            opened[n][i].sequence < opened[n][j].sequence

\* A nonce is used once: no two different packets are sealed by one node under
\* the same session id and sequence, because an established session never
\* starts its counters again (session.h, net_session_accept).
NoncesAreFresh ==
    LET out == submitted \cup {pending[n] : n \in Nodes}
    IN  \A p, q \in {x \in out : x.kind \in {"request", "reply"}} :
          p.from = q.from /\ p.sid = q.sid /\ p.sequence = q.sequence => p = q

\* What a session sealed is on its way or still in the buffer: the peer never
\* overwrites an answer that waits for the device.
SealedPacketsAreKept ==
    \A n \in Nodes : \A k \in 1 .. session[n].sent :
        \E p \in submitted \cup {pending[n]} :
            /\ p.kind \in {"request", "reply"} /\ p.from = n
            /\ p.sid = SessionId(n, session[n]) /\ p.sequence = k

\* Between two nodes that stay up the session is established, both ways,
\* whatever hellos are lost: a hello is repeated until the peer has answered
\* under the session.
BothSidesEstablish ==
    <>(\A n \in Nodes : session[n].active /\ session[n].remote = boot[Peer(n)])

\* The session keeps its promises to the layer above: no packet is opened twice
\* or out of order, none is lost in the buffer, and no nonce is used again.
SessionSound == SessionTypeOK /\ OpenedOnceInOrder /\ NoncesAreFresh /\ SealedPacketsAreKept
=============================================================================
