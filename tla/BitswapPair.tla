----------------------------- MODULE BitswapPair -----------------------------
(***************************************************************************)
(* Two Bitswap engines connected to each other, driven by the embedders of *)
(* test_bitswap_multiprotocol (src/iroh-bitswap/src/behaviour.rs), one of  *)
(* whose cases, both nodes on the default configuration, is the exchange  *)
(* of test_bitswap_behaviour:                                              *)
(*                                                                         *)
(*  - n1 (peer1 of the test) answers every InboundRequest::WantHave with   *)
(*    send_have_block and every InboundRequest::Want with send_block;      *)
(*  - n2 (peer2) dials n1; on SwarmEvent::ConnectionEstablished it calls   *)
(*    find_providers when the case's protocol is 1.2.0 and want_block      *)
(*    otherwise, on FindProvidersResult::Ok it calls want_block with the   *)
(*    provider, and WantResult::Ok ends the test with the block.           *)
(*                                                                         *)
(* Each node is an instance of Bitswap whose only peer is the other node.  *)
(* A message NotifyHandler hands to the connection handler travels on the *)
(* wire to the other node's inject_event(HandlerEvent::Message); the      *)
(* wire of a connection is ordered and loses what is in flight when the   *)
(* connection closes.  Each swarm runs its behaviour and its embedder on  *)
(* one task: the embedder's reaction to an event is the next step of that *)
(* node, before the swarm is polled again.                                 *)
(***************************************************************************)
EXTENDS Naturals, Sequences, SequencesExt

CONSTANTS
    n1, n2,          \* the two nodes' peer ids
    Cids,            \* the block of the test
    NoProto,         \* model value: no protocol
    MaxEvents,       \* bound: length of a node's event queue
    MaxOps,          \* bound: calls and swarm events of one node
    MaxFaults,       \* bound: connection losses
    MaxWire          \* bound: messages in flight in one direction

VARIABLES
    ledgers1, knownPeers1, wantlist1, events1, connectionLimit1, conns1, agreed1, opsLeft1,
    ledgers2, knownPeers2, wantlist2, events2, connectionLimit2, conns2, agreed2, opsLeft2,
    wire12,          \* messages from n1 to n2 in flight on the connection
    wire21,          \* messages from n2 to n1 in flight on the connection
    link,            \* the TCP connection: "down", "up" or "closed"
    call1, call2,    \* the call the embedder makes in reaction to an event
    got,             \* WantResult::Ok events n2's embedder has received
    faults,          \* connection losses so far
    case,            \* the TestCase the run executes
    receivedHave     \* the test's received_have flag, shared by both tasks

node1 == <<ledgers1, knownPeers1, wantlist1, events1, connectionLimit1, conns1, agreed1, opsLeft1>>
node2 == <<ledgers2, knownPeers2, wantlist2, events2, connectionLimit2, conns2, agreed2, opsLeft2>>
pairVars == <<node1, node2, wire12, wire21, link, call1, call2, got, faults, case, receivedHave>>

\* The cases of test_bitswap_multiprotocol: each node's protocol_ids and the
\* protocol both ledgers must record.
Cases ==
    { [peer1 |-> <<"V120">>, peer2 |-> <<"V120">>, expected |-> "V120"],
      [peer1 |-> <<"V120", "V110", "V100">>, peer2 |-> <<"V120", "V110", "V100">>,
       expected |-> "V120"],
      [peer1 |-> <<"V120", "V110", "V100">>, peer2 |-> <<"V110", "V100">>,
       expected |-> "V110"],
      [peer1 |-> <<"V120", "V110", "V100">>, peer2 |-> <<"V100">>, expected |-> "V100"],
      [peer1 |-> <<"V120", "V110", "V100">>, peer2 |-> <<"V120">>, expected |-> "V120"],
      [peer1 |-> <<"V120", "V110", "V100", "Legacy">>, peer2 |-> <<"Legacy">>,
       expected |-> "Legacy"] }

\* supports_providers: peer2 looks for providers only over 1.2.0.
Supports == case.expected = "V120"

\* One engine per node, whose only peer is the other node.  Its protocol
\* configuration is the case's, which the pair hands to HandlerNegotiated
\* (Agreed below): the instances' own LocalProtocols and RemoteProtocols are
\* not used.  With one peer the LRU capacities do not matter.
B1 == INSTANCE Bitswap WITH
        LocalProtocols <- <<>>,
        Peers <- {n2}, RemoteProtocols <- [p \in {n2} |-> {}],
        MaxLedgers <- 1, MaxCachedPeers <- 1, MaxProviders <- 1, MaxConns <- 1,
        ledgers <- ledgers1, knownPeers <- knownPeers1, wantlist <- wantlist1,
        events <- events1, connectionLimit <- connectionLimit1, conns <- conns1,
        agreed <- agreed1, opsLeft <- opsLeft1
B2 == INSTANCE Bitswap WITH
        LocalProtocols <- <<>>,
        Peers <- {n1}, RemoteProtocols <- [p \in {n1} |-> {}],
        MaxLedgers <- 1, MaxCachedPeers <- 1, MaxProviders <- 1, MaxConns <- 1,
        ledgers <- ledgers2, knownPeers <- knownPeers2, wantlist <- wantlist2,
        events <- events2, connectionLimit <- connectionLimit2, conns <- conns2,
        agreed <- agreed2, opsLeft <- opsLeft2

\* What each handler negotiates: peer1 with peer2's protocols, and peer2
\* with peer1's.
Agreed1 == B1!SelectProtocol(case.peer1, ToSet(case.peer2))
Agreed2 == B2!SelectProtocol(case.peer2, ToSet(case.peer1))

NoCall == [m |-> "none"]

\* peer1's loop: the call it makes for an event of its swarm.
React1(e) ==
    CASE e.kind = "InboundWantHave" -> [m |-> "send_have_block", c |-> e.cid]
      [] e.kind = "InboundWant"     -> [m |-> "send_block", c |-> e.cid]
      [] OTHER                      -> NoCall

\* peer2's loop: want the block from the provider find_providers reported.
React2(e) ==
    IF e.kind = "FindProvidersOk" THEN [m |-> "want_block", c |-> e.cid] ELSE NoCall

-----------------------------------------------------------------------------
Init ==
    /\ B1!Init /\ B2!Init
    /\ wire12 = <<>> /\ wire21 = <<>>
    /\ link = "down"
    /\ call1 = NoCall /\ call2 = NoCall
    /\ got = 0
    /\ faults = 0
    /\ case \in Cases
    /\ receivedHave = ~Supports

\* Swarm::dial(&mut swarm2, addr): the connection comes up.
Dial ==
    /\ link = "down"
    /\ link' = "up"
    /\ UNCHANGED <<node1, node2, wire12, wire21, call1, call2, got, faults, case, receivedHave>>

(* Node n1 *)

Established1 ==
    /\ link = "up" /\ call1 = NoCall
    /\ B1!ConnectionEstablished(n2)
    /\ UNCHANGED <<node2, wire12, wire21, link, call1, call2, got, faults, case, receivedHave>>

\* The handler reports the protocol it negotiated, once per connection.
HandlerConnected1 ==
    /\ link = "up" /\ call1 = NoCall /\ agreed1[n2] = NoProto
    /\ B1!HandlerNegotiated(n2, Agreed1)
    /\ UNCHANGED <<node2, wire12, wire21, link, call1, call2, got, faults, case, receivedHave>>

\* poll returns NotifyHandler: the message goes on the wire.
Send1 ==
    /\ call1 = NoCall /\ Len(wire12) < MaxWire
    /\ B1!PollLedger(n2)
    /\ wire12' = IF link = "up" THEN Append(wire12, ledgers1.led[n2].msg) ELSE wire12
    /\ UNCHANGED <<node2, wire21, link, call1, call2, got, faults, case, receivedHave>>

\* poll returns an event; the embedder picks its reaction.
Event1 ==
    /\ call1 = NoCall
    /\ B1!PollEvent
    /\ call1' = React1(Head(events1))
    /\ UNCHANGED <<node2, wire12, wire21, link, call2, got, faults, case, receivedHave>>

\* send_have_block is followed by received_have.store(true).
Embed1 ==
    /\ call1 # NoCall
    /\ \/ /\ call1.m = "send_have_block" /\ B1!SendHaveBlock(n2, call1.c)
          /\ receivedHave' = TRUE
       \/ /\ call1.m = "send_block" /\ B1!SendBlock(n2, call1.c)
          /\ UNCHANGED receivedHave
    /\ call1' = NoCall
    /\ UNCHANGED <<node2, wire12, wire21, link, call2, got, faults, case>>

\* The handler delivers the next message from n2.
Receive1 ==
    /\ call1 = NoCall /\ wire21 # <<>>
    /\ LET m == Head(wire21)
       IN B1!InboundMessage(n2, m.blocks, m.haves, m.wl)
    /\ wire21' = Tail(wire21)
    /\ UNCHANGED <<node2, wire12, link, call1, call2, got, faults, case, receivedHave>>

Tick1 ==
    /\ B1!Tick(n2)
    /\ UNCHANGED <<node2, wire12, wire21, link, call1, call2, got, faults, case, receivedHave>>

Closed1 ==
    /\ link = "closed" /\ call1 = NoCall
    /\ B1!ConnectionClosed(n2)
    /\ UNCHANGED <<node2, wire12, wire21, link, call1, call2, got, faults, case, receivedHave>>

(* Node n2 *)

\* The swarm reports ConnectionEstablished and the embedder calls
\* find_providers next, or want_block from peer1 when the case's protocol
\* has no presences.
Established2 ==
    LET c == CHOOSE c \in Cids : TRUE
    IN
    /\ link = "up" /\ call2 = NoCall
    /\ B2!ConnectionEstablished(n1)
    /\ call2' = IF Supports THEN [m |-> "find_providers", c |-> c]
                             ELSE [m |-> "want_block", c |-> c]
    /\ UNCHANGED <<node1, wire12, wire21, link, call1, got, faults, case, receivedHave>>

HandlerConnected2 ==
    /\ link = "up" /\ call2 = NoCall /\ agreed2[n1] = NoProto
    /\ B2!HandlerNegotiated(n1, Agreed2)
    /\ UNCHANGED <<node1, wire12, wire21, link, call1, call2, got, faults, case, receivedHave>>

Send2 ==
    /\ call2 = NoCall /\ Len(wire21) < MaxWire
    /\ B2!PollLedger(n1)
    /\ wire21' = IF link = "up" THEN Append(wire21, ledgers2.led[n1].msg) ELSE wire21
    /\ UNCHANGED <<node1, wire12, link, call1, call2, got, faults, case, receivedHave>>

\* WantResult::Ok is the test's result; FindProvidersResult::Ok asks for
\* the block.
Event2 ==
    /\ call2 = NoCall
    /\ B2!PollEvent
    /\ call2' = React2(Head(events2))
    /\ got' = IF Head(events2).kind = "WantOk" THEN got + 1 ELSE got
    /\ UNCHANGED <<node1, wire12, wire21, link, call1, faults, case, receivedHave>>

Embed2 ==
    /\ call2 # NoCall
    /\ \/ call2.m = "find_providers" /\ B2!FindProviders(call2.c)
       \/ call2.m = "want_block" /\ B2!WantBlock(call2.c, <<n1>>)
    /\ call2' = NoCall
    /\ UNCHANGED <<node1, wire12, wire21, link, call1, got, faults, case, receivedHave>>

Receive2 ==
    /\ call2 = NoCall /\ wire12 # <<>>
    /\ LET m == Head(wire12)
       IN B2!InboundMessage(n1, m.blocks, m.haves, m.wl)
    /\ wire12' = Tail(wire12)
    /\ UNCHANGED <<node1, wire21, link, call1, call2, got, faults, case, receivedHave>>

Tick2 ==
    /\ B2!Tick(n1)
    /\ UNCHANGED <<node1, wire12, wire21, link, call1, call2, got, faults, case, receivedHave>>

Closed2 ==
    /\ link = "closed" /\ call2 = NoCall
    /\ B2!ConnectionClosed(n1)
    /\ UNCHANGED <<node1, wire12, wire21, link, call1, call2, got, faults, case, receivedHave>>

(* Faults *)

\* The connection breaks: what is in flight is lost.  The swarm reports
\* ConnectionEstablished for a connection before its ConnectionClosed, so a
\* loss is taken after both swarms have reported the connection.
Disconnect ==
    /\ link = "up" /\ faults < MaxFaults
    /\ conns1[n2] > 0 /\ conns2[n1] > 0
    /\ link' = "closed"
    /\ faults' = faults + 1
    /\ wire12' = <<>> /\ wire21' = <<>>
    /\ UNCHANGED <<node1, node2, call1, call2, got, case, receivedHave>>

\* The connection is dialled again once both swarms have reported the loss.
\* No code in the tree dials again (spec.md 4.5 says a pending message
\* triggers a new dial); the step is the environment's, with no fairness,
\* so behaviours in which the connection stays lost are kept.
Redial ==
    /\ link = "closed"
    /\ conns1[n2] = 0 /\ conns2[n1] = 0
    /\ link' = "up"
    /\ UNCHANGED <<node1, node2, wire12, wire21, call1, call2, got, faults, case, receivedHave>>

-----------------------------------------------------------------------------
Node1Step == Established1 \/ HandlerConnected1 \/ Send1 \/ Event1 \/ Embed1
             \/ Receive1 \/ Tick1 \/ Closed1
Node2Step == Established2 \/ HandlerConnected2 \/ Send2 \/ Event2 \/ Embed2
             \/ Receive2 \/ Tick2 \/ Closed2

Next == Dial \/ Node1Step \/ Node2Step \/ Disconnect \/ Redial

Spec == Init /\ [][Next]_pairVars

\* Each swarm task runs while it has work (the test drives both swarms in
\* a loop), its embedder reacts to every event, its handler delivers and
\* reports, the swarm reports connection events, timers complete, and the
\* dial of the test succeeds.  Nothing forces a redial after a loss: no code
\* in the tree dials again.
FairSpec ==
    /\ Spec
    /\ WF_pairVars(Dial)
    /\ WF_pairVars(Established1) /\ WF_pairVars(Established2)
    /\ WF_pairVars(HandlerConnected1) /\ WF_pairVars(HandlerConnected2)
    /\ WF_pairVars(Send1 \/ Event1) /\ WF_pairVars(Send2 \/ Event2)
    /\ WF_pairVars(Embed1) /\ WF_pairVars(Embed2)
    /\ WF_pairVars(Receive1) /\ WF_pairVars(Receive2)
    /\ WF_pairVars(Tick1) /\ WF_pairVars(Tick2)
    /\ WF_pairVars(Closed1) /\ WF_pairVars(Closed2)

-----------------------------------------------------------------------------
\* The assertions of test_bitswap_multiprotocol's loops hold at the events
\* they are made at, in a run with no loss as the test's: peer1's ledger of peer2 is
\* Connected(Some(expected_protocol)) at InboundRequest::Want; peer2's
\* ledger of peer1 is at FindProvidersResult::Ok and WantResult::Ok;
\* FindProvidersResult::Ok comes only in a case that supports providers;
\* peer1 has stored received_have by the time peer2 finds the provider and
\* by the time the block ends the test.
TestAssertionsHold ==
    [][ /\ Event1 /\ faults = 0 /\ Head(events1).kind = "InboundWant"
            => ledgers1.led[n2].conn = B1!Connected(case.expected)
        /\ Event2 /\ faults = 0 /\ Head(events2).kind \in {"FindProvidersOk", "WantOk"}
            => ledgers2.led[n1].conn = B2!Connected(case.expected)
        /\ Event2 /\ Head(events2).kind = "FindProvidersOk" => Supports
        /\ Event2 /\ Head(events2).kind \in {"FindProvidersOk", "WantOk"} => receivedHave
      ]_pairVars

\* Every case: peer2 eventually gets the block from peer1, through
\* find_providers and a Have presence over 1.2.0 or a direct want_block
\* otherwise, then the block, each carried by a message that waits for its
\* ledger's timer.
BlockTransferred == <>(got > 0)

\* The same, for a connection that may break: the block arrives unless
\* the connection is lost for good.  send_message takes a message from its
\* ledger before the handler writes it, so a loss can swallow a Want-Have,
\* a Have, a Want or the block, and no ledger sends it again; after a new
\* connection only peer2's loop, which calls find_providers or want_block
\* on every ConnectionEstablished, can ask again.
BlockTransferredOrAbandoned == <>(got > 0) \/ <>[](link = "closed")

\* Without a loss the block reaches peer2's embedder at most once (the
\* test returns on the first WantResult::Ok; the model keeps polling after
\* it): every message is sent once, as send_message takes it from the
\* ledger, and peer1 answers each Want once.  After a loss and a new
\* connection peer2's loop asks again while peer1 may still answer a Want
\* queued before the loss, so the block can arrive twice.
BlockDeliveredOnce == faults = 0 => got <= 1

=============================================================================
