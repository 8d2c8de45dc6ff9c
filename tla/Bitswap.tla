------------------------------- MODULE Bitswap -------------------------------
(***************************************************************************)
(* The Bitswap network behaviour of iroh-bitswap (src/iroh-bitswap/src/    *)
(* behaviour.rs): the global wantlist, the LRU of per-peer ledgers with    *)
(* their pending message, coalescing timer and connection state, the LRU   *)
(* of known peers, the event queue, and the swarm events that drive them.  *)
(*                                                                         *)
(* The engine is driven by one task (the libp2p swarm): every public call, *)
(* every inject_* callback and every poll is one atomic step here.  The    *)
(* swarm side is the environment: the number of live connections to each  *)
(* peer and the protocol their handlers negotiated.                        *)
(***************************************************************************)
EXTENDS Naturals, Sequences, SequencesExt, Wantlist, Lru, ProtocolSelect

CONSTANTS
    Peers,            \* remote peer ids
    LocalProtocols,   \* protocol_config.protocol_ids, in configuration order
    RemoteProtocols,  \* [Peers -> SUBSET ProtocolIds]: what each peer speaks
    MaxLedgers,       \* config.max_ledgers
    MaxCachedPeers,   \* config.max_cached_peers
    MaxProviders,     \* MAX_PROVIDERS
    MaxConns,         \* bound: live connections to one peer
    MaxEvents,        \* bound: length of the event queue
    MaxOps            \* bound: calls and swarm events in one behaviour

ASSUME MaxLedgers \in Nat \ {0} /\ MaxCachedPeers \in Nat \ {0}
ASSUME MaxProviders \in Nat /\ MaxConns \in Nat \ {0} /\ MaxEvents \in Nat

VARIABLES
    ledgers,          \* [lru: Seq(Peers), led: [Peers -> Ledger]]
    knownPeers,       \* [lru: Seq(Peers), proto: [Peers -> ProtoOpt]]
    wantlist,         \* the global Wantlist
    events,           \* queue of BitswapEvents for the embedder
    connectionLimit,  \* Bitswap.connection_limit
    conns,            \* swarm: live connections to each peer
    agreed,           \* swarm: protocol negotiated on the peer's connections
    opsLeft           \* calls and swarm events still allowed

vars == <<ledgers, knownPeers, wantlist, events, connectionLimit,
          conns, agreed, opsLeft>>

-----------------------------------------------------------------------------
(* ConnState *)
Disconnected == [st |-> "Disconnected", proto |-> NoProto]
Dialing      == [st |-> "Dialing", proto |-> NoProto]
Connected(x) == [st |-> "Connected", proto |-> x]
ConnStates   == {Disconnected, Dialing} \cup {Connected(x) : x \in ProtoOpt}

Ledgers == [msg: Messages, ready: BOOLEAN, conn: ConnStates]

\* Ledger::new: an empty message with the full flag set, a timer that has
\* already elapsed (sleep(0)), and no connection.
NewLedger == [msg |-> FreshMsg(TRUE), ready |-> TRUE, conn |-> Disconnected]

\* The protocol a peer's connection handler agrees on.
Negotiated(p) == SelectProtocol(LocalProtocols, RemoteProtocols[p])

Events == [kind: {"WantOk", "FindProvidersOk", "InboundWant",
                  "InboundWantHave", "InboundCancel"},
           peer: Peers, cid: Cids]

HasLedger(p) == p \in LruKeys(ledgers.lru)
Led(p) == ledgers.led[p]

-----------------------------------------------------------------------------
(* Ledger methods, on one ledger value. *)
LedgerWantBlock(L, c)     == [L EXCEPT !.msg.wl = WantBlockOp(@, c)]
LedgerCancelBlock(L, c)   == [L EXCEPT !.msg.wl = CancelOp(@, c)]
LedgerRemoveBlock(L, c)   == [L EXCEPT !.msg.wl = RemoveBlockOp(@, c)]
LedgerSendBlock(L, c)     == [L EXCEPT !.msg.blocks = @ \cup {c}]
LedgerWantHaveBlock(L, c) == [L EXCEPT !.msg.wl = WantHaveOp(@, c)]
LedgerRemoveWantBlock(L, c) == [L EXCEPT !.msg.wl = RemoveWantBlockOp(@, c)]
LedgerSendHaveBlock(L, c) == [L EXCEPT !.msg.haves = @ \cup {c}]
SetConn(L, cs)            == [L EXCEPT !.conn = cs]

\* One received block c in the ledger of peer q, the sender being `sender`:
\* the sender's ledger drops its entry, every other ledger records a cancel.
BlockReceived(q, sender, L, c) ==
    IF q = sender THEN LedgerRemoveBlock(L, c) ELSE LedgerCancelBlock(L, c)

\* The received-block loop, then the received-Have loop of inject_event,
\* on the ledger of peer q, for blocks bs and Haves hs (in HashMap order)
\* sent by `sender`.
ReceivedIn(q, L, sender, bs, hs) ==
    FoldLeft(LAMBDA L1, c : LedgerRemoveWantBlock(L1, c),
             FoldLeft(LAMBDA L1, c : BlockReceived(q, sender, L1, c), L, bs), hs)

\* A ledger method call with its arguments, applied by LedgerApply; the
\* closures with_ledger and values_mut are given in the code.
LedgerApply(q, L, op) ==
    CASE op.m = "want_block"        -> LedgerWantBlock(L, op.c)
      [] op.m = "cancel_block"      -> LedgerCancelBlock(L, op.c)
      [] op.m = "send_block"        -> LedgerSendBlock(L, op.c)
      [] op.m = "want_have_block"   -> LedgerWantHaveBlock(L, op.c)
      [] op.m = "remove_want_block" -> LedgerRemoveWantBlock(L, op.c)
      [] op.m = "send_have_block"   -> LedgerSendHaveBlock(L, op.c)
      [] op.m = "set_conn"          -> SetConn(L, op.cs)
      [] op.m = "received"          -> ReceivedIn(q, L, op.sender, op.bs, op.hs)

(* The engine's peer tables as one value s = [l |-> ledgers, k |-> knownPeers],
   so that loops over several peers can be written as folds. *)
Tables == [l |-> ledgers, k |-> knownPeers]

\* add_peer: known_peers.put(peer, protocol).
AddPeerTo(k, p, proto) ==
    LET ev == EvictedBy(k.lru, p, MaxCachedPeers)
    IN [lru   |-> PutKey(k.lru, p, MaxCachedPeers),
        proto |-> [q \in Peers |-> IF q = p THEN proto
                                   ELSE IF q \in ev THEN NoProto
                                   ELSE k.proto[q]]]

\* Mutant of WithLedger: the ledger table as an unbounded map (no eviction).
WithLedgerUnbounded(s, p, op) ==
    IF p \in LruKeys(s.l.lru)
    THEN [s EXCEPT !.l = [lru |-> Promote(s.l.lru, p),
                          led |-> [s.l.led EXCEPT ![p] = LedgerApply(p, @, op)]]]
    ELSE [l |-> [lru |-> <<p>> \o s.l.lru,
                 led |-> [s.l.led EXCEPT ![p] = LedgerApply(p, NewLedger, op)]],
          k |-> AddPeerTo(s.k, p, NoProto)]

\* with_ledger(peer, f): apply f to the peer's ledger (get_mut promotes it),
\* or to a new ledger that is then put into the LRU, possibly evicting the
\* least recently used one with its pending message, followed by
\* add_peer(peer, None).
WithLedger(s, p, op) ==
    IF p \in LruKeys(s.l.lru)
    THEN [s EXCEPT !.l = [lru |-> Promote(s.l.lru, p),
                          led |-> [s.l.led EXCEPT ![p] = LedgerApply(p, @, op)]]]
    ELSE LET ev == EvictedBy(s.l.lru, p, MaxLedgers)
         IN [l |-> [lru |-> PutKey(s.l.lru, p, MaxLedgers),
                    led |-> [q \in Peers |-> IF q = p THEN LedgerApply(p, NewLedger, op)
                                             ELSE IF q \in ev THEN NewLedger
                                             ELSE s.l.led[q]]],
             k |-> AddPeerTo(s.k, p, NoProto)]

\* ledgers.values_mut(): apply op to every ledger present, in place.
ForEachLedger(l, op) ==
    [l EXCEPT !.led = [q \in Peers |-> IF q \in LruKeys(l.lru)
                                       THEN LedgerApply(q, l.led[q], op)
                                       ELSE l.led[q]]]

SetTables(s) == ledgers' = s.l /\ knownPeers' = s.k

\* A call or swarm event uses one unit of the budget.
Spend == opsLeft > 0 /\ opsLeft' = opsLeft - 1

-----------------------------------------------------------------------------
Init ==
    /\ ledgers = [lru |-> <<>>, led |-> [p \in Peers |-> NewLedger]]
    /\ knownPeers = [lru |-> <<>>, proto |-> [p \in Peers |-> NoProto]]
    /\ wantlist = EmptyWantlist
    /\ events = <<>>
    /\ connectionLimit = FALSE
    /\ conns = [p \in Peers |-> 0]
    /\ agreed = [p \in Peers |-> NoProto]
    /\ opsLeft = MaxOps

-----------------------------------------------------------------------------
(* Public operations, called by the embedder. *)

\* add_peer(peer, protocol).  The embedder passes the protocol it knows the
\* peer speaks, or None.
AddPeer(p, proto) ==
    /\ Spend
    /\ proto \in IF agreed[p] # NoProto THEN {agreed[p]} ELSE {NoProto, Negotiated(p)}
    /\ knownPeers' = AddPeerTo(knownPeers, p, proto)
    /\ UNCHANGED <<ledgers, wantlist, events, connectionLimit, conns, agreed>>

\* want_block(cid, priority, providers): the providers, a HashSet, are
\* visited in an order the model does not fix.
WantBlock(c, order) ==
    LET step(s, p) == WithLedger(s, p, [m |-> "want_block", c |-> c])
    IN /\ Spend
       /\ wantlist' = WantBlockOp(wantlist, c)
       /\ SetTables(FoldLeft(step, Tables, order))
       /\ UNCHANGED <<events, connectionLimit, conns, agreed>>

\* send_block(peer_id, cid, data).
SendBlock(p, c) ==
    /\ Spend
    /\ SetTables(WithLedger(Tables, p, [m |-> "send_block", c |-> c]))
    /\ UNCHANGED <<wantlist, events, connectionLimit, conns, agreed>>

\* send_have_block(peer_id, cid).
SendHaveBlock(p, c) ==
    /\ Spend
    /\ SetTables(WithLedger(Tables, p, [m |-> "send_have_block", c |-> c]))
    /\ UNCHANGED <<wantlist, events, connectionLimit, conns, agreed>>

\* Mutant of Providers: only peers known to speak 1.2.0 are asked.
ProvidersV120Only ==
    LET cand == SelectSeq(knownPeers.lru, LAMBDA q : knownPeers.proto[q] = "V120")
    IN SubSeq(cand, 1, IF Len(cand) < MaxProviders THEN Len(cand) ELSE MaxProviders)

\* The peers find_providers selects: known peers whose recorded protocol is
\* None or Bitswap120, in known_peers.iter() order, at most MAX_PROVIDERS.
Providers ==
    LET cand == SelectSeq(knownPeers.lru,
                          LAMBDA q : knownPeers.proto[q] \in {NoProto, "V120"})
    IN SubSeq(cand, 1, IF Len(cand) < MaxProviders THEN Len(cand) ELSE MaxProviders)

\* find_providers(cid, priority): Want-Have to each provider's ledger, then
\* to the global wantlist.
FindProviders(c) ==
    LET step(s, p) == WithLedger(s, p, [m |-> "want_have_block", c |-> c])
    IN /\ Spend
       /\ SetTables(FoldLeft(step, Tables, Providers))
       /\ wantlist' = WantHaveOp(wantlist, c)
       /\ UNCHANGED <<events, connectionLimit, conns, agreed>>

\* Mutant of CancelBlock: the cancel is recorded globally only.
CancelBlockGlobalOnly(c) ==
    /\ Spend
    /\ wantlist' = CancelOp(wantlist, c)
    /\ UNCHANGED <<ledgers, knownPeers, events, connectionLimit, conns, agreed>>

\* cancel_block(cid): cancel globally and in every existing ledger.
CancelBlock(c) ==
    /\ Spend
    /\ wantlist' = CancelOp(wantlist, c)
    /\ ledgers' = ForEachLedger(ledgers, [m |-> "cancel_block", c |-> c])
    /\ UNCHANGED <<knownPeers, events, connectionLimit, conns, agreed>>

\* cancel_want_block(cid): drop the Want-Have globally and in every ledger,
\* without a cancel on the wire.
CancelWantBlock(c) ==
    /\ Spend
    /\ wantlist' = RemoveWantBlockOp(wantlist, c)
    /\ ledgers' = ForEachLedger(ledgers, [m |-> "remove_want_block", c |-> c])
    /\ UNCHANGED <<knownPeers, events, connectionLimit, conns, agreed>>

-----------------------------------------------------------------------------
(* Swarm callbacks: the inject_ methods of NetworkBehaviour. *)

\* inject_connection_established: only the first connection to a peer
\* (other_established == 0) is acted on: add_peer(peer, None), then the
\* ledger becomes Connected(None).
ConnectionEstablished(p) ==
    /\ Spend
    /\ conns[p] < MaxConns
    /\ conns' = [conns EXCEPT ![p] = @ + 1]
    /\ IF conns[p] = 0
       THEN SetTables(WithLedger([l |-> ledgers, k |-> AddPeerTo(knownPeers, p, NoProto)],
                                 p, [m |-> "set_conn", cs |-> Connected(NoProto)]))
       ELSE UNCHANGED <<ledgers, knownPeers>>
    /\ UNCHANGED <<wantlist, events, connectionLimit, agreed>>

\* Mutant of ConnectionClosed: acts when one connection remains
\* (remaining_established == 1) instead of none.
ConnectionClosedOffByOne(p) ==
    /\ Spend
    /\ conns[p] > 0
    /\ conns' = [conns EXCEPT ![p] = @ - 1]
    /\ IF conns[p] = 2
       THEN /\ SetTables(WithLedger(Tables, p, [m |-> "set_conn", cs |-> Disconnected]))
            /\ connectionLimit' = FALSE
            /\ agreed' = [agreed EXCEPT ![p] = NoProto]
       ELSE UNCHANGED <<ledgers, knownPeers, connectionLimit, agreed>>
    /\ UNCHANGED <<wantlist, events>>

\* inject_connection_closed: when the last connection closes
\* (remaining_established == 0) the ledger becomes Disconnected and the
\* connection-limit flag is cleared.
ConnectionClosed(p) ==
    /\ Spend
    /\ conns[p] > 0
    /\ conns' = [conns EXCEPT ![p] = @ - 1]
    /\ IF conns[p] = 1
       THEN /\ SetTables(WithLedger(Tables, p, [m |-> "set_conn", cs |-> Disconnected]))
            /\ connectionLimit' = FALSE
            /\ agreed' = [agreed EXCEPT ![p] = NoProto]
       ELSE UNCHANGED <<ledgers, knownPeers, connectionLimit, agreed>>
    /\ UNCHANGED <<wantlist, events>>

\* inject_dial_failure for a dial to a peer with no connection (the swarm's
\* default dial condition).  DialPeerConditionFalse is ignored by the code and
\* changes nothing, so it is not a step here.
DialFailure(p, err) ==
    /\ Spend
    /\ conns[p] = 0
    /\ \/ /\ err = "ConnectionLimit"
          /\ connectionLimit' = TRUE
          /\ SetTables(WithLedger(Tables, p, [m |-> "set_conn", cs |-> Disconnected]))
       \/ /\ err = "Other"
          \* forget the peer: known_peers.remove, ledgers.remove
          /\ knownPeers' = [lru   |-> RemoveKey(knownPeers.lru, p),
                            proto |-> [knownPeers.proto EXCEPT ![p] = NoProto]]
          /\ ledgers' = [lru |-> RemoveKey(ledgers.lru, p),
                         led |-> [ledgers.led EXCEPT ![p] = NewLedger]]
          /\ UNCHANGED connectionLimit
    /\ UNCHANGED <<wantlist, events, conns, agreed>>

\* Mutant of HandlerNegotiated: the ledger is marked Connected(None).
HandlerNegotiatedUnrecorded(p, proto) ==
    LET s == WithLedger(Tables, p, [m |-> "set_conn", cs |-> Connected(NoProto)])
    IN /\ Spend
       /\ conns[p] > 0
       /\ proto # NoProto
       /\ ledgers' = s.l
       /\ knownPeers' = AddPeerTo(s.k, p, proto)
       /\ agreed' = [agreed EXCEPT ![p] = proto]
       /\ UNCHANGED <<wantlist, events, connectionLimit, conns>>

\* inject_event(HandlerEvent::Connected { protocol }): the handler of a live
\* connection reports the protocol proto it negotiated.
HandlerNegotiated(p, proto) ==
    LET s == WithLedger(Tables, p, [m |-> "set_conn", cs |-> Connected(proto)])
    IN /\ Spend
       /\ conns[p] > 0
       /\ proto # NoProto
       /\ ledgers' = s.l
       /\ knownPeers' = AddPeerTo(s.k, p, proto)
       /\ agreed' = [agreed EXCEPT ![p] = proto]
       /\ UNCHANGED <<wantlist, events, connectionLimit, conns>>

\* The handler of a connection to p negotiates with what p speaks.
HandlerConnected(p) == HandlerNegotiated(p, Negotiated(p))

\* The events one group of entries of a received message produces.
EventsFor(kind, p, S) ==
    LET cs == SetToSeq(S)
    IN [i \in 1..Len(cs) |-> [kind |-> kind, peer |-> p, cid |-> cs[i]]]

\* inject_event(HandlerEvent::Message): a message from p with blocks B, Have
\* presences H and wantlist entries W.  Blocks first, then presences, then
\* the Want-Block, Want-Have and Cancel entries, each producing events.
\* A peer on an older protocol cannot send presences or Want-Have.
InboundMessage(p, B, H, W) ==
    LET bs == SetToSeq(B)
        hs == SetToSeq(H)
        newEvents == EventsFor("WantOk", p, B) \o EventsFor("FindProvidersOk", p, H)
                     \o EventsFor("InboundWant", p, {c \in Cids : W[c] = "WantBlock"})
                     \o EventsFor("InboundWantHave", p, {c \in Cids : W[c] = "WantHave"})
                     \o EventsFor("InboundCancel", p, {c \in Cids : W[c] = "Cancel"})
    IN /\ Spend
       /\ conns[p] > 0
       /\ agreed[p] # NoProto
       /\ agreed[p] # "V120" => H = {} /\ \A c \in Cids : W[c] # "WantHave"
       /\ newEvents # <<>>
       /\ Len(events) + Len(newEvents) <= MaxEvents
       /\ wantlist' = FoldLeft(LAMBDA w, c : RemoveWantBlockOp(w, c),
                               FoldLeft(LAMBDA w, c : CancelOp(w, c), wantlist, bs), hs)
       /\ ledgers' = ForEachLedger(ledgers, [m |-> "received", sender |-> p, bs |-> bs, hs |-> hs])
       /\ events' = events \o newEvents
       /\ UNCHANGED <<knownPeers, connectionLimit, conns, agreed>>

-----------------------------------------------------------------------------
(* NetworkBehaviour::poll and the ledger timers. *)

\* Ledger::poll returns a send: its timer has elapsed, it is Connected and
\* its message is not empty.
Sendable(q) ==
    /\ Led(q).ready
    /\ Led(q).conn.st = "Connected"
    /\ ~IsEmptyMsg(Led(q).msg)

\* poll: a queued event is returned first.
PollEvent ==
    /\ events # <<>>
    /\ events' = Tail(events)
    /\ UNCHANGED <<ledgers, knownPeers, wantlist, connectionLimit, conns, agreed, opsLeft>>

\* Mutant of SendMessage: the message is handed over but not replaced.
SendMessageKeeps(L) == [L EXCEPT !.ready = FALSE]

\* Ledger::send_message: take the message, install a fresh one with
\* full = false, and reset the timer to now + MESSAGE_DELAY.
SendMessage(L) == [L EXCEPT !.msg = FreshMsg(FALSE), !.ready = FALSE]

\* poll: otherwise the first ledger in LRU order whose poll is ready returns
\* NotifyHandler with the message send_message takes from it.
PollLedger(p) ==
    /\ events = <<>>
    /\ HasLedger(p)
    /\ Sendable(p)
    /\ \A i \in 1..Len(ledgers.lru) :
          ledgers.lru[i] = p => \A j \in 1..(i - 1) : ~Sendable(ledgers.lru[j])
    /\ ledgers' = [ledgers EXCEPT !.led[p] = SendMessage(@)]
    /\ UNCHANGED <<knownPeers, wantlist, events, connectionLimit, conns, agreed, opsLeft>>

Poll == PollEvent \/ \E p \in Peers : PollLedger(p)

\* MESSAGE_DELAY passes: the ledger's Sleep completes.
Tick(p) ==
    /\ HasLedger(p)
    /\ ~Led(p).ready
    /\ ledgers' = [ledgers EXCEPT !.led[p].ready = TRUE]
    /\ UNCHANGED <<knownPeers, wantlist, events, connectionLimit, conns, agreed, opsLeft>>

-----------------------------------------------------------------------------
Next ==
    \/ \E p \in Peers, x \in ProtoOpt : AddPeer(p, x)
    \/ \E c \in Cids, S \in SUBSET Peers : \E order \in SetToSeqs(S) : WantBlock(c, order)
    \/ \E p \in Peers, c \in Cids : SendBlock(p, c) \/ SendHaveBlock(p, c)
    \/ \E c \in Cids : FindProviders(c) \/ CancelBlock(c) \/ CancelWantBlock(c)
    \/ \E p \in Peers : ConnectionEstablished(p) \/ ConnectionClosed(p) \/ HandlerConnected(p)
    \/ \E p \in Peers, err \in {"ConnectionLimit", "Other"} : DialFailure(p, err)
    \/ \E p \in Peers, B, H \in SUBSET Cids, W \in [Cids -> EntryKinds] :
          InboundMessage(p, B, H, W)
    \/ Poll
    \/ \E p \in Peers : Tick(p)

Spec == Init /\ [][Next]_vars

\* The swarm keeps polling the behaviour while it has work (the timers wake
\* it), and a tokio Sleep eventually completes.
FairSpec == Spec /\ WF_vars(Poll) /\ \A p \in Peers : WF_vars(Tick(p))

-----------------------------------------------------------------------------
(* Properties *)

TypeOK ==
    /\ ledgers \in [lru: Seq(Peers), led: [Peers -> Ledgers]]
    /\ knownPeers \in [lru: Seq(Peers), proto: [Peers -> ProtoOpt]]
    /\ Len(ledgers.lru) <= MaxLedgers /\ Len(knownPeers.lru) <= MaxCachedPeers
    /\ wantlist \in [Cids -> EntryKinds]
    /\ events \in Seq(Events)
    /\ connectionLimit \in BOOLEAN
    /\ conns \in [Peers -> 0..MaxConns]
    /\ agreed \in [Peers -> ProtoOpt]
    /\ opsLeft \in 0..MaxOps

\* A ledger never asks a peer for something the node no longer wants: a
\* pending Want-Block for c implies a global Want-Block for c, and a pending
\* Want-Have implies a global want of c.  It is about cancel_block,
\* cancel_want_block, the received-block and received-Have loops of
\* inject_event, and want_block/find_providers over ledgers that are evicted
\* and recreated in between.
PendingWantsAreWanted ==
    \A p \in LruKeys(ledgers.lru), c \in Cids :
        /\ Led(p).msg.wl[c] = "WantBlock" => wantlist[c] = "WantBlock"
        /\ Led(p).msg.wl[c] = "WantHave" => wantlist[c] \in {"WantBlock", "WantHave"}

\* A ledger that says Connected has a live connection, with the protocol
\* that connection negotiated, and known_peers never records a protocol the
\* peer does not speak.  It is about inject_connection_established/closed
\* counting other/remaining connections, and HandlerEvent::Connected
\* arriving on any of several connections.
ConnectedLedgerIsLive ==
    \A p \in Peers :
        /\ HasLedger(p) /\ Led(p).conn.st = "Connected" =>
              /\ conns[p] > 0
              /\ Led(p).conn.proto \in {NoProto, agreed[p]}
        /\ knownPeers.proto[p] \in {NoProto, Negotiated(p)}

\* A non-empty message in a Connected ledger is eventually handed to the
\* connection handler (or the ledger stops being Connected, or is evicted):
\* the coalescing timer, the poll order (events first, ledgers in LRU order,
\* one action per poll) and send_message together never starve a peer.
SendProgress ==
    \A p \in Peers :
        (HasLedger(p) /\ Led(p).conn.st = "Connected" /\ ~IsEmptyMsg(Led(p).msg))
        ~> (~HasLedger(p) \/ Led(p).conn.st # "Connected" \/ IsEmptyMsg(Led(p).msg))

(* Properties the code is found to violate; see the README. *)

\* Spec 4.3-4.5: while a peer's connection is live and its handler has
\* agreed on a protocol, the peer's ledger is Connected with that protocol
\* (so its messages are sent), and known_peers keeps the protocol (so
\* find_providers sends Want-Have only to 1.2.0 peers).  Violated when
\* with_ledger recreates the evicted ledger of a connected peer: the new
\* ledger is Disconnected and add_peer(peer, None) erases the protocol.
LedgerKeepsConnection ==
    \A p \in LruKeys(ledgers.lru) :
        conns[p] > 0 /\ agreed[p] # NoProto =>
            /\ Led(p).conn = Connected(agreed[p])
            /\ knownPeers.proto[p] = agreed[p]

\* Spec 4.4: find_providers records Want-Have in the ledger of every
\* provider it selects.
FindProvidersReachesAll ==
    [][\A c \in Cids :
          FindProviders(c) =>
             \A i \in 1..Len(Providers) :
                LET p == Providers[i]
                IN p \in LruKeys(ledgers'.lru)
                   /\ ledgers'.led[p].msg.wl[c] \in {"WantHave", "WantBlock"}]_vars

\* Spec 4.3 step 3: a Disconnected ledger with content to send asks the
\* engine to dial, unless the connection limit was hit.
DialOnDemand ==
    \A p \in Peers :
        (HasLedger(p) /\ Led(p).conn = Disconnected /\ ~IsEmptyMsg(Led(p).msg)
           /\ ~connectionLimit)
        ~> (~HasLedger(p) \/ Led(p).conn # Disconnected \/ IsEmptyMsg(Led(p).msg))

=============================================================================
