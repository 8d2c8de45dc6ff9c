# TLA+ models of beetle (iroh)

This directory holds TLA+ models of the stateful parts of the repository.
TLC checks them. Everything here is plain TLA+ with the standard and community
modules. The machine-readable index of components, runs, mutants, the
definition-to-source map, findings and hazards is `PROJECT.json`.

## The system

| Part | Source | What it does |
|---|---|---|
| Bitswap engine | `src/iroh-bitswap/src/behaviour.rs` | A libp2p `NetworkBehaviour`. It keeps the global wantlist, an LRU of per-peer ledgers and an LRU of known peers. Each ledger holds a pending `BitswapMessage`, a coalescing timer (`last_send`) and a `ConnState`. It reacts to swarm callbacks and hands messages to connection handlers from `poll`. |
| Wantlist / message | `message.rs` (not in this tree) | Entries Want-Block, Want-Have and Cancel per CID, plus blocks and presences. |
| Protocol selection | `protocol.rs`, `handler.rs` (not in this tree) | Agrees a Bitswap version (1.2.0 > 1.1.0 > 1.0.0 > legacy) when a stream is upgraded. The handler reports it with `HandlerEvent::Connected`. |
| HAMT reader | `src/iroh-resolver/src/hamt.rs` | A UnixFS HAMT directory: hash bits, bitfield index, recursive lookup. |
| iroh-share | `src/iroh-share/src/lib.rs` | A sender/receiver transfer over gossipsub: subscribe, publish the root, resolve. |
| NodeBehaviour | `src/iroh-p2p/src/behaviour.rs` | Composes bitswap, kad, gossipsub and others, and forwards calls. |
| API, store, CLI | `src/iroh/src/*.rs`, `src/iroh-ctl/src/*.rs` | RPC forwarding, printing, `todo!()` store. |

How the engine's parts interact:

- The embedder calls `want_block`, `find_providers`, `send_block`, `send_have_block`, `cancel_block`, `cancel_want_block` and `add_peer`.
- The swarm calls `inject_connection_established`, `inject_connection_closed`, `inject_dial_failure` and `inject_event`.
- The swarm polls `poll`.
- All of these run on the one swarm task. Each one is therefore atomic with respect to the others.
- `with_ledger` is the hub. It either promotes an existing ledger or creates one with `Ledger::new`. A new ledger goes through `ledgers.put`, which may evict another ledger. Then comes `add_peer(peer, None)`.

## Modules

| Module | Models | Kind |
|---|---|---|
| `Wantlist.tla` | Wantlist entry operations and `BitswapMessage::is_empty` | operators, from spec.md (code not in tree) |
| `Lru.tla` | Key order of `caches::RawLRU`: `get_mut`/`put` promote, `put` evicts the last key | operators (dependency) |
| `ProtocolSelect.tla` | Upgrade selection as the recursive `FirstShared` over the preference order | operators, from spec.md |
| `Bitswap.tla` | The engine | state machine |
| `MCBitswap.tla` | Bitswap with 3 peers (p1 speaks 1.0.0 only) and configuration [V120, V110, V100] | MC module |
| `BitswapPair.tla` | Two engines over one connection, with the embedders of `test_bitswap_multiprotocol` (whose default-configuration case is `test_bitswap_behaviour`) | composition (two `INSTANCE`s of Bitswap) |
| `MCBitswapPair.tla` | The pair over every case of the test's table | MC module |
| `Hamt.tla` | The HAMT read path: `from_node`, recursive `get_value`, `index_for_bit_pos`, padding cut, `load_from_link`, `children` | operators + one-step state machine |
| `MCHamt.tla` | Hamt over three names and a family of hashes that exercises every split depth | MC module |
| `Share.tla` | iroh-share: the sender's and the receiver's forwarders, watchers, publishers and receiving tasks, with their bounded channels | state machine |
| `ShareTransfer.tla` | What a transfer promises, with no channels or tasks. `Share` refines it. | abstract spec |
| `MCShare.tla` | Share with transfers as model values | MC module |

### Hamt

- **The reader's input.** It is the shard tree of a directory, laid out as go-unixfs writes it:
  - a name sits in the shallowest shard where no other name shares its hash prefix;
  - link names are the zero-padded upper-case hex index followed by the name (shard links carry the index only);
  - the links are ordered by index.
- **Hashes.** `hash_key` is abstracted to a chosen hash per name, written as the digit sequence that `HashBits::next` hands out (64 / bit_width digits).
- **Bitfield.** A `Bitfield` is the set of its set bits. `bitfield.rs` and `hash_bits.rs` are not in the tree.
- **Actions.** `Init` chooses a directory, hashes and a query name. `Get` runs `Hamt::get`, and `Children` runs `Hamt::children`.
- **Not modelled:** `insert`/`insert_value`. They build an `InnerNode::Node` from unit values and end in `todo!()`.

### Share

Tasks and channels in iroh-share:

- **Sender.** `Sender::new` spawns a forwarder. It `try_send`s each gossipsub event into `gossip_events`, a bounded channel of capacity 1024, and drops the event when the channel is full. `transfer_from_data` spawns a watcher task per transfer. The watcher receives from a clone of `gossip_events` until it sees `Subscribed` for its own topic, then fires a oneshot. `ticket` spawns a publisher that awaits the oneshot and publishes the root.
- **Receiver.** `Receiver::new` spawns a forwarder that `try_send`s gossip messages into `gossip_messages`. `transfer_from_ticket` subscribes to the ticket's topic. It then spawns a task that receives from a clone of `gossip_messages`. The task forwards every root *from the ticket's peer* to the transfer's data channel, which `recv` reads.
- **Shared channels.** The clones of an `async_channel` share one queue. Each item goes to exactly one receiving task.

How the model represents this:

- **Channels.** `gossipEvents` and `gossipMessages` are sequences capped at `Cap`. `TrySend` appends an item if there is room and drops it otherwise. `netEvents` and `netMessages` are the nodes' event streams that the forwarders read.
- **Tasks.** `watching`, `peer` (the oneshot), `phase` and `subscribed` record which task runs. `Watch(t)` and `ReceiveRoot(t)` are the loop bodies of the two per-transfer tasks. Any running task may take the head of its channel.
- **Noise.** `Noise` is other peers' gossip, bounded by `MaxNoise`. At the sender it is a `Subscribed` event for another topic, or for one of the names in `ForeignTopics`. Every `Sender` names its topics `iroh-share-0`, `iroh-share-1`, ... (`lib.rs:111,123`) and mdns is on (`lib.rs:57`), so another node's receiver may subscribe to the same name. The watcher checks only the topic (`lib.rs:151`). At the receiver it is a message from another peer on a topic the receiver joined.
- **Roots.** A root is named by its transfer.
- **Refinement.** `Abstract == INSTANCE ShareTransfer WITH stage <- ...` maps each transfer to a stage:
  - `published` once published;
  - `joined` once ticketed and subscribed;
  - otherwise the sender's phase.

  `got` maps to itself. `ShareTransfer` publishes a root once its ticket is out, joined or not, since another peer's subscription releases it (share_foreign_subscriber). It delivers only published roots, and not necessarily the ticket's own (share_concurrent_transfers).

### Bitswap state

Variables:

- `ledgers = [lru, led]`: the LRU key order, and the `Ledger` of every peer. Only those in `lru` exist.
- `knownPeers = [lru, proto]`: `known_peers`.
- `wantlist`: the global wantlist.
- `events`: the `events` queue.
- `connectionLimit`: `connection_limit`.

Each ledger is `[msg, ready, conn]`:

- `msg` is the pending message: entries, full flag, blocks, haves.
- `ready` says whether `last_send` has elapsed.
- `conn` is the `ConnState`.

The swarm is the environment:

- `conns[p]` is the number of live connections.
- `agreed[p]` is the protocol the handler negotiated.

`opsLeft` bounds the number of calls and swarm events.

### Bitswap actions

| Action | Code |
|---|---|
| `AddPeer` | `add_peer` |
| `WantBlock` | `want_block` (the HashSet of providers in every order) |
| `SendBlock` | `send_block` |
| `SendHaveBlock` | `send_have_block` |
| `FindProviders` | `find_providers` |
| `CancelBlock` | `cancel_block` |
| `CancelWantBlock` | `cancel_want_block` |
| `ConnectionEstablished` | `inject_connection_established` |
| `ConnectionClosed` | `inject_connection_closed` |
| `DialFailure` | `inject_dial_failure` (ConnectionLimit and other errors; `DialPeerConditionFalse` changes nothing) |
| `HandlerConnected` | `inject_event(Connected)` |
| `InboundMessage` | `inject_event(Message)`: blocks, then presences, then entries, with the events they queue |
| `PollEvent`, `PollLedger` | the two branches of `poll` |
| `Tick` | a ledger's `Sleep` completing |

Details of the actions:

- Each call that touches a ledger goes through `WithLedger`. A call over several peers is a `FoldLeft` of it. So eviction, recreation and `add_peer(None)` happen inside the action, as in the code.
- `PollLedger` picks the first sendable ledger in LRU order and applies `SendMessage`.
- The dial branch of `Ledger::poll` and `Bitswap::dial` are not actions, because they cannot be reached (see findings).

### BitswapPair

`test_bitswap_multiprotocol` runs two swarms for each of six `TestCase`s. A case gives each peer's `protocol_ids` and the protocol both ledgers must record. The second case (both on `[V120, V110, V100]`) is the exchange of `test_bitswap_behaviour`, which uses `Bitswap::default()`:

- peer1 listens and answers: `InboundRequest::WantHave` with `send_have_block` followed by `received_have.store(true)`, and `InboundRequest::Want` with `send_block`;
- peer2 dials. On `ConnectionEstablished` it calls `find_providers` when the expected protocol is 1.2.0 (`supports_providers`), and otherwise calls `want_block` from peer1 directly. It calls `want_block` with the provider on `FindProvidersResult::Ok`, and returns the data on `WantResult::Ok`;
- at `Want`, `FindProvidersResult::Ok` and `WantResult::Ok` the loops assert that the ledger of the other peer is `Connected(Some(expected_protocol))`. At `FindProvidersResult::Ok` they also assert `supports_providers` and `received_have`, which `AtomicBool` shares between the two tasks.

How the model represents this:

- **Engines.** `B1 == INSTANCE Bitswap WITH ...` and `B2` give each node its own copy of the eight Bitswap variables (`ledgers1`, ..., `opsLeft2`). Each node's only peer is the other, so every engine action is the single-node action applied to that peer.
- **Cases.** `case` is chosen in `Init` from `Cases`, the test's table. An instance's constants cannot depend on a variable, so each handler's report is `HandlerNegotiated(p, proto)` with `Agreed1`/`Agreed2`: the `SelectProtocol` of that node's `protocol_ids` with the other's. `receivedHave` is the shared flag.
- **Embedders.** `React1`/`React2` are the test's match arms. `Event1`/`Event2` are `poll` returning a queued event; the call the embedder makes in reaction is held in `call1`/`call2` and made by `Embed1`/`Embed2` before that swarm does anything else, as the loop body runs before the next `swarm.next()`. `got` counts `WantResult::Ok` at peer2.
- **Wire.** `Send1`/`Send2` are `poll` returning `NotifyHandler`: the message `send_message` takes is appended to `wire12`/`wire21`. `Receive1`/`Receive2` hand the head to `inject_event(HandlerEvent::Message)` of the other engine. A connection keeps order.
- **Connection.** `link` is `down`, `up` or `closed`. `Dial` is the test's dial. `Established`, `HandlerConnected` and `Closed` are the swarm's and handler's reports to each engine; the handler reports its protocol once per connection.
- **Fault.** `Disconnect` breaks the connection, at most `MaxFaults` times, and drops what is in flight. It is taken after both swarms have reported the connection (a swarm reports `ConnectionEstablished` before `ConnectionClosed`). A message sent after the break and before the swarm reports it is dropped too. `Redial` brings the connection up again once both swarms have reported the loss. No code in the tree dials again, so `Redial` has no fairness, and behaviours in which the connection stays lost are kept. The tests' peer2 calls `find_providers` or `want_block` on every `ConnectionEstablished`, so a new connection makes it ask again.

## Runs

| Run | Cfg | Result | Shows |
|---|---|---|---|
| bitswap_safety | `MCBitswap.cfg` | pass | `TypeOK`; `PendingWantsAreWanted`: no ledger holds a want the node cancelled; `ConnectedLedgerIsLive`: a Connected ledger has a live connection with the agreed protocol, and known_peers records only protocols the peer speaks |
| bitswap_send_progress | `MCBitswapLive.cfg` | pass | `SendProgress`: a pending message of a Connected ledger is eventually sent, or the ledger is disconnected or evicted |
| ledger_recreation | `MCBitswap_LedgerKeepsConnection.cfg` | violation | `LedgerKeepsConnection`: one `want_block` over several providers evicts a connected 1.0.0 peer's ledger and recreates it Disconnected, with its protocol erased from `known_peers` (findings 2 and 3) |
| find_providers_eviction | `MCBitswap_FindProvidersReachesAll.cfg` | violation | find_providers evicts providers it just filled |
| hamt_read | `MCHamt.cfg` | pass | At fanout 256, `GetFindsExactlyTheDirectory` (a lookup finds exactly the names present) and `ChildrenListsEachEntryOnce` hold over every layout of 3 names with hashes that differ in at most one digit, valued 1 or 255 |
| hamt_max_depth | `MCHamt_MaxDepth.cfg` | violation | At fanout 16, two names whose hashes share 8 digits sit in a shard at depth 8, and `get_value` fails "max depth reached" |
| dial_on_demand | `MCBitswap_DialOnDemand.cfg` | violation | a Disconnected ledger with wants is never dialled |
| pair_exchange | `MCBitswapPair.cfg` | pass | `BlockTransferredOrAbandoned`: one loss may swallow any message, which no ledger sends again, yet the block reaches peer2 unless the connection stays lost, because peer2's loop asks again on the new connection; `BlockDeliveredOnce`: without a loss it reaches peer2 at most once; `TestAssertionsHold`: the test's assertions on `ConnState`, `supports_providers` and `received_have` hold at the events where they are made, in all six cases, in runs without a loss as the test's |
| share_safety | `MCShare.cfg` | pass | Two transfers, with noise that includes other peers subscribing to the transfers' topic names. `TypeOK` holds, including the channel bound. `RefinesShareTransfer`: Share implements ShareTransfer, so a root is published only once its ticket is out, and the receiver yields only roots the sender published. |
| share_completes | `MCShareLive.cfg` | pass | For one transfer whose channels have room, and no other peer on its topic name, `TransferCompletes` holds: a subscribed receiver eventually gets the root. |
| share_foreign_subscriber | `MCShare_ForeignSubscriber.cfg` | violation | `TransferCompletes` fails when another peer subscribes to the transfer's topic name first: the watcher releases the root, it is published to nobody, and the ticket's receiver waits for ever (finding 8) |
| share_concurrent_transfers | `MCShare_ConcurrentTransfers.cfg` | violation | `TransferDeliversOwnRoot` fails when two transfers of one sender are in flight, in a single trace. t2's watcher takes and drops t1's `Subscribed` event, so t1 is never published. t1's receiving task then takes t2's root, and t1's `recv` returns it. |

### Bounds

- There are 3 peers and 2 ledger slots. That is the smallest setting in which a call for a third peer evicts a ledger that may be connected or may hold wants.
- There are 3 known-peer slots and 1 CID. Properties relate entries of the same CID, and a second CID only multiplies states.
- `MaxConns = 2` makes the other/remaining-established counting matter.
- `MaxEvents = 2` allows a queued event to delay ledger polls.
- `MaxOps = 5` covers the shortest violating traces found (5 steps), and everything shorter.
- The polls and timer ticks are not bounded.
- CHECK_DEADLOCK is FALSE because `opsLeft` is a modelling budget. Once it is spent and everything is sent, the engine really does sit idle.
- p2 and p3 are symmetric in the safety run.
- The pair runs all six cases of the test's table, with one block, `MaxEvents = 2`, `MaxOps = 16` per node and `MaxWire = 2`:
  - the exchange needs 6 budgeted steps per node, plus one for `ConnectionClosed`; after a loss and a redial, events of the lost connection and a second exchange come on top. At 16 the budget no longer binds: the state count is the same at 20, and at 12 or 14 the budget runs out in some behaviours;
  - a message of blocks and Haves queues two events, which a mutant that resends messages needs;
  - at most one message is ever in flight per direction, so `MaxWire` never binds (the state count is the same at 1, 2 and 3); it only keeps mutants finite;
  - `MaxFaults = 1`: one loss, at any point of the exchange, swallows whatever is in flight then.
- Hamt uses 3 names, two of length 1 and one of length 2.
- Each hash is all zero except at most one digit, which is 1 or fanout - 1.
- This gives every depth at which two names split, shards with children at the lowest, a low and the highest index, and three names in one shard.
- The violation run uses two names at fanout 16.
- Share uses two transfers, `Cap = 2` and `MaxNoise = 2`:
  - This is the smallest setting in which two transfers' tasks compete for one channel.
  - It is also the smallest in which a channel can be full when a needed item arrives.
  - `Cap` stands for 1024. Only whether the channel is full matters, and a channel of 2 is full as a channel of 1024 is.
- The liveness run has one transfer, `Cap = 3 > MaxNoise` and no `ForeignTopics`, so no item is dropped and only the ticket's receiver subscribes to the topic name. The foreign-subscriber run allows one such subscription. With two transfers, the stronger `TransferDeliversOwnRoot` is violated (see share_concurrent_transfers). With `Cap <= MaxNoise`, a full channel drops the `Subscribed` event.
- Transfers are symmetric in the safety run.

### Fairness

The liveness run assumes two kinds of weak fairness:

- **WF on `Poll`:** the swarm task polls the behaviour whenever a waker fires. Timers and queued events wake it.
- **WF on each `Tick(p)`:** a tokio `Sleep` eventually completes.

No fairness is assumed for the embedder or the network.

Share's liveness run assumes weak fairness on these steps:

- the two forwarders;
- each watcher (`Watch`);
- each publisher (`Publish`);
- each receiving task (`ReceiveRoot`);
- `Recv`.

The reasons:

- These are spawned tokio tasks, and the runtime keeps running a task that can make progress.
- `test_transfer` awaits `recv`.
- Creating, ticketing and accepting a transfer are embedder calls, and no fairness is assumed for them. The property begins at the subscription.

The pair assumes weak fairness on the test's dial and on each node's steps: `Established`, `HandlerConnected`, `Send \/ Event` (the swarm's poll), `Embed` (the loop body), `Receive` (the handler), `Tick` (the `Sleep`) and `Closed`. `future::select` polls both peers' futures on one task for as long as neither has returned, and each swarm's `next()` drives its behaviour, handlers and timers. No fairness is assumed for `Disconnect` or `Redial`.

## Findings

1. **The dial branch is dead** (`behaviour.rs:202`). `if !self.is_empty() && self.is_disconnected()` sits inside `if self.is_connected()`. The engine never dials, although spec.md 4.3 says it should.
2. **Eviction disconnects live peers** (`behaviour.rs:327`). `with_ledger` may evict a connected peer's ledger. The next call recreates it Disconnected. Since only the first connection is acted on, it stays Disconnected while the connection is live.
3. **Recreation forgets the protocol** (`behaviour.rs:328`). `add_peer(peer, None)` overwrites the negotiated protocol, and `find_providers` then sends Want-Have to a 1.0.0 peer.
4. **MAX_PROVIDERS is larger than max_ledgers** (`behaviour.rs:31/386`). `find_providers` evicts ledgers it wrote in the same call.
5. **HAMT depth limit** (`hamt.rs:21`). `MAX_DEPTH` is the hash length in bytes, 8. A 64-bit hash allows 64 / bit_width levels. For any fanout below 256, names whose hashes share 8 or more leading digits cannot be looked up.

6. **A ticket can receive another transfer's root** (`lib.rs:325`).
   - The receiving tasks of all tickets share one channel.
   - Each task checks only the sender, not the topic.
   - With two transfers from one sender, one `recv` returns the other's file. `test_transfer` asserts that the received bytes are the ticket's own.
7. **Watchers steal each other's Subscribed event** (`lib.rs:150`).
   - The watchers of concurrent transfers share one channel.
   - A watcher drops every `Subscribed` event that is not for its own topic.
   - The transfer whose event it took never publishes its root.

8. **Another node's subscription releases the root** (`lib.rs:151`).
   - The watcher publishes on the first `Subscribed` event whose topic equals the transfer's, and ignores `peer_id`.
   - Every `Sender` numbers its topics from 0 (`iroh-share-0`, ...), and nodes find each other by mdns.
   - A receiver of another sender's ticket with the same id subscribes to the same name. If it does so first, the root goes to nobody and is never published again, and this ticket's `recv` never returns.

A hazard that is not listed as a finding:

- The sender's forwarder drops events on a full `gossip_events` (`lib.rs:95`). The comment there says "drop events if they are not processed".
- No task drains the channel while no watcher runs, so unrelated events can fill it. A `Subscribed` event is then lost.
- `TransferCompletes` holds only while `Cap` exceeds the unrelated traffic. Its mutant `TrySendOffByOne` loses the event this way.
- A message taken by `send_message` (`behaviour.rs:192`) is lost with its connection, and no ledger sends it again. Later messages have `full = false`, and spec.md 4.5 says the message stays queued. In the tests' exchange this is hidden: peer2 asks again on every `ConnectionEstablished`, and `BlockTransferredOrAbandoned` holds. An embedder that asks only once would wait for ever after a redial.
- Events queued before a loss are returned after a redial (`behaviour.rs:640`), so the block can reach peer2 twice. This is why `BlockDeliveredOnce` and `TestAssertionsHold` are stated for runs without a loss.
- Protocol selection is not checked on its own. `protocol.rs` is not in the tree, and `ProtocolSelect` follows spec.md's global order of preference, so a property would compare the spec with itself. libp2p's multistream-select follows the dialer's proposal order instead. That agrees with the global order for every configuration in the tests, which list ids in the order of preference.

## Not modelled, and the plan

- **Left out entirely:**
  - metrics and tracing;
  - block payload bytes (a CID stands for a block);
  - priorities;
  - the wire encoding;
  - real time (the timer is a flag);
  - `NodeBehaviour` forwarding, the RPC API, the store and the CLI, which have no state to check.
  - `NodeBehaviour`'s forwards also pass a query context (`want_block(ctx, ...)`, `cancel_block(ctx, cid)`, `find_providers(ctx, ...)`) that `Bitswap` in `behaviour.rs` does not take: they are written against another version of the engine.
- **Next modules:**
  - An abstract wantlist spec that the engine refines.
  - In iroh-share: resolver errors, connect failures and `Drop` aborting the p2p task.
