-------------------------------- MODULE Share --------------------------------
(***************************************************************************)
(* The transfer handshake of iroh-share (src/iroh-share/src/lib.rs).       *)
(*                                                                         *)
(* Sender: a forwarder task moves the node's gossipsub events into the    *)
(* bounded channel gossip_events with try_send (dropping them when it is   *)
(* full).  transfer_from_data spawns, per transfer, a watcher task that    *)
(* receives from a clone of that channel until it sees Subscribed for the  *)
(* transfer's topic, then sends the peer on a oneshot.  ticket() spawns a  *)
(* task that awaits the oneshot and publishes the root on the topic.       *)
(*                                                                         *)
(* Receiver: a forwarder task moves gossipsub messages into the bounded    *)
(* channel gossip_messages with try_send.  transfer_from_ticket subscribes *)
(* to the ticket's topic and spawns a task that receives from a clone of   *)
(* that channel and forwards every root sent by the ticket's peer to the   *)
(* transfer's data channel, which Transfer::recv reads.                    *)
(*                                                                         *)
(* async_channel receivers are clones of one queue: each item goes to      *)
(* exactly one of the tasks receiving, whichever takes it first.  Every    *)
(* task, forwarder and call is one atomic step.  A transfer's root is      *)
(* named by the transfer; the file contents and the resolver are left out. *)
(***************************************************************************)
EXTENDS Naturals, Sequences

CONSTANTS
    Transfers,   \* the sender's transfers, each with its topic iroh-share-<id>
    Cap,         \* capacity of the bounded gossip channels (1024 in the code)
    MaxNoise,    \* bound: unrelated gossip events and messages
    ForeignTopics, \* transfer topics another node may subscribe to
    None         \* model value: no value yet

ASSUME Cap \in Nat \ {0} /\ MaxNoise \in Nat /\ ForeignTopics \subseteq Transfers

\* Unrelated traffic: a subscription to some other topic, a message from a
\* peer other than the ticket's.
Other == "other"

VARIABLES
    netEvents,     \* sender node's gossipsub events not yet forwarded
    gossipEvents,  \* sender's bounded channel gossip_events
    watching,      \* [Transfers -> BOOLEAN]: the transfer's watcher task runs
    peer,          \* [Transfers -> {"empty", "sent"}]: the oneshot
    phase,         \* [Transfers -> {"none", "created", "ticketed", "published"}]
    netMessages,   \* receiver node's gossipsub messages not yet forwarded
    gossipMessages,\* receiver's bounded channel gossip_messages
    subscribed,    \* [Transfers -> BOOLEAN]: the receiver's transfer task runs
    data,          \* [Transfers -> Seq(roots)]: each receiver transfer's data channel
    got,           \* [Transfers -> root or None]: what Transfer::recv returned
    noise          \* unrelated events and messages injected so far

shareVars == <<netEvents, gossipEvents, watching, peer, phase,
               netMessages, gossipMessages, subscribed, data, got, noise>>

Events == [kind: {"Subscribed"}, topic: Transfers \cup {Other}]
Messages == [from: {"sender", Other}, topic: Transfers, root: Transfers]

\* Mutant of TrySend: the channel taken as unbounded.
TrySendUnbounded(ch, e) == Append(ch, e)

\* Mutant of TrySend: the channel counted full one item early.
TrySendOffByOne(ch, e) == IF Len(ch) < Cap - 1 THEN Append(ch, e) ELSE ch

\* try_send(e).ok(): append if there is room, drop otherwise.
TrySend(ch, e) == IF Len(ch) < Cap THEN Append(ch, e) ELSE ch

-----------------------------------------------------------------------------
Init ==
    /\ netEvents = <<>>
    /\ gossipEvents = <<>>
    /\ watching = [t \in Transfers |-> FALSE]
    /\ peer = [t \in Transfers |-> "empty"]
    /\ phase = [t \in Transfers |-> "none"]
    /\ netMessages = <<>>
    /\ gossipMessages = <<>>
    /\ subscribed = [t \in Transfers |-> FALSE]
    /\ data = [t \in Transfers |-> <<>>]
    /\ got = [t \in Transfers |-> None]
    /\ noise = 0

(* Sender *)

\* The forwarder spawned by Sender::new.
SenderForward ==
    /\ netEvents # <<>>
    /\ gossipEvents' = TrySend(gossipEvents, Head(netEvents))
    /\ netEvents' = Tail(netEvents)
    /\ UNCHANGED <<watching, peer, phase, netMessages, gossipMessages,
                   subscribed, data, got, noise>>

\* transfer_from_data: a fresh topic, the root stored, the watcher spawned.
TransferFromData(t) ==
    /\ phase[t] = "none"
    /\ phase' = [phase EXCEPT ![t] = "created"]
    /\ watching' = [watching EXCEPT ![t] = TRUE]
    /\ UNCHANGED <<netEvents, gossipEvents, peer, netMessages, gossipMessages,
                   subscribed, data, got, noise>>

\* The watcher of t takes the next event of the shared channel; Subscribed
\* for its own topic is sent on the oneshot and ends the task, anything
\* else is dropped.
Watch(t) ==
    /\ watching[t]
    /\ gossipEvents # <<>>
    /\ gossipEvents' = Tail(gossipEvents)
    /\ IF Head(gossipEvents).topic = t
       THEN /\ peer' = [peer EXCEPT ![t] = "sent"]
            /\ watching' = [watching EXCEPT ![t] = FALSE]
       ELSE UNCHANGED <<peer, watching>>
    /\ UNCHANGED <<netEvents, phase, netMessages, gossipMessages,
                   subscribed, data, got, noise>>

\* Transfer::ticket: the ticket is handed out and the publisher spawned.
Ticket(t) ==
    /\ phase[t] = "created"
    /\ phase' = [phase EXCEPT ![t] = "ticketed"]
    /\ UNCHANGED <<netEvents, gossipEvents, watching, peer, netMessages,
                   gossipMessages, subscribed, data, got, noise>>

\* The publisher: the oneshot yields the peer and the root is published on
\* the topic; gossipsub delivers it to the peers subscribed to the topic.
Publish(t) ==
    /\ phase[t] = "ticketed"
    /\ peer[t] = "sent"
    /\ phase' = [phase EXCEPT ![t] = "published"]
    /\ netMessages' = IF subscribed[t]
                      THEN Append(netMessages, [from |-> "sender", topic |-> t, root |-> t])
                      ELSE netMessages
    /\ UNCHANGED <<netEvents, gossipEvents, watching, peer, gossipMessages,
                   subscribed, data, got, noise>>

(* Receiver *)

\* The forwarder spawned by Receiver::new.
ReceiverForward ==
    /\ netMessages # <<>>
    /\ gossipMessages' = TrySend(gossipMessages, Head(netMessages))
    /\ netMessages' = Tail(netMessages)
    /\ UNCHANGED <<netEvents, gossipEvents, watching, peer, phase,
                   subscribed, data, got, noise>>

\* transfer_from_ticket: subscribe to the ticket's topic (the sender's node
\* sees Subscribed) and spawn the transfer's receiving task.
TransferFromTicket(t) ==
    /\ phase[t] \in {"ticketed", "published"}
    /\ ~subscribed[t]
    /\ subscribed' = [subscribed EXCEPT ![t] = TRUE]
    /\ netEvents' = Append(netEvents, [kind |-> "Subscribed", topic |-> t])
    /\ UNCHANGED <<gossipEvents, watching, peer, phase, netMessages,
                   gossipMessages, data, got, noise>>

\* Mutant of ReceiveRoot: the check of the message's sender left out.
ReceiveRootAnySender(t) ==
    /\ subscribed[t]
    /\ gossipMessages # <<>>
    /\ gossipMessages' = Tail(gossipMessages)
    /\ data' = [data EXCEPT ![t] = Append(@, Head(gossipMessages).root)]
    /\ UNCHANGED <<netEvents, gossipEvents, watching, peer, phase,
                   netMessages, subscribed, got, noise>>

\* The receiving task of t takes the next message of the shared channel;
\* one from the ticket's peer is resolved and sent to t's data channel
\* (whatever its topic), others are dropped.
ReceiveRoot(t) ==
    /\ subscribed[t]
    /\ gossipMessages # <<>>
    /\ gossipMessages' = Tail(gossipMessages)
    /\ data' = IF Head(gossipMessages).from = "sender"
               THEN [data EXCEPT ![t] = Append(@, Head(gossipMessages).root)]
               ELSE data
    /\ UNCHANGED <<netEvents, gossipEvents, watching, peer, phase,
                   netMessages, subscribed, got, noise>>

\* Transfer::recv: the first root on the data channel.
Recv(t) ==
    /\ got[t] = None
    /\ data[t] # <<>>
    /\ got' = [got EXCEPT ![t] = Head(data[t])]
    /\ data' = [data EXCEPT ![t] = Tail(@)]
    /\ UNCHANGED <<netEvents, gossipEvents, watching, peer, phase,
                   netMessages, gossipMessages, subscribed, noise>>

(* Other gossip traffic: another peer's subscription seen by the sender's *)
(* node, and a message of another peer on a topic the receiver joined.    *)
(* Every Sender names its topics iroh-share-0, iroh-share-1, ... and mdns  *)
(* connects the nodes of a network, so another peer may subscribe to the  *)
(* name of one of this sender's topics (ForeignTopics); the Subscribed    *)
(* event does not say which ticket the peer holds.                        *)
Noise ==
    /\ noise < MaxNoise
    /\ noise' = noise + 1
    /\ \/ /\ \E u \in ForeignTopics \cup {Other} :
                netEvents' = Append(netEvents, [kind |-> "Subscribed", topic |-> u])
          /\ UNCHANGED netMessages
       \/ /\ \E t \in Transfers :
                /\ subscribed[t]
                /\ netMessages' = Append(netMessages, [from |-> Other, topic |-> t, root |-> t])
          /\ UNCHANGED netEvents
    /\ UNCHANGED <<gossipEvents, watching, peer, phase, gossipMessages,
                   subscribed, data, got>>

-----------------------------------------------------------------------------
Next ==
    \/ SenderForward \/ ReceiverForward \/ Noise
    \/ \E t \in Transfers :
          \/ TransferFromData(t) \/ Watch(t) \/ Ticket(t) \/ Publish(t)
          \/ TransferFromTicket(t) \/ ReceiveRoot(t) \/ Recv(t)

Spec == Init /\ [][Next]_shareVars

\* tokio runs every spawned task that can make progress (the forwarders,
\* the watchers, the publishers, the receiving tasks), and the receiver
\* awaits Transfer::recv as test_transfer does.  Nothing forces the
\* embedder to create, ticket or accept a transfer.
FairSpec ==
    /\ Spec
    /\ WF_shareVars(SenderForward) /\ WF_shareVars(ReceiverForward)
    /\ \A t \in Transfers :
          /\ WF_shareVars(Watch(t)) /\ WF_shareVars(Publish(t))
          /\ WF_shareVars(ReceiveRoot(t)) /\ WF_shareVars(Recv(t))

-----------------------------------------------------------------------------
TypeOK ==
    /\ netEvents \in Seq(Events) /\ gossipEvents \in Seq(Events)
    /\ Len(gossipEvents) <= Cap /\ Len(gossipMessages) <= Cap
    /\ watching \in [Transfers -> BOOLEAN]
    /\ peer \in [Transfers -> {"empty", "sent"}]
    /\ phase \in [Transfers -> {"none", "created", "ticketed", "published"}]
    /\ netMessages \in Seq(Messages) /\ gossipMessages \in Seq(Messages)
    /\ subscribed \in [Transfers -> BOOLEAN]
    /\ data \in [Transfers -> Seq(Transfers)]
    /\ got \in [Transfers -> Transfers \cup {None}]
    /\ noise \in 0..MaxNoise

\* Every transfer whose ticket reaches the receiver is eventually received:
\* the Subscribed event reaches t's watcher, the root is published and
\* t's receiving task hands it to recv, through two bounded channels that
\* drop on overflow and are shared by all transfers.
TransferCompletes ==
    \A t \in Transfers : subscribed[t] ~> got[t] # None

\* A receiver that has subscribed to a ticket's topic eventually gets
\* that ticket's own root from Transfer::recv, as test_transfer asserts,
\* while other transfers of the same sender are in flight: watchers and
\* receiving tasks of all transfers share one channel at each node.
TransferDeliversOwnRoot ==
    \A t \in Transfers : subscribed[t] ~> got[t] = t

-----------------------------------------------------------------------------
(* Refinement: the stage of a transfer is its sender phase, with          *)
(* "joined" for a ticketed transfer the receiver has subscribed to.        *)
AbsStage(t) ==
    CASE phase[t] = "published"                  -> "published"
      [] phase[t] = "ticketed" /\ subscribed[t]  -> "joined"
      [] OTHER                                   -> phase[t]

Abstract == INSTANCE ShareTransfer WITH stage <- [t \in Transfers |-> AbsStage(t)]

\* The sender and receiver tasks together implement ShareTransfer: a root
\* is published only for a ticketed transfer, and the receiver yields only
\* a root the sender published, whatever the order in which the channels'
\* clones deliver, drop or steal items.
RefinesShareTransfer == Abstract!Spec

=============================================================================
