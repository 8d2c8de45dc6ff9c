---------------------------- MODULE ShareTransfer ----------------------------
(***************************************************************************)
(* What an iroh-share transfer promises, without channels or tasks.  Each  *)
(* transfer is created, handed out as a ticket, joined by the receiver     *)
(* holding the ticket, and has its root published once it is ticketed,     *)
(* joined or not.  The receiver's transfer yields, at most once, a root    *)
(* the sender published.                                                   *)
(*                                                                         *)
(* It does not promise that the root is the ticket's own: with two         *)
(* transfers of one sender the code does not keep that (see Share's        *)
(* TransferDeliversOwnRoot).  Nor that the root is published after the     *)
(* ticket's receiver joined: a Subscribed event of any peer on the topic   *)
(* name releases it (see the share_foreign_subscriber run).                *)
(***************************************************************************)
CONSTANTS Transfers, None

VARIABLES
    stage,   \* [Transfers -> {"none", "created", "ticketed", "joined", "published"}]
    got      \* [Transfers -> root or None]: the root the receiver's transfer yielded

vars == <<stage, got>>

Stages == {"none", "created", "ticketed", "joined", "published"}

Init ==
    /\ stage = [t \in Transfers |-> "none"]
    /\ got = [t \in Transfers |-> None]

Advance(t, from, to) ==
    /\ stage[t] = from
    /\ stage' = [stage EXCEPT ![t] = to]
    /\ UNCHANGED got

Create(t)  == Advance(t, "none", "created")
Offer(t)   == Advance(t, "created", "ticketed")
Join(t)    == Advance(t, "ticketed", "joined")
\* The root is published once the ticket is out, joined or not.
Publish(t) ==
    /\ stage[t] \in {"ticketed", "joined"}
    /\ stage' = [stage EXCEPT ![t] = "published"]
    /\ UNCHANGED got

\* A joined transfer yields one of the published roots.
Deliver(t) ==
    /\ stage[t] \in {"joined", "published"}
    /\ got[t] = None
    /\ \E u \in Transfers :
          /\ stage[u] = "published"
          /\ got' = [got EXCEPT ![t] = u]
    /\ UNCHANGED stage

Next == \E t \in Transfers :
          Create(t) \/ Offer(t) \/ Join(t) \/ Publish(t) \/ Deliver(t)

Spec == Init /\ [][Next]_vars

TypeOK ==
    /\ stage \in [Transfers -> Stages]
    /\ got \in [Transfers -> Transfers \cup {None}]

=============================================================================
