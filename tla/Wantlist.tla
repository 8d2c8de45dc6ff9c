------------------------------ MODULE Wantlist ------------------------------
(***************************************************************************)
(* The wantlist and the pending BitswapMessage of iroh-bitswap.            *)
(*                                                                         *)
(* message.rs is not part of the source tree given here, so these          *)
(* operators follow spec.md sections 3, 4.1 and 4.2.  A wantlist is a map  *)
(* CID -> entry; an entry is a Want-Block, a Want-Have or a Cancel, and a  *)
(* CID has at most one entry (the map makes that so).  Priorities are      *)
(* passed through unchanged and no property depends on them, so they are  *)
(* left out.                                                               *)
(***************************************************************************)
CONSTANT Cids

EntryKinds == {"None", "WantBlock", "WantHave", "Cancel"}

EmptyWantlist == [c \in Cids |-> "None"]

\* want_block: sets the entry to Want-Block (overwrites Want-Have or Cancel).
WantBlockOp(wl, c) == [wl EXCEPT ![c] = "WantBlock"]

\* want_have_block: sets Want-Have only if no Want-Block exists for c.
WantHaveOp(wl, c) ==
    IF wl[c] = "WantBlock" THEN wl ELSE [wl EXCEPT ![c] = "WantHave"]

\* cancel_block: removes any want for c and records a cancel.
CancelOp(wl, c) == [wl EXCEPT ![c] = "Cancel"]

\* remove_block: drops the entry for c without recording a cancel
\* (the sender of the block already answered it).
RemoveBlockOp(wl, c) == [wl EXCEPT ![c] = "None"]

\* remove_want_block: drops a Want-Have for c, without a cancel.
RemoveWantBlockOp(wl, c) ==
    IF wl[c] = "WantHave" THEN [wl EXCEPT ![c] = "None"] ELSE wl

\* A pending message: wantlist delta, full flag, block payloads, Have presences.
Messages == [wl: [Cids -> EntryKinds], full: BOOLEAN,
             blocks: SUBSET Cids, haves: SUBSET Cids]

\* BitswapMessage::is_empty: the full flag alone does not make it non-empty.
IsEmptyMsg(m) ==
    /\ \A c \in Cids : m.wl[c] = "None"
    /\ m.blocks = {}
    /\ m.haves = {}

\* BitswapMessage::default() with the full flag set as given.
FreshMsg(full) == [wl |-> EmptyWantlist, full |-> full, blocks |-> {}, haves |-> {}]

=============================================================================
