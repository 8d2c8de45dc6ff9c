--------------------------- MODULE ProtocolSelect ---------------------------
(***************************************************************************)
(* Protocol selection at stream upgrade (spec.md 4.5).  protocol.rs and    *)
(* handler.rs are not part of the source tree given here, so this follows  *)
(* the spec: the selector picks the mutual protocol of highest preference, *)
(* V120 > V110 > V100 > Legacy, and fails when there is none.              *)
(***************************************************************************)
EXTENDS Sequences, SequencesExt

CONSTANT NoProto   \* model value: Option<ProtocolId>::None, or "no agreement"

ProtocolIds == {"V120", "V110", "V100", "Legacy"}

ProtoOpt == ProtocolIds \cup {NoProto}

\* ProtocolId's order of preference, most preferred first.
Preference == <<"V120", "V110", "V100", "Legacy">>

\* The first protocol of pref that is in shared, scanning in order.
RECURSIVE FirstShared(_, _)
FirstShared(pref, shared) ==
    IF pref = <<>> THEN NoProto
    ELSE IF Head(pref) \in shared THEN Head(pref)
    ELSE FirstShared(Tail(pref), shared)

\* The protocol agreed between a local configuration (a sequence of ids in
\* configuration order) and the set a remote advertises.
SelectProtocol(local, remote) == FirstShared(Preference, ToSet(local) \cap remote)


=============================================================================
