---------------------------- MODULE PacketChannel ----------------------------
(***************************************************************************)
(* What a connection promises the handlers on its two ends: whole packets, *)
(* each delivered once and in the order they were sent.                    *)
(***************************************************************************)
EXTENDS Sequences, Naturals

CONSTANT Packets

VARIABLES sent, delivered

Init == sent = <<>> /\ delivered = <<>>

Send == \E p \in Packets : sent' = Append(sent, p) /\ UNCHANGED delivered

Deliver ==
    /\ Len(delivered) < Len(sent)
    /\ delivered' = Append(delivered, sent[Len(delivered) + 1])
    /\ UNCHANGED sent

Spec == Init /\ [][Send \/ Deliver]_<<sent, delivered>>
=============================================================================
