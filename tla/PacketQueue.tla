------------------------------ MODULE PacketQueue ------------------------------
(***************************************************************************)
(* What PacketBroker and PacketEx do with the packets of a frame: one for  *)
(* TCP and one for UDP.  A packet is the sequence of its messages, each    *)
(* with its MessageID and its data.  A type is entered once (request,      *)
(* append), unless the caller of append allows duplicates.                 *)
(***************************************************************************)
EXTENDS SequencesExt

Message(type, data) == [type |-> type, data |-> data]

HoldsType(packet, type) == \E i \in DOMAIN packet : packet[i].type = type

\* append: a message that is refused is dropped.
Appended(packet, m, allow_dupes) ==
    IF ~allow_dupes /\ HoldsType(packet, m.type) THEN packet ELSE Append(packet, m)

\* request: not while the other packet of the frame holds the type.
Requested(packet, exclude, m) ==
    IF HoldsType(exclude, m.type) THEN packet ELSE Appended(packet, m, FALSE)

RequestedAll(packet, exclude, messages) ==
    FoldLeft(LAMBDA p, m : Requested(p, exclude, m), packet, messages)

\* finalize: a packet without messages is not sent.
Sent(stream, packet) == IF packet = <<>> THEN stream ELSE Append(stream, packet)

=============================================================================
