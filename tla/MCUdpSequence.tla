----------------------------- MODULE MCUdpSequence -----------------------------
(* Instances of UdpSequence for TLC. *)
EXTENDS UdpSequence

=============================================================================
