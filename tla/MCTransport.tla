----------------------------- MODULE MCTransport -----------------------------
(* A packet of two sub-packets with a zero in the first, which the second     *)
(* does not fill, and one of a single full sub-packet.                        *)
EXTENDS TransportLayer

MCPackets == {<< <<1, 0>>, <<1>> >>, << <<2, 2>> >>}
=============================================================================
