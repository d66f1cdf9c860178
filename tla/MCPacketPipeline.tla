------------------------- MODULE MCPacketPipeline -------------------------
(* PacketPipeline for TLC: fewer blocks than threads, so that the read      *)
(* thread runs out of them, and reads and a resolve queue of one packet.    *)
EXTENDS PacketPipeline
=============================================================================
