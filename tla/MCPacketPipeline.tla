-------------------------- MODULE MCPacketPipeline --------------------------
(***************************************************************************)
(* Instances of PacketPipeline for TLC; the .cfg files give the sizes.     *)
(***************************************************************************)
EXTENDS PacketPipeline
=============================================================================
