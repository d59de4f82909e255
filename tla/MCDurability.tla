---------------------------- MODULE MCDurability ----------------------------
(* Durability on small instances. *)
EXTENDS Durability
=============================================================================
