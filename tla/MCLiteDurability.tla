-------------------------- MODULE MCLiteDurability --------------------------
(***************************************************************************)
(* LiteDurability for TLC: the constants are given in the .cfg files.      *)
(***************************************************************************)
EXTENDS LiteDurability
=============================================================================
