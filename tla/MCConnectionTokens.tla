------------------------ MODULE MCConnectionTokens ------------------------
(* A small instance of ConnectionTokens for TLC: the values are in the configuration. *)
EXTENDS ConnectionTokens
=============================================================================
