---------------------------- MODULE MCOrderFlow ----------------------------
(* A small instance of OrderFlow for TLC: the values are in the configurations.  The
   requests are alike: nothing chooses among them but Next. *)
EXTENDS OrderFlow, TLC

Symmetry == Permutations(Requests)
=============================================================================
