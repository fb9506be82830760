--------------------------- MODULE MCMultiplexer ---------------------------
(* Multiplexer with interchangeable managers and client threads. *)
EXTENDS Multiplexer, TLC

Symmetry == Permutations(Managers) \cup Permutations(Clients)
=============================================================================
