----------------------------- MODULE MCDatagram -----------------------------
(* Nothing tells the nodes apart. *)
EXTENDS Datagram

Symmetry == Permutations(Nodes)
=============================================================================
