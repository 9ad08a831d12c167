------------------------------ MODULE MCHostKeys ------------------------------
(***************************************************************************)
(* A small instance of HostKeys: three connections to a host that shows    *)
(* one of two keys.                                                        *)
(***************************************************************************)
EXTENDS HostKeys, TLC

Symmetry == Permutations(Conn)
=============================================================================
