---------------------------- MODULE MCClientTests ----------------------------
(***************************************************************************)
(* A small instance of ClientTests: up to five pings, of which each is     *)
(* lost, quick, slow or very slow, and three hops.                         *)
(***************************************************************************)
EXTENDS ClientTests

MCCounts == {0, 1, 21}

MCLatency == {10, 60, 250}
=============================================================================
