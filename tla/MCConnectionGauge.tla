-------------------------- MODULE MCConnectionGauge --------------------------
(***************************************************************************)
(* Three connections: two may be in their callbacks while a third settles. *)
(***************************************************************************)
EXTENDS ConnectionGauge

CONSTANTS c1, c2, c3

MCConns == {c1, c2, c3}
=============================================================================
