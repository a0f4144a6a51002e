-------------------------- MODULE MCConfiguration --------------------------
(* Every command line there is, up to the values that are only copied.     *)
EXTENDS Configuration

MCFlags == Known
=============================================================================
