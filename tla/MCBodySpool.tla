---------------------------- MODULE MCBodySpool ----------------------------
(* A small instance of BodySpool: every body of up to five bytes, one      *)
(* letter per position so that a lost, repeated or reordered chunk shows.  *)
EXTENDS BodySpool

MCByte == 1 .. 5

(* Distinct bytes: a prefix determines its positions.                      *)
MCBodies == { [i \in 1 .. n |-> i] : n \in 0 .. 5 }
=============================================================================
