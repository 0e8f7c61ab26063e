------------------------------ MODULE MCLogger ------------------------------
(* A small instance of Logger for TLC: records of half a file and shorter. *)
EXTENDS Logger

Sizes == {1, 2}
=============================================================================
