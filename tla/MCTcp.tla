------------------------------- MODULE MCTcp --------------------------------
(***************************************************************************)
(* Initial numbers for model checking Tcp: in no order, and the first one  *)
(* so close to the end of the number space that a stream runs over it.     *)
(***************************************************************************)
EXTENDS Tcp

IsnValues == [k \in 0 .. MaxIsns - 1 |-> <<62, 40, 10, 26, 50>>[k + 1]]
=============================================================================
