---------------------------- MODULE MCReduction -----------------------------
(* A reducer used twice: on a package of four units, on two of its units,  *)
(* and on the empty package, in any order.                                 *)
EXTENDS Reduction

MCPackages == {{}, {1, 2}, 1 .. 4}
============================================================================
