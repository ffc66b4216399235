-------------------------- MODULE MCMemoryRoutines --------------------------
(***************************************************************************)
(* Model-checking instance of MemoryRoutines: every byte of the memory is  *)
(* told from the others, but for the terminators of two strings.           *)
(***************************************************************************)
EXTENDS MemoryRoutines

Distinct == {[a \in Addrs |-> IF a \in {5, 26} THEN 0 ELSE a + 1]}
Signed   == {-1, 300}
=============================================================================
