--------------------------- MODULE MCMachineTrap ---------------------------
(***************************************************************************)
(* Model-checking instance of MachineTrap.                                 *)
(***************************************************************************)
EXTENDS MachineTrap

\* Illegal instruction (2), load access fault (5) and store misaligned (6):
\* medeleg 0xB109 has none of these bits.
NonDelegable == {{1}, {0, 2}, {1, 2}}
=============================================================================
