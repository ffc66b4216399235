--------------------------- MODULE MCHtifConsole ---------------------------
(***************************************************************************)
(* Model-checking instance of HtifConsole.  The driver never looks at the  *)
(* characters it carries and treats its processes alike but for Unlocked,  *)
(* so the runs of safety properties use the symmetry of Chars.             *)
(***************************************************************************)
EXTENDS HtifConsole, TLC

Symmetry == Permutations(Chars)

\* Buffers of one character, and of up to two different ones.
Single == {<<c>> : c \in Chars}
Pairs  == Single \cup {b \in Chars \X Chars : b[1] # b[2]}
=============================================================================
