------------------------------- MODULE PlProbe -------------------------------
(***************************************************************************)
(* The probe of src/tools/pl-probe.c, a Linux program that reads the       *)
(* registers of the Zynq adapter while fesvr may be using them, and says   *)
(* whether the PL is alive.  The adapter (external) has a FIFO behind each *)
(* _DATA register; of these only TSI_OUT, on which fesvr waits for the     *)
(* target's memory, is modelled.                                           *)
(***************************************************************************)
EXTENDS Naturals, Sequences

VARIABLES
  pl,        \* "alive", or "dead": unconfigured, unclocked or in reset
  tsi_out,   \* the FIFO TSI_OUT
  ppc,       \* 0 at the start, then the index of the register read next
  ones,      \* every register read so far was 0xffffffff
  verdict    \* "none" so far, "alive", "dead", or "failed"

vars == <<pl, tsi_out, ppc, ones, verdict>>

TSI_OUT_FIFO_DATA  == 0
TSI_OUT_FIFO_COUNT == 4

\* Mutant: the data register in front of the first count.
RegsWithData == <<0, 4, 12, 16, 36, 44, 52, 56, 60, 68, 76>>

regs == <<4, 12, 16, 36, 44, 52, 56, 60, 68, 76>>

Init ==
  /\ pl \in {"alive", "dead"}
  /\ ppc = 0 /\ ones = TRUE /\ verdict = "none"

\* open and mmap, either of which may fail.
Open ==
  /\ ppc = 0 /\ verdict = "none"
  /\ \/ ppc' = 1 /\ verdict' = verdict
     \/ ppc' = 0 /\ verdict' = "failed"
  /\ UNCHANGED <<pl, tsi_out, ones>>

\* The registers a PL that is alive may read as all ones: a count never does,
\* and what the others hold is not modelled.
MayBeOnes(off) == off # TSI_OUT_FIFO_COUNT

\* Mutant: the last register read decides.
CountLast(v) == ones' = v

Count(v) == ones' = (ones /\ v)

\* One register; reading the data of a FIFO pops it.
ReadRegister ==
  /\ ppc \in DOMAIN regs
  /\ \E v \in BOOLEAN :
       /\ IF pl = "dead" THEN v ELSE v => MayBeOnes(regs[ppc])
       /\ Count(v)
  /\ tsi_out' = IF pl = "alive" /\ regs[ppc] = TSI_OUT_FIFO_DATA /\ tsi_out # << >>
                THEN Tail(tsi_out) ELSE tsi_out
  /\ ppc' = ppc + 1
  /\ UNCHANGED <<pl, verdict>>

\* Dead when every register read as all ones.
Verdict ==
  /\ ppc = Len(regs) + 1 /\ verdict = "none"
  /\ verdict' = IF ones THEN "dead" ELSE "alive"
  /\ UNCHANGED <<pl, tsi_out, ppc, ones>>

Next == Open \/ ReadRegister \/ Verdict

\* A verdict is right, whatever fesvr and the target do meanwhile.
VerdictRight == verdict \in {"alive", "dead"} => verdict = pl
=============================================================================
