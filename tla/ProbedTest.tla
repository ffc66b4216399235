----------------------------- MODULE ProbedTest -----------------------------
(***************************************************************************)
(* The bare-metal test and its host, with somebody running pl-probe on the *)
(* ARM meanwhile: both use the registers of the one adapter.  With a dead  *)
(* PL there is no hart, and only the probe runs.                           *)
(***************************************************************************)
EXTENDS HtifSyscall

VARIABLES pl, ppc, ones, verdict

probe == <<pl, ppc, ones, verdict>>

Probe == INSTANCE PlProbe

ProbedInit == Init /\ Probe!Init

TestStep(A) == pl = "alive" /\ A /\ UNCHANGED probe

ProbeStep == Probe!Next /\ UNCHANGED <<program, stores, mem, host>>

ProbedNext ==
  \/ TestStep(Program) \/ TestStep(Visible) \/ TestStep(Host)
  \/ ProbeStep

all == <<vars, probe>>

\* The probe may stop anywhere.
ProbedSpec ==
  /\ ProbedInit /\ [][ProbedNext]_all
  /\ WF_all(TestStep(Program)) /\ WF_all(TestStep(Visible)) /\ WF_all(TestStep(Host))

-----------------------------------------------------------------------------
VerdictRight == Probe!VerdictRight

\* On a live PL the run ends, also while it is probed: the probe takes no word
\* of TSI away from fesvr ("would steal a word out from under fesvr").
RunEnds == pl = "alive" => ExitReaches
=============================================================================
