----------------------------- MODULE MachineTrap -----------------------------
(***************************************************************************)
(* Machine-mode traps and the timer tick of the xv6 port: timervec and     *)
(* reflect (kernelvec.S), timerinit (start.c) and the software-interrupt   *)
(* branch of devintr (trap.c), all in src/xv6/0001-xv6-rocket-port.patch,  *)
(* on one Rocket hart (the hardware's trap entry, mret and sret, and the   *)
(* CLINT, are external).                                                   *)
(*                                                                         *)
(* A word is the set of its 1 bits, so the handler's shifts and masks are  *)
(* set operations.  A step of the handler is a few instructions: nothing   *)
(* else runs on the hart in machine mode, only time passes.                *)
(***************************************************************************)
EXTENDS Naturals

CONSTANTS
  Interval,     \* 25000: mtime units between ticks
  HandlerTime,  \* bound on the time from reading mtime to mret
  MaxTime,      \* bound on mtime
  Causes        \* exceptions Rocket cannot delegate, as words

ASSUME TrapAssumption ==
  /\ Interval \in Nat /\ HandlerTime \in Nat /\ MaxTime \in Nat
  /\ HandlerTime < Interval
  /\ \A c \in Causes : c \subseteq 0..7

VARIABLES
  mode,        \* "U", "S" or "M"
  pc,          \* program counter in U and S (a word, see below)
  mpc,         \* where the machine handler is, "out" in U and S
  a,           \* registers a0..a3
  mstatus, mcause, mepc, mtval, mscratch,
  scause, sepc, stval,
  ssip,        \* sip.SSIP
  scratch,     \* timer_scratch[id][0..2], the register save area
  mtime, mtimecmp,
  armed,       \* mtime when the handler read it
  owed,        \* a tick was raised and no clockintr has begun since (history)
  snap         \* what software saw when the trap was taken (history)

csrs == <<mstatus, mcause, mepc, mtval, mscratch>>
scsr == <<scause, sepc, stval>>
time == <<mtime, mtimecmp, armed>>
vars == <<mode, pc, mpc, a, mstatus, mcause, mepc, mtval, mscratch, scause, sepc,
          stval, ssip, scratch, mtime, mtimecmp, armed, owed, snap>>

\* Bits of mstatus.
SIE  == 1
MIE  == 3
SPIE == 5
MPIE == 7
SPP  == 8
MPP  == {11, 12}

\* Words: shifts, and the causes the handler tells apart.
Srl(w, n) == {b - n : b \in {c \in w : c >= n}}
Sll(w, n) == {b + n : b \in {c \in w : c + n <= 63}}
TimerCause    == {63, 0, 1, 2}     \* interrupt 7
SoftwareCause == {63, 0}           \* interrupt 1, supervisor software
EcallCause    == {3}               \* 8, a system call

\* Code locations.  stvec holds the vector, with the mode bits 0 and 1 clear.
UserPc  == {20}
KernPc  == {21}
stvec   == {22}
RsipPc  == {23}
WsipPc  == {24}
ClockPc == {25}
TicksPc == {26}
SretPc  == {27}
PanicPc == {28}

Scratch == {30}    \* the address of timer_scratch[id]

If(cond, w) == IF cond THEN w ELSE {}
MppOf(m)    == CASE m = "U" -> {} [] m = "S" -> {11} [] m = "M" -> {11, 12}
ModeOf(w)   == CASE w \cap MPP = {} -> "U" [] w \cap MPP = {11} -> "S"
                 [] OTHER -> "M"

\* What user and supervisor software can see.
Seen == [mode |-> mode, pc |-> pc, a |-> a, sie |-> SIE \in mstatus,
         spie |-> SPIE \in mstatus, spp |-> SPP \in mstatus,
         scause |-> scause, sepc |-> sepc, stval |-> stval, ssip |-> ssip]

-----------------------------------------------------------------------------
\* After start(): timerinit has armed the CLINT and set mscratch; the kernel
\* runs in S-mode with interrupts disabled.
Init ==
  /\ mode = "S" /\ pc = KernPc /\ mpc = "out"
  /\ a = [i \in 0..3 |-> {40 + i}]
  /\ mstatus = {MIE} /\ mcause = {} /\ mepc = {} /\ mtval = {}
  /\ mscratch = Scratch
  /\ scause = {} /\ sepc = {} /\ stval = {} /\ ssip = FALSE
  /\ scratch = [i \in 1..3 |-> {}]
  /\ mtime = 0 /\ mtimecmp = Interval /\ armed = 0
  /\ owed = FALSE
  /\ snap = Seen

-----------------------------------------------------------------------------
(* Hardware (external): a trap into machine mode, mret, and time.          *)

TrapToMachine(cause, value) ==
  /\ mode # "M"
  /\ mcause' = cause /\ mepc' = pc /\ mtval' = value
  /\ mstatus' = (mstatus \ (MPP \cup {MIE, MPIE}))
                  \cup MppOf(mode) \cup If(MIE \in mstatus, {MPIE})
  /\ mode' = "M" /\ mpc' = "save"
  /\ snap' = Seen
  /\ UNCHANGED <<pc, a, mscratch, scsr, ssip, scratch, time, owed>>

\* A machine interrupt is enabled in U and S whatever sstatus.SIE is.
TimerInterrupt == mtime >= mtimecmp /\ TrapToMachine(TimerCause, {})

Exception(c, v) == pc \in {UserPc, KernPc} /\ TrapToMachine(c, v)

Mret ==
  /\ mpc = "mret"
  /\ mode' = ModeOf(mstatus) /\ pc' = mepc /\ mpc' = "out"
  /\ mstatus' = (mstatus \ (MPP \cup {MIE})) \cup {MPIE} \cup If(MPIE \in mstatus, {MIE})
  /\ UNCHANGED <<a, mcause, mepc, mtval, mscratch, scsr, ssip, scratch, time,
                 owed, snap>>

\* Once the handler has read mtime it returns within HandlerTime.
Time ==
  /\ mtime < MaxTime
  /\ mpc \in {"arm", "raise", "restore", "mret"} => mtime < armed + HandlerTime
  /\ mtime' = mtime + 1
  /\ UNCHANGED <<mode, pc, mpc, a, csrs, scsr, ssip, scratch, mtimecmp, armed,
                 owed, snap>>

-----------------------------------------------------------------------------
(* timervec                                                                *)

\* csrrw a0, mscratch, a0 and the three stores.
Save ==
  /\ mpc = "save"
  /\ a' = [a EXCEPT ![0] = mscratch] /\ mscratch' = a[0]
  /\ scratch' = [i \in 1..3 |-> a[i]]
  /\ mpc' = "dispatch"
  /\ UNCHANGED <<mode, pc, mstatus, mcause, mepc, mtval, scsr, ssip, time, owed,
                 snap>>

\* Mutant: upstream's timervec, which takes every trap for the timer.
DispatchTimer ==
  /\ mpc = "dispatch"
  /\ a' = [a EXCEPT ![1] = mcause]
  /\ mpc' = "time"
  /\ UNCHANGED <<mode, pc, csrs, scsr, ssip, scratch, time, owed, snap>>

\* bgez on mcause, then a comparison of its low byte with 7.
Dispatch ==
  /\ mpc = "dispatch"
  /\ IF 63 \notin mcause
     THEN a' = [a EXCEPT ![1] = mcause] /\ mpc' = "reflect"
     ELSE /\ a' = [a EXCEPT ![1] = mcause, ![2] = mcause \cap 0..7, ![3] = {0, 1, 2}]
          /\ mpc' = IF a'[2] = a'[3] THEN "time" ELSE "reflect"
  /\ UNCHANGED <<mode, pc, csrs, scsr, ssip, scratch, time, owed, snap>>

\* Mutant: upstream's rearm, relative to the old compare value.
ReadCompare ==
  /\ mpc = "time"
  /\ a' = [a EXCEPT ![1] = {31}, ![2] = {}, ![3] = mtimecmp + Interval]
  /\ armed' = mtime
  /\ mpc' = "arm"
  /\ UNCHANGED <<mode, pc, csrs, scsr, ssip, scratch, mtime, mtimecmp, owed, snap>>

\* a3 = current mtime + interval.
ReadTime ==
  /\ mpc = "time"
  /\ a' = [a EXCEPT ![1] = {31}, ![2] = {}, ![3] = mtime + Interval]
  /\ armed' = mtime
  /\ mpc' = "arm"
  /\ UNCHANGED <<mode, pc, csrs, scsr, ssip, scratch, mtime, mtimecmp, owed, snap>>

\* sd a3, 0(a1)
StoreCompare ==
  /\ mpc = "arm"
  /\ mtimecmp' = a[3]
  /\ mpc' = "raise"
  /\ UNCHANGED <<mode, pc, a, csrs, scsr, ssip, scratch, mtime, armed, owed, snap>>

\* csrw sip, 2
RaiseSoftware ==
  /\ mpc = "raise"
  /\ a' = [a EXCEPT ![1] = {1}]
  /\ ssip' = TRUE /\ owed' = TRUE
  /\ mpc' = "restore"
  /\ UNCHANGED <<mode, pc, csrs, scsr, scratch, time, snap>>

\* Mutant: the last csrrw is missing, so a0 and mscratch stay swapped.
RestoreNoSwap ==
  /\ mpc = "restore"
  /\ a' = [i \in 0..3 |-> IF i = 0 THEN a[0] ELSE scratch[i]]
  /\ mpc' = "mret"
  /\ UNCHANGED <<mode, pc, csrs, scsr, ssip, scratch, time, owed, snap>>

Restore ==
  /\ mpc = "restore"
  /\ a' = [i \in 0..3 |-> IF i = 0 THEN mscratch ELSE scratch[i]]
  /\ mscratch' = a[0]
  /\ mpc' = "mret"
  /\ UNCHANGED <<mode, pc, mstatus, mcause, mepc, mtval, scsr, ssip, scratch, time,
                 owed, snap>>

-----------------------------------------------------------------------------
(* reflect                                                                 *)

\* csrw scause, a1; sepc = mepc; stval = mtval
ReflectCause ==
  /\ mpc = "reflect"
  /\ scause' = a[1] /\ sepc' = mepc /\ stval' = mtval
  /\ a' = [a EXCEPT ![1] = mtval]
  /\ mpc' = "status"
  /\ UNCHANGED <<mode, pc, csrs, ssip, scratch, time, owed, snap>>

\* Mutant: SIE is not copied to SPIE.
ReflectedStatusNoSpie(w) ==
  LET spp == Sll(Srl(w, 11) \cap {0}, 8)
  IN  (((w \ {8, 5, 1}) \cup spp) \ Sll({0, 1}, 11)) \cup Sll({0}, 11)

\* Mutant: MPP keeps both bits, as if "li a2, 1" were missing.
ReflectedStatusMppM(w) ==
  LET spp  == Sll(Srl(w, 11) \cap {0}, 8)
      spie == Sll(w \cap {1}, 4)
  IN  (((w \ {8, 5, 1}) \cup spp \cup spie) \ Sll({0, 1}, 11)) \cup Sll({0, 1}, 11)

\* The value written to mstatus: SPP from MPP, SPIE from SIE, SIE clear, MPP = S.
ReflectedStatus(w) ==
  LET spp  == Sll(Srl(w, 11) \cap {0}, 8)
      spie == Sll(w \cap {1}, 4)
  IN  (((w \ {8, 5, 1}) \cup spp \cup spie) \ Sll({0, 1}, 11)) \cup Sll({0}, 11)

ReflectStatus ==
  /\ mpc = "status"
  /\ mstatus' = ReflectedStatus(mstatus)
  /\ a' = [a EXCEPT ![1] = mstatus', ![2] = Sll({0}, 11), ![3] = Sll(mstatus \cap {1}, 4)]
  /\ mpc' = "vector"
  /\ UNCHANGED <<mode, pc, mcause, mepc, mtval, mscratch, scsr, ssip, scratch, time,
                 owed, snap>>

\* mepc = stvec & -4
ReflectVector ==
  /\ mpc = "vector"
  /\ a' = [a EXCEPT ![1] = stvec \ {0, 1}]
  /\ mepc' = stvec \ {0, 1}
  /\ mpc' = "restore"
  /\ UNCHANGED <<mode, pc, mstatus, mcause, mtval, mscratch, scsr, ssip, scratch, time,
                 owed, snap>>

-----------------------------------------------------------------------------
(* Supervisor and user software.  Only devintr is the port's; the rest is  *)
(* the least that surrounds it.                                            *)

Software(p, m, s) ==     \* a step of software to pc p, mode m and mstatus s
  /\ pc' = p /\ mode' = m /\ mstatus' = s
  /\ UNCHANGED <<mpc, a, mcause, mepc, mtval, mscratch, scratch, time, snap>>

\* Hardware (external): a trap delegated to supervisor mode.
TrapToSupervisor(cause) ==
  /\ scause' = cause /\ sepc' = pc /\ stval' = {}
  /\ Software(stvec, "S",
       (mstatus \ {SIE, SPIE, SPP}) \cup If(mode = "S", {SPP})
                                   \cup If(SIE \in mstatus, {SPIE}))
  /\ UNCHANGED <<ssip, owed>>

SystemCall == mode = "U" /\ TrapToSupervisor(EcallCause)

SoftwareInterrupt ==
  /\ ssip
  /\ mode = "U" \/ (mode = "S" /\ SIE \in mstatus)
  /\ TrapToSupervisor(SoftwareCause)

\* acquire and release: the kernel disables and enables interrupts.
Toggle ==
  /\ mode = "S" /\ pc = KernPc
  /\ Software(pc, mode, IF SIE \in mstatus THEN mstatus \ {SIE} ELSE mstatus \cup {SIE})
  /\ UNCHANGED <<scsr, ssip, owed>>

\* usertrap and kerneltrap: a system call goes on in the kernel, a software
\* interrupt to devintr, a fault kills the process or panics the kernel.
TrapHandler ==
  /\ mode = "S" /\ pc = stvec
  /\ Software(CASE scause = EcallCause -> KernPc
                [] scause = SoftwareCause -> RsipPc
                [] OTHER -> IF SPP \in mstatus THEN PanicPc ELSE SretPc,
              mode, mstatus)
  /\ UNCHANGED <<scsr, ssip, owed>>

\* devintr: w_sip(r_sip() & ~2), a read and a write, then clockintr.
DevintrRead ==
  /\ mode = "S" /\ pc = RsipPc
  /\ Software(WsipPc, mode, mstatus)
  /\ UNCHANGED <<scsr, ssip, owed>>

\* Mutant: the software interrupt is not acknowledged.
AckNothing ==
  /\ mode = "S" /\ pc = WsipPc
  /\ Software(ClockPc, mode, mstatus)
  /\ UNCHANGED <<scsr, ssip, owed>>

DevintrAck ==
  /\ mode = "S" /\ pc = WsipPc
  /\ ssip' = FALSE
  /\ Software(ClockPc, mode, mstatus)
  /\ UNCHANGED <<scsr, owed>>

ClockBegin ==
  /\ mode = "S" /\ pc = ClockPc
  /\ owed' = FALSE
  /\ Software(TicksPc, mode, mstatus)
  /\ UNCHANGED <<scsr, ssip>>

\* Mutant: the interrupt is acknowledged after clockintr instead of before.
ClockEndAck ==
  /\ mode = "S" /\ pc = TicksPc
  /\ ssip' = FALSE
  /\ Software(SretPc, mode, mstatus)
  /\ UNCHANGED <<scsr, owed>>

ClockEnd ==
  /\ mode = "S" /\ pc = TicksPc
  /\ Software(SretPc, mode, mstatus)
  /\ UNCHANGED <<scsr, ssip, owed>>

\* sret: from a trap to what it interrupted.
Sret ==
  /\ mode = "S" /\ pc = SretPc
  /\ Software(sepc, IF SPP \in mstatus THEN "S" ELSE "U",
              (mstatus \ {SIE, SPP}) \cup {SPIE} \cup If(SPIE \in mstatus, {SIE}))
  /\ UNCHANGED <<scsr, ssip, owed>>

\* The end of a system call: usertrapret disables interrupts and returns.
ReturnToUser ==
  /\ mode = "S" /\ pc = KernPc
  /\ Software(UserPc, "U", (mstatus \ {SPP}) \cup {SIE, SPIE})
  /\ UNCHANGED <<scsr, ssip, owed>>

\* panic's for(;;)
Panicked == mode = "S" /\ pc = PanicPc /\ UNCHANGED vars

-----------------------------------------------------------------------------
Handler ==
  \/ Save \/ Dispatch \/ ReadTime \/ StoreCompare \/ RaiseSoftware \/ Restore
  \/ ReflectCause \/ ReflectStatus \/ ReflectVector \/ Mret

Supervisor ==
  \/ TrapHandler \/ DevintrRead \/ DevintrAck \/ ClockBegin \/ ClockEnd \/ Sret

Next ==
  \/ Handler \/ TimerInterrupt \/ Time
  \/ \E c \in Causes, v \in {{}, {9}} : Exception(c, v)
  \/ Supervisor \/ SoftwareInterrupt \/ SystemCall \/ Toggle \/ ReturnToUser
  \/ Panicked

Spec == Init /\ [][Next]_vars

\* The kernel leaves each of its critical sections: release, intr_on in the
\* scheduler's loop, or the return to the user.
EnableInterrupts == ReturnToUser \/ (Toggle /\ SIE \notin mstatus)

\* The hart executes, and takes an interrupt that is enabled again and again (the
\* hardware takes it before the next instruction).  Time need not pass.
FairSpec ==
  /\ Spec
  /\ WF_vars(Handler) /\ WF_vars(Supervisor)
  /\ WF_vars(EnableInterrupts)
  /\ SF_vars(SoftwareInterrupt)

-----------------------------------------------------------------------------
(* Properties.                                                             *)

\* Types; the hart is in machine mode exactly while the handler runs, so mret
\* always leaves it (to the mode the trap came from, or to S).  The registers
\* a0..a3 hold words or, between two instructions, a time.
TypeOK ==
  /\ mode \in {"U", "S", "M"} /\ (mode = "M" <=> mpc # "out")
  /\ mpc \in {"out", "save", "dispatch", "time", "arm", "raise", "restore",
              "reflect", "status", "vector", "mret"}
  /\ pc \in {UserPc, KernPc, stvec, RsipPc, WsipPc, ClockPc, TicksPc, SretPc, PanicPc}
  /\ DOMAIN a = 0..3 /\ DOMAIN scratch = 1..3
  /\ \A w \in {mstatus, mcause, mepc, mtval, mscratch, scause, sepc, stval} :
       w \subseteq 0..63
  /\ ssip \in BOOLEAN /\ owed \in BOOLEAN
  /\ mtime \in 0..MaxTime /\ mtimecmp \in Nat /\ armed \in 0..MaxTime

\* The trap state hardware delegation of cause c with value v would leave.
Delegated(s, c, v) ==
  [s EXCEPT !.mode = "S", !.pc = stvec, !.spp = (s.mode = "S"), !.spie = s.sie,
            !.sie = FALSE, !.scause = c, !.sepc = s.pc, !.stval = v]

\* The machine handler is invisible: a tick changes nothing that software can
\* see but SSIP, and any other trap arrives in supervisor mode exactly as if
\* the hardware had delegated it ("the way hardware delegation would have").
HandlerTransparent ==
  [][mode = "M" /\ mode' # "M" =>
       Seen' = IF mcause = TimerCause THEN [snap EXCEPT !.ssip = TRUE]
                                      ELSE Delegated(snap, mcause, mtval)]_vars

\* The next trap finds its save area and machine interrupts enabled again.
ScratchReady == mode # "M" => mscratch = Scratch /\ MIE \in mstatus

\* What a trap may rely on whenever it comes, and the types of what it finds.
TrapInv == TypeOK /\ ScratchReady

\* When the handler returns from a tick the next one is in the future, however
\* late this one was taken: the hart cannot livelock in timervec.
NoRefire == mpc \in {"restore", "mret"} /\ mcause = TimerCause => mtime < mtimecmp

\* Where supervisor software is, seen through an interrupting machine trap.
SoftwarePc == IF mode = "M" THEN snap.pc ELSE pc

\* A tick raised by timervec is still pending or clockintr is about to begin: a
\* tick that arrives while devintr handles the one before is not lost.
TickNotLost == owed => ssip \/ SoftwarePc = ClockPc

\* Every tick comes to its clockintr and is acknowledged, through interrupts
\* disabled by the kernel, faults and further ticks: no tick is left pending
\* and none is delivered for ever.  Only a panic ends this.
TickServed == owed \/ ssip ~> (~owed /\ ~ssip) \/ SoftwarePc = PanicPc
=============================================================================
