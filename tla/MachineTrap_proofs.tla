------------------------- MODULE MachineTrap_proofs -------------------------
(***************************************************************************)
(* Proofs about MachineTrap, for every tick interval, every handler faster *)
(* than it, every bound on time and every set of exceptions that Rocket    *)
(* cannot delegate: types, that every trap finds its save area, that a     *)
(* handled tick lies in the future, that no tick is lost, and that the     *)
(* handler is invisible to the software it interrupts.                     *)
(***************************************************************************)
EXTENDS MachineTrap, TLAPS

Words == SUBSET (0..63)

SoftPcs  == {UserPc, KernPc, stvec, RsipPc, WsipPc, ClockPc, TicksPc, SretPc, PanicPc}
OuterPcs == {UserPc, KernPc}

Snaps == [mode : {"U", "S"}, pc : SoftPcs, a : [0..3 -> Words], sie : BOOLEAN,
          spie : BOOLEAN, spp : BOOLEAN, scause : Words, sepc : Words,
          stval : Words, ssip : BOOLEAN]

\* Types.  Only the shape of the registers: a3 may hold a time.
Typed ==
  /\ mode \in {"U", "S", "M"} /\ (mode = "M" <=> mpc # "out")
  /\ mpc \in {"out", "save", "dispatch", "time", "arm", "raise", "restore",
              "reflect", "status", "vector", "mret"}
  /\ pc \in SoftPcs
  /\ a = [i \in 0..3 |-> a[i]]
  /\ scratch \in [1..3 -> Words]
  /\ mstatus \in Words /\ mcause \in Words /\ mepc \in Words /\ mtval \in Words
  /\ mscratch \in Words /\ scause \in Words /\ sepc \in Words /\ stval \in Words
  /\ ssip \in BOOLEAN /\ owed \in BOOLEAN
  /\ mtime \in 0..MaxTime /\ mtimecmp \in Nat /\ armed \in 0..MaxTime
  /\ snap \in Snaps

\* Where the interrupted registers are: in place, or swapped with mscratch and
\* saved.
Registers ==
  /\ mpc = "out" => a \in [0..3 -> Words] /\ mscratch = Scratch
  /\ mpc \in {"save", "mret"} => a = snap.a /\ mscratch = Scratch
  /\ mpc \notin {"out", "save", "mret"} =>
       /\ a[0] = Scratch /\ mscratch = snap.a[0]
       /\ \A i \in 1..3 : scratch[i] = snap.a[i]

\* The tick's path through the handler and the other traps' path.
Ticking == mpc \in {"time", "arm", "raise"}
Reflecting == mpc \in {"reflect", "status", "vector"}

Paths ==
  /\ mpc # "out" => mcause = TimerCause \/ (mcause \in Causes /\ snap.pc \in OuterPcs)
  /\ Ticking => mcause = TimerCause
  /\ Reflecting => mcause # TimerCause
  /\ mpc = "reflect" => a[1] = mcause

\* Interrupts are enabled outside the handler and come back with mret.
Enabled ==
  /\ mpc = "out" => MIE \in mstatus
  /\ mpc # "out" => MPIE \in mstatus /\ 12 \notin mstatus

\* What the handler has changed of the supervisor's state: nothing but SSIP on
\* the way of a tick; what the hardware would have on the other way.
Untouched ==
  /\ (11 \in mstatus) <=> (snap.mode = "S")
  /\ (SIE \in mstatus) = snap.sie
  /\ (SPIE \in mstatus) = snap.spie /\ (SPP \in mstatus) = snap.spp
  /\ mepc = snap.pc

StatusReflected ==
  /\ 11 \in mstatus /\ SIE \notin mstatus
  /\ (SPIE \in mstatus) = snap.sie /\ ((SPP \in mstatus) <=> (snap.mode = "S"))

CauseKept      == scause = snap.scause /\ sepc = snap.sepc /\ stval = snap.stval
CauseReflected == scause = mcause /\ sepc = snap.pc /\ stval = mtval

Progress ==
  mpc # "out" =>
    /\ pc = snap.pc
    /\ mpc \in {"save", "dispatch"} => Untouched /\ CauseKept /\ ssip = snap.ssip
    /\ mcause = TimerCause => Untouched /\ CauseKept
    /\ mcause = TimerCause /\ mpc \in {"restore", "mret"} => ssip
    /\ mcause # TimerCause => ssip = snap.ssip
    /\ mpc = "reflect" => Untouched /\ CauseKept
    /\ mpc = "status" => Untouched /\ CauseReflected
    /\ mpc = "vector" => StatusReflected /\ CauseReflected
    /\ mpc \in {"restore", "mret"} /\ mcause # TimerCause =>
         StatusReflected /\ CauseReflected /\ mepc = stvec

\* The time of a tick's handler, and what it has armed.
Timing ==
  mcause = TimerCause /\ mpc \in {"arm", "raise", "restore", "mret"} =>
    /\ armed <= mtime /\ mtime <= armed + HandlerTime
    /\ mpc = "arm" => a[3] = armed + Interval
    /\ mpc # "arm" => mtimecmp = armed + Interval

\* Supervisor software handles a trap with interrupts disabled and returns to
\* what it interrupted, which is not the trap handler.
SoftMode == IF mode = "M" THEN snap.mode ELSE mode

Nesting ==
  /\ SoftMode = "U" => pc \in OuterPcs
  /\ pc \notin OuterPcs => SIE \notin mstatus /\ sepc \in OuterPcs

HandlerInv ==
  /\ Typed /\ Registers /\ Paths /\ Enabled /\ Progress /\ Timing /\ Nesting
  /\ TickNotLost

-----------------------------------------------------------------------------
(* Words and addresses.                                                    *)

LEMMA Addresses ==
  /\ UserPc \in Words /\ KernPc \in Words /\ stvec \in Words /\ RsipPc \in Words
  /\ WsipPc \in Words /\ ClockPc \in Words /\ TicksPc \in Words /\ SretPc \in Words
  /\ PanicPc \in Words /\ Scratch \in Words
  /\ stvec \ {0, 1} = stvec
BY DEF Words, UserPc, KernPc, stvec, RsipPc, WsipPc, ClockPc, TicksPc, SretPc,
       PanicPc, Scratch

LEMMA AddressesDiffer ==
  /\ ClockPc \notin OuterPcs /\ stvec \notin OuterPcs
  /\ RsipPc \notin OuterPcs /\ WsipPc \notin OuterPcs /\ TicksPc \notin OuterPcs
  /\ SretPc \notin OuterPcs /\ PanicPc \notin OuterPcs
  /\ ClockPc \notin {stvec, RsipPc, WsipPc, TicksPc, SretPc, PanicPc}
BY DEF OuterPcs, UserPc, KernPc, stvec, RsipPc, WsipPc, ClockPc, TicksPc, SretPc,
       PanicPc

LEMMA Interrupts ==
  /\ TimerCause \in Words /\ SoftwareCause \in Words /\ EcallCause \in Words
  /\ 63 \in TimerCause /\ TimerCause \cap 0..7 = {0, 1, 2}
BY DEF Words, TimerCause, SoftwareCause, EcallCause

\* An exception is not an interrupt.
LEMMA Exceptions ==
  ASSUME NEW c \in Causes PROVE c \in Words /\ 63 \notin c /\ c # TimerCause
<1>1. c \subseteq 0..7
  BY TrapAssumption
<1>2. c \in Words /\ 63 \notin c
  BY <1>1 DEF Words
<1>. QED  BY <1>2, Interrupts

\* mstatus when a trap is taken, by mret, by a delegated trap and by sret.
LEMMA TrapStatus ==
  ASSUME NEW c, NEW v, TrapToMachine(c, v),
         mstatus \in Words, mode \in {"U", "S"}, MIE \in mstatus
  PROVE  /\ mstatus' \in Words /\ MPIE \in mstatus' /\ 12 \notin mstatus'
         /\ (11 \in mstatus') <=> (mode = "S")
         /\ (SIE \in mstatus') = (SIE \in mstatus)
         /\ (SPIE \in mstatus') = (SPIE \in mstatus)
         /\ (SPP \in mstatus') = (SPP \in mstatus)
<1>. DEFINE p == MppOf(mode)
<1>1. p = IF mode = "U" THEN {} ELSE {11}
  BY DEF MppOf
<1>2. mstatus' = (mstatus \ {11, 12, 3, 7}) \cup p \cup {7}
  BY DEF TrapToMachine, MPP, MIE, MPIE, If
<1>. HIDE DEF p
<1>3. mstatus' \in Words
  <2>1. mstatus \ {11, 12, 3, 7} \in Words /\ {7} \in Words /\ p \in Words
    BY <1>1 DEF Words
  <2>. QED  BY <1>2, <2>1 DEF Words
<1>4. 7 \in mstatus' /\ 12 \notin mstatus' /\ ((11 \in mstatus') <=> (mode = "S"))
  BY <1>1, <1>2
<1>5. \A b \in {1, 5, 8} : b \in mstatus' <=> b \in mstatus
  BY <1>1, <1>2
<1>. QED  BY <1>3, <1>4, <1>5 DEF SIE, SPIE, SPP, MPIE

LEMMA MretStatus ==
  ASSUME NEW w \in Words, MPIE \in w, 12 \notin w,
         NEW n, n = (w \ (MPP \cup {MIE})) \cup {MPIE} \cup If(MPIE \in w, {MIE})
  PROVE  /\ n \in Words /\ MIE \in n
         /\ ModeOf(w) = IF 11 \in w THEN "S" ELSE "U"
         /\ (SIE \in n) = (SIE \in w) /\ (SPIE \in n) = (SPIE \in w)
         /\ (SPP \in n) = (SPP \in w)
<1>1. n = (w \ {11, 12, 3}) \cup {7, 3}
  BY DEF MPP, MIE, MPIE, If
<1>2. w \cap MPP = IF 11 \in w THEN {11} ELSE {}
  BY DEF MPP
<1>3. ModeOf(w) = IF 11 \in w THEN "S" ELSE "U"
  BY <1>2 DEF ModeOf
<1>4. n \in Words /\ 3 \in n
  <2>1. w \ {11, 12, 3} \in Words /\ {7, 3} \in Words
    BY DEF Words
  <2>. QED  BY <1>1, <2>1 DEF Words
<1>5. \A b \in {1, 5, 8} : b \in n <=> b \in w
  BY <1>1
<1>. QED  BY <1>3, <1>4, <1>5 DEF SIE, SPIE, SPP, MIE

LEMMA StatusKeepsMIE ==
  ASSUME NEW w \in Words, MIE \in w, NEW x \in BOOLEAN, NEW y \in BOOLEAN
  PROVE  /\ LET n == (w \ {SIE, SPIE, SPP}) \cup If(x, {SPP}) \cup If(y, {SPIE})
            IN  n \in Words /\ MIE \in n /\ SIE \notin n
         /\ LET n == (w \ {SIE, SPP}) \cup {SPIE} \cup If(x, {SIE})
            IN  n \in Words /\ MIE \in n
         /\ LET n == (w \ {SPP}) \cup {SIE, SPIE}
            IN  n \in Words /\ MIE \in n
         /\ LET n == IF SIE \in w THEN w \ {SIE} ELSE w \cup {SIE}
            IN  n \in Words /\ MIE \in n
BY DEF Words, If, SIE, SPIE, SPP, MIE

\* What reflect's shifts and masks make of mstatus.
LEMMA ReflectedBits ==
  ASSUME NEW w \in Words, 12 \notin w
  PROVE  LET n == ReflectedStatus(w)
         IN  /\ n \in Words /\ 11 \in n /\ 12 \notin n
             /\ SIE \notin n /\ (SPIE \in n) = (SIE \in w)
             /\ (SPP \in n) = (11 \in w) /\ (MPIE \in n) = (MPIE \in w)
<1>1. \A s \in SUBSET {0, 1} : Sll(s, 4) = {b + 4 : b \in s}
  BY DEF Sll
<1>2. Srl(w, 11) \cap {0} = IF 11 \in w THEN {0} ELSE {}
  BY DEF Srl, Words
<1>3. Sll(Srl(w, 11) \cap {0}, 8) = IF 11 \in w THEN {8} ELSE {}
  BY <1>2 DEF Sll
<1>4. Sll(w \cap {1}, 4) = IF 1 \in w THEN {5} ELSE {}
  BY DEF Sll
<1>5. Sll({0, 1}, 11) = {11, 12} /\ Sll({0}, 11) = {11}
  BY DEF Sll
<1>. DEFINE spp  == IF 11 \in w THEN {8} ELSE {}
            spie == IF 1 \in w THEN {5} ELSE {}
<1>6. ReflectedStatus(w) = (((w \ {8, 5, 1}) \cup spp \cup spie) \ {11, 12}) \cup {11}
  BY <1>3, <1>4, <1>5 DEF ReflectedStatus
<1>. QED  BY <1>6 DEF Words, SIE, SPIE, SPP, MPIE

-----------------------------------------------------------------------------
(* The invariant holds at first, and each step keeps it.                   *)

LEMMA Membership == \A x, S : (x \in S) \in BOOLEAN
OBVIOUS

LEMMA TrapInit == Init => HandlerInv
<1>. SUFFICES ASSUME Init PROVE HandlerInv
  OBVIOUS
<1>. USE TrapAssumption, Addresses, AddressesDiffer DEF Init
<1>1. a \in [0..3 -> Words] /\ {MIE} \in Words /\ {} \in Words
  BY DEF Words, MIE
<1>2. snap \in Snaps
  BY <1>1, Membership DEF Snaps, Seen, SoftPcs
<1>3. Typed
  <2>1. a = [i \in 0..3 |-> a[i]] /\ scratch \in [1..3 -> Words]
    BY <1>1
  <2>2. mode \in {"U", "S", "M"} /\ (mode = "M" <=> mpc # "out") /\ pc \in SoftPcs
    BY DEF SoftPcs
  <2>3. mstatus \in Words /\ mcause \in Words /\ mepc \in Words /\ mtval \in Words
        /\ mscratch \in Words /\ scause \in Words /\ sepc \in Words /\ stval \in Words
    BY <1>1
  <2>4. mtime \in 0..MaxTime /\ mtimecmp \in Nat /\ armed \in 0..MaxTime
    BY TrapAssumption
  <2>. QED  BY <1>2, <2>1, <2>2, <2>3, <2>4 DEF Typed
<1>4. Registers /\ Paths /\ Enabled /\ Progress /\ Timing
  BY <1>1 DEF Registers, Paths, Ticking, Reflecting, Enabled, Progress, Timing
<1>5. Nesting /\ TickNotLost
  BY DEF Nesting, SoftMode, OuterPcs, TickNotLost
<1>. QED  BY <1>3, <1>4, <1>5 DEF HandlerInv

USE DEF csrs, scsr, time

LEMMA SaveStep == ASSUME HandlerInv, Save PROVE HandlerInv'
<1>. USE DEF HandlerInv, Save
<1>1. Typed'
  <2>1. a \in [0..3 -> Words]
    BY DEF Typed, Registers, Snaps
  <2>2. a' = [i \in 0..3 |-> a'[i]]
    BY <2>1
  <2>3. scratch' \in [1..3 -> Words] /\ mscratch' \in Words
    BY <2>1
  <2>. QED  BY <2>2, <2>3 DEF Typed
<1>2. Registers'
  BY DEF Typed, Registers, Snaps
<1>3. Paths' /\ Enabled' /\ Progress' /\ Timing'
  BY DEF Typed, Paths, Ticking, Reflecting, Enabled, Progress, Untouched, CauseKept, Timing
<1>4. Nesting' /\ TickNotLost'
  BY DEF Nesting, SoftMode, TickNotLost, SoftwarePc
<1>. QED  BY <1>1, <1>2, <1>3, <1>4

LEMMA DispatchStep == ASSUME HandlerInv, Dispatch PROVE HandlerInv'
<1>. USE DEF HandlerInv, Dispatch
<1>1. /\ a' = [i \in 0..3 |-> a'[i]] /\ a'[0] = a[0] /\ a'[1] = mcause
      /\ 63 \in mcause => a'[2] = mcause \cap 0..7 /\ a'[3] = {0, 1, 2}
  BY DEF Typed
<1>0. (mpc' = "time" /\ mcause = TimerCause) \/ (mpc' = "reflect" /\ mcause # TimerCause)
  <2>1. CASE mcause = TimerCause
    BY <2>1, <1>1, Interrupts DEF Typed
  <2>2. CASE mcause \in Causes
    BY <2>2, Exceptions
  <2>. QED  BY <2>1, <2>2 DEF Paths
<1>2. Typed'
  BY <1>0, <1>1 DEF Typed
<1>3. Registers'
  BY <1>0, <1>1 DEF Registers
<1>4. Paths' /\ Enabled' /\ Progress' /\ Timing'
  BY <1>0, <1>1 DEF Typed, Paths, Ticking, Reflecting, Enabled, Progress, Untouched, CauseKept,
    Timing
<1>5. Nesting' /\ TickNotLost'
  BY DEF Nesting, SoftMode, TickNotLost, SoftwarePc
<1>. QED  BY <1>2, <1>3, <1>4, <1>5

LEMMA ReadTimeStep == ASSUME HandlerInv, ReadTime PROVE HandlerInv'
<1>. USE TrapAssumption DEF HandlerInv, ReadTime
<1>1. a' = [i \in 0..3 |-> a'[i]] /\ a'[0] = a[0] /\ a'[3] = mtime + Interval
  <2>1. DOMAIN a = 0..3
    BY DEF Typed
  <2>2. a'[0] = a[0] /\ a'[3] = mtime + Interval
    BY <2>1
  <2>3. a' = [i \in 0..3 |-> a'[i]]
    BY DEF Typed
  <2>. QED  BY <2>2, <2>3
<1>2. Typed'
  BY <1>1 DEF Typed
<1>3. Registers'
  BY <1>1 DEF Registers
<1>4. Paths' /\ Enabled' /\ Progress'
  BY DEF Typed, Paths, Ticking, Reflecting, Enabled, Progress, Untouched, CauseKept
<1>5. Timing'
  BY <1>1 DEF Timing, Typed
<1>6. Nesting' /\ TickNotLost'
  BY DEF Nesting, SoftMode, TickNotLost, SoftwarePc
<1>. QED  BY <1>2, <1>3, <1>4, <1>5, <1>6

LEMMA StoreCompareStep == ASSUME HandlerInv, StoreCompare PROVE HandlerInv'
<1>. USE TrapAssumption DEF HandlerInv, StoreCompare
<1>1. mcause = TimerCause /\ a[3] = armed + Interval
  BY DEF Paths, Ticking, Timing
<1>2. Typed'
  BY <1>1 DEF Typed
<1>3. Registers' /\ Paths' /\ Enabled' /\ Progress'
  BY DEF Registers, Paths, Ticking, Reflecting, Enabled, Progress, Untouched, CauseKept
<1>4. Timing'
  BY <1>1 DEF Timing
<1>5. Nesting' /\ TickNotLost'
  BY DEF Nesting, SoftMode, TickNotLost, SoftwarePc
<1>. QED  BY <1>2, <1>3, <1>4, <1>5

LEMMA RaiseSoftwareStep == ASSUME HandlerInv, RaiseSoftware PROVE HandlerInv'
<1>. USE DEF HandlerInv, RaiseSoftware
<1>1. mcause = TimerCause
  BY DEF Paths, Ticking
<1>2. a' = [i \in 0..3 |-> a'[i]] /\ a'[0] = a[0]
  <2>1. DOMAIN a = 0..3
    BY DEF Typed
  <2>2. a'[0] = a[0]
    BY <2>1
  <2>3. a' = [i \in 0..3 |-> a'[i]]
    BY DEF Typed
  <2>. QED  BY <2>2, <2>3
<1>3. Typed'
  BY <1>2 DEF Typed
<1>4. Registers' /\ Paths' /\ Enabled' /\ Progress' /\ Timing'
  BY <1>1, <1>2 DEF Registers, Paths, Ticking, Reflecting, Enabled, Progress, Untouched,
    CauseKept, Timing
<1>5. Nesting' /\ TickNotLost'
  BY DEF Nesting, SoftMode, TickNotLost, SoftwarePc
<1>. QED  BY <1>3, <1>4, <1>5

LEMMA RestoreStep == ASSUME HandlerInv, Restore PROVE HandlerInv'
<1>. USE DEF HandlerInv, Restore
<1>1. a' = snap.a /\ mscratch' = Scratch
  <2>1. snap.a \in [0..3 -> Words]
    BY DEF Typed, Snaps
  <2>2. \A i \in 0..3 : a'[i] = snap.a[i]
    BY DEF Registers
  <2>. QED  BY <2>1, <2>2 DEF Registers
<1>2. Typed'
  BY <1>1, Addresses DEF Typed, Snaps
<1>3. Registers' /\ Paths' /\ Enabled' /\ Timing'
  BY <1>1 DEF Registers, Paths, Ticking, Reflecting, Enabled, Timing
<1>4. Progress'
  BY DEF Progress, Untouched, CauseKept, StatusReflected, CauseReflected
<1>5. Nesting' /\ TickNotLost'
  BY DEF Nesting, SoftMode, TickNotLost, SoftwarePc
<1>. QED  BY <1>2, <1>3, <1>4, <1>5

LEMMA ReflectCauseStep == ASSUME HandlerInv, ReflectCause PROVE HandlerInv'
<1>. USE DEF HandlerInv, ReflectCause
<1>1. mcause # TimerCause /\ a[1] = mcause
  BY DEF Paths, Reflecting
<1>2. a' = [i \in 0..3 |-> a'[i]] /\ a'[0] = a[0]
  <2>1. DOMAIN a = 0..3
    BY DEF Typed
  <2>2. a'[0] = a[0]
    BY <2>1
  <2>3. a' = [i \in 0..3 |-> a'[i]]
    BY DEF Typed
  <2>. QED  BY <2>2, <2>3
<1>3. Typed'
  BY <1>1, <1>2 DEF Typed
<1>4. Registers' /\ Paths' /\ Enabled' /\ Timing'
  BY <1>1, <1>2 DEF Registers, Paths, Ticking, Reflecting, Enabled, Timing
<1>5. Progress'
  BY <1>1 DEF Progress, Untouched, CauseKept, CauseReflected
<1>6. Nesting' /\ TickNotLost'
  BY <1>1 DEF Nesting, SoftMode, TickNotLost, SoftwarePc, Paths, Progress, Untouched, Typed
<1>. QED  BY <1>3, <1>4, <1>5, <1>6

LEMMA ReflectStatusStep == ASSUME HandlerInv, ReflectStatus PROVE HandlerInv'
<1>. USE DEF HandlerInv, ReflectStatus
<1>1. /\ mcause # TimerCause /\ mstatus \in Words /\ 12 \notin mstatus
      /\ MPIE \in mstatus /\ mpc # "out"
  BY DEF Paths, Reflecting, Typed, Enabled
<1>2. /\ mstatus' \in Words /\ 11 \in mstatus' /\ 12 \notin mstatus'
      /\ SIE \notin mstatus' /\ (SPIE \in mstatus') = (SIE \in mstatus)
      /\ (SPP \in mstatus') = (11 \in mstatus) /\ MPIE \in mstatus'
  BY <1>1, ReflectedBits
<1>3. a' = [i \in 0..3 |-> a'[i]] /\ a'[0] = a[0]
  <2>1. DOMAIN a = 0..3
    BY DEF Typed
  <2>2. a'[0] = a[0]
    BY <2>1
  <2>3. a' = [i \in 0..3 |-> a'[i]]
    BY DEF Typed
  <2>. QED  BY <2>2, <2>3
<1>4. Typed'
  BY <1>2, <1>3 DEF Typed
<1>5. Registers' /\ Paths' /\ Enabled' /\ Timing'
  BY <1>1, <1>2, <1>3 DEF Registers, Paths, Ticking, Reflecting, Enabled, Timing
<1>6. Progress'
  <2>1. Untouched /\ CauseReflected
    BY <1>1 DEF Progress
  <2>2. StatusReflected' /\ CauseReflected'
    BY <1>2, <2>1 DEF Untouched, StatusReflected, CauseReflected
  <2>. QED  BY <1>1, <2>2 DEF Progress
<1>7. Nesting' /\ TickNotLost'
  <2>1. pc \in OuterPcs
    BY <1>1 DEF Paths, Progress
  <2>. QED  BY <2>1 DEF Nesting, TickNotLost, SoftwarePc, Typed
<1>. QED  BY <1>4, <1>5, <1>6, <1>7

LEMMA ReflectVectorStep == ASSUME HandlerInv, ReflectVector PROVE HandlerInv'
<1>. USE DEF HandlerInv, ReflectVector
<1>1. mcause # TimerCause
  BY DEF Paths, Reflecting
<1>2. a' = [i \in 0..3 |-> a'[i]] /\ a'[0] = a[0]
  <2>1. DOMAIN a = 0..3
    BY DEF Typed
  <2>2. a'[0] = a[0]
    BY <2>1
  <2>3. a' = [i \in 0..3 |-> a'[i]]
    BY DEF Typed
  <2>. QED  BY <2>2, <2>3
<1>3. Typed'
  BY <1>2, Addresses DEF Typed
<1>4. Registers' /\ Paths' /\ Enabled' /\ Timing'
  BY <1>1, <1>2 DEF Registers, Paths, Ticking, Reflecting, Enabled, Timing
<1>5. Progress'
  BY <1>1, Addresses DEF Progress, StatusReflected, CauseReflected
<1>6. Nesting' /\ TickNotLost'
  BY DEF Nesting, SoftMode, TickNotLost, SoftwarePc
<1>. QED  BY <1>3, <1>4, <1>5, <1>6

LEMMA MretStep == ASSUME HandlerInv, Mret PROVE HandlerInv'
<1>. USE DEF HandlerInv, Mret
<1>1. /\ mpc = "mret" /\ mode = "M" /\ MPIE \in mstatus /\ 12 \notin mstatus
      /\ mstatus \in Words
  BY DEF Enabled, Typed
<1>2. /\ mstatus' \in Words /\ MIE \in mstatus'
      /\ mode' = (IF 11 \in mstatus THEN "S" ELSE "U")
      /\ (SIE \in mstatus') = (SIE \in mstatus) /\ (SPIE \in mstatus') = (SPIE \in mstatus)
      /\ (SPP \in mstatus') = (SPP \in mstatus)
  BY ZenonT(60), <1>1, MretStatus
<1>3. \/ mcause = TimerCause /\ Untouched /\ CauseKept /\ ssip
      \/ mcause # TimerCause /\ StatusReflected /\ CauseReflected /\ mepc = stvec
           /\ ssip = snap.ssip /\ pc \in OuterPcs /\ snap.pc = pc
  BY <1>1 DEF Progress, Paths
<1>4. snap.mode \in {"U", "S"} /\ snap.pc \in SoftPcs /\ stvec \in SoftPcs
  BY DEF Typed, Snaps, SoftPcs
<1>5. Typed'
  BY <1>2, <1>3, <1>4 DEF Typed, Untouched
<1>6. Registers' /\ Paths' /\ Enabled' /\ Timing' /\ Progress'
  BY <1>1, <1>2 DEF Registers, Paths, Ticking, Reflecting, Enabled, Timing, Progress,
    Typed, Snaps
<1>7. Nesting' /\ TickNotLost'
  <2>1. pc = snap.pc /\ SoftwarePc = snap.pc /\ SoftMode = snap.mode
    BY <1>1 DEF Progress, SoftwarePc, SoftMode
  <2>2. SoftMode' = mode' /\ SoftwarePc' = pc'
    BY <1>2 DEF SoftMode, SoftwarePc
  <2>3. CASE mcause = TimerCause
    BY <1>1, <1>2, <1>3, <1>4, <2>1, <2>2, <2>3 DEF Nesting, TickNotLost, Untouched
  <2>4. CASE mcause # TimerCause
    BY <1>1, <1>2, <1>3, <2>1, <2>2, <2>4, AddressesDiffer
       DEF Nesting, TickNotLost, StatusReflected, CauseReflected
  <2>. QED  BY <2>3, <2>4
<1>. QED  BY <1>5, <1>6, <1>7

LEMMA TrapStep ==
  ASSUME HandlerInv, NEW c, NEW v \in Words, TrapToMachine(c, v),
         c = TimerCause \/ (c \in Causes /\ pc \in OuterPcs)
  PROVE  HandlerInv'
<1>. USE DEF HandlerInv, TrapToMachine
<1>1. /\ mode \in {"U", "S"} /\ mpc = "out" /\ MIE \in mstatus /\ mstatus \in Words
      /\ c \in Words
  BY Interrupts, Exceptions DEF Typed, Enabled
<1>2. /\ mstatus' \in Words /\ MPIE \in mstatus' /\ 12 \notin mstatus'
      /\ (11 \in mstatus') <=> (mode = "S")
      /\ (SIE \in mstatus') = (SIE \in mstatus) /\ (SPIE \in mstatus') = (SPIE \in mstatus)
      /\ (SPP \in mstatus') = (SPP \in mstatus)
  BY <1>1, TrapStatus
<1>3. snap' \in Snaps
  BY <1>1, Membership DEF Seen, Snaps, Typed, Registers
<1>4. /\ snap'.mode = mode /\ snap'.pc = pc /\ snap'.a = a /\ snap'.sie = (SIE \in mstatus)
      /\ snap'.spie = (SPIE \in mstatus) /\ snap'.spp = (SPP \in mstatus)
      /\ snap'.scause = scause /\ snap'.sepc = sepc /\ snap'.stval = stval
      /\ snap'.ssip = ssip
  BY DEF Seen
<1>5. Typed'
  <2>1. pc \in Words
    BY Addresses DEF Typed, SoftPcs
  <2>. QED  BY <1>1, <1>2, <1>3, <2>1 DEF Typed
<1>6. Registers' /\ Paths' /\ Enabled' /\ Timing'
  BY <1>1, <1>2, <1>4 DEF Registers, Paths, Ticking, Reflecting, Enabled, Timing
<1>7. Progress'
  BY <1>1, <1>2, <1>4 DEF Progress, Untouched, CauseKept
<1>8. Nesting' /\ TickNotLost'
  BY <1>1, <1>2, <1>4 DEF Nesting, SoftMode, TickNotLost, SoftwarePc
<1>. QED  BY <1>5, <1>6, <1>7, <1>8

LEMMA TimeStep == ASSUME HandlerInv, Time PROVE HandlerInv'
<1>. USE TrapAssumption DEF HandlerInv, Time
<1>1. Typed'
  BY DEF Typed
<1>2. Timing'
  BY DEF Timing, Typed
<1>3. Registers' /\ Paths' /\ Enabled' /\ Progress'
  BY DEF Registers, Paths, Ticking, Reflecting, Enabled, Progress, Untouched, CauseKept,
    StatusReflected, CauseReflected
<1>4. Nesting' /\ TickNotLost'
  BY DEF Nesting, SoftMode, TickNotLost, SoftwarePc
<1>. QED  BY <1>1, <1>2, <1>3, <1>4

\* A step of the kernel or the user, outside the handler: it leaves the machine
\* state alone, keeps machine interrupts enabled, and is at a new place p with
\* status w.  What it owes the invariant is about that place.
LEMMA SoftwareStep ==
  ASSUME HandlerInv, NEW p \in SoftPcs, NEW m \in {"U", "S"}, NEW w \in Words, MIE \in w,
         mode \in {"U", "S"}, Software(p, m, w),
         ssip' \in BOOLEAN, owed' \in BOOLEAN,
         scause' \in Words, sepc' \in Words, stval' \in Words,
         m = "U" => p \in OuterPcs,
         p \notin OuterPcs => SIE \notin w /\ sepc' \in OuterPcs,
         owed' => ssip' \/ p = ClockPc
  PROVE  HandlerInv'
<1>. USE DEF HandlerInv, Software
<1>1. mpc = "out" /\ mpc' = "out"
  BY DEF Typed
<1>2. Typed'
  BY <1>1 DEF Typed
<1>3. Registers' /\ Paths' /\ Enabled' /\ Progress' /\ Timing'
  BY <1>1 DEF Registers, Paths, Ticking, Reflecting, Enabled, Progress, Timing
<1>4. Nesting' /\ TickNotLost'
  BY DEF Nesting, SoftMode, TickNotLost, SoftwarePc
<1>. QED  BY <1>2, <1>3, <1>4

\* A trap delegated by the hardware interrupts the kernel or the user, or the
\* kernel does not have interrupts enabled.
LEMMA DelegatedStep ==
  ASSUME HandlerInv, NEW c \in Words, TrapToSupervisor(c), mode \in {"U", "S"},
         pc \in OuterPcs
  PROVE  HandlerInv'
<1>. DEFINE w == (mstatus \ {SIE, SPIE, SPP}) \cup If(mode = "S", {SPP})
                     \cup If(SIE \in mstatus, {SPIE})
<1>1. /\ mstatus \in Words /\ MIE \in mstatus /\ pc \in Words /\ {} \in Words
      /\ stvec \in SoftPcs
  BY Addresses DEF HandlerInv, Typed, Enabled, SoftPcs, Words
<1>2. w \in Words /\ MIE \in w /\ SIE \notin w
  BY <1>1, Membership, StatusKeepsMIE
<1>3. Software(stvec, "S", w) /\ UNCHANGED <<ssip, owed>>
      /\ scause' = c /\ sepc' = pc /\ stval' = {}
  BY DEF TrapToSupervisor
<1>4. /\ ssip \in BOOLEAN /\ owed \in BOOLEAN
      /\ owed => ssip
  BY AddressesDiffer DEF HandlerInv, Typed, TickNotLost, SoftwarePc
<1>. HIDE DEF w
<1>. QED  BY <1>1, <1>2, <1>3, <1>4, SoftwareStep

LEMMA SoftwareInterruptStep ==
  ASSUME HandlerInv, SoftwareInterrupt \/ SystemCall PROVE HandlerInv'
<1>1. pc \in OuterPcs /\ mode \in {"U", "S"}
  BY DEF HandlerInv, Typed, Nesting, SoftMode, SoftwareInterrupt, SystemCall
<1>. QED  BY <1>1, Interrupts, DelegatedStep DEF SoftwareInterrupt, SystemCall

LEMMA KernelStep ==
  ASSUME HandlerInv, Supervisor \/ Toggle \/ ReturnToUser PROVE HandlerInv'
<1>1. /\ mode = "S" /\ mpc = "out" /\ mstatus \in Words /\ MIE \in mstatus
      /\ ssip \in BOOLEAN /\ owed \in BOOLEAN
      /\ scause \in Words /\ sepc \in Words /\ stval \in Words
      /\ owed => ssip \/ pc = ClockPc
      /\ pc \notin OuterPcs => SIE \notin mstatus /\ sepc \in OuterPcs
  BY DEF Supervisor, Toggle, ReturnToUser, TrapHandler, DevintrRead, DevintrAck, ClockBegin,
    ClockEnd, Sret, HandlerInv, Typed, Nesting, SoftMode, Enabled, TickNotLost, SoftwarePc
<1>2. /\ UserPc \in SoftPcs /\ KernPc \in SoftPcs /\ RsipPc \in SoftPcs
      /\ WsipPc \in SoftPcs /\ ClockPc \in SoftPcs /\ TicksPc \in SoftPcs
      /\ SretPc \in SoftPcs /\ PanicPc \in SoftPcs
      /\ \A p \in OuterPcs : p \in SoftPcs
      /\ UserPc \in OuterPcs /\ KernPc \in OuterPcs
  BY DEF SoftPcs, OuterPcs
<1>. USE AddressesDiffer
<1>3. CASE TrapHandler
  <2>. DEFINE p == CASE scause = EcallCause -> KernPc
                     [] scause = SoftwareCause -> RsipPc
                     [] OTHER -> IF SPP \in mstatus THEN PanicPc ELSE SretPc
  <2>1. Software(p, "S", mstatus) /\ UNCHANGED <<scause, sepc, stval, ssip, owed>>
        /\ pc = stvec
    BY <1>1, <1>3 DEF TrapHandler
  <2>2. p \in {KernPc, RsipPc, PanicPc, SretPc}
    OBVIOUS
  <2>. HIDE DEF p
  <2>. QED  BY <1>1, <1>2, <2>1, <2>2, SoftwareStep
<1>4. CASE DevintrRead
  BY <1>1, <1>2, <1>4, SoftwareStep DEF DevintrRead
<1>5. CASE DevintrAck
  BY <1>1, <1>2, <1>5, SoftwareStep DEF DevintrAck
<1>6. CASE ClockBegin
  BY <1>1, <1>2, <1>6, SoftwareStep DEF ClockBegin
<1>7. CASE ClockEnd
  BY <1>1, <1>2, <1>7, SoftwareStep DEF ClockEnd
<1>8. CASE Sret
  <2>. DEFINE m == IF SPP \in mstatus THEN "S" ELSE "U"
              w == (mstatus \ {SIE, SPP}) \cup {SPIE} \cup If(SPIE \in mstatus, {SIE})
  <2>1. w \in Words /\ MIE \in w
    BY <1>1 DEF Words, If, SIE, SPIE, SPP, MIE
  <2>2. Software(sepc, m, w) /\ UNCHANGED <<scause, sepc, stval, ssip, owed>>
        /\ pc = SretPc
    BY <1>8 DEF Sret
  <2>3. m \in {"U", "S"} /\ sepc \in OuterPcs /\ (owed' => ssip')
    BY <1>1, <2>2
  <2>. HIDE DEF w, m
  <2>. QED  BY <1>1, <1>2, <2>1, <2>2, <2>3, SoftwareStep
<1>9. CASE Toggle
  <2>. DEFINE w == IF SIE \in mstatus THEN mstatus \ {SIE} ELSE mstatus \cup {SIE}
  <2>1. w \in Words /\ MIE \in w
    BY <1>1, StatusKeepsMIE
  <2>2. Software(KernPc, "S", w) /\ UNCHANGED <<scause, sepc, stval, ssip, owed>>
        /\ pc = KernPc
    BY <1>1, <1>9 DEF Toggle
  <2>. HIDE DEF w
  <2>. QED  BY <1>1, <1>2, <2>1, <2>2, SoftwareStep
<1>10. CASE ReturnToUser
  <2>. DEFINE w == (mstatus \ {SPP}) \cup {SIE, SPIE}
  <2>1. w \in Words /\ MIE \in w
    BY <1>1, StatusKeepsMIE
  <2>2. Software(UserPc, "U", w) /\ UNCHANGED <<scause, sepc, stval, ssip, owed>>
        /\ pc = KernPc
    BY <1>10 DEF ReturnToUser
  <2>. HIDE DEF w
  <2>. QED  BY <1>1, <1>2, <2>1, <2>2, SoftwareStep
<1>. QED  BY <1>3, <1>4, <1>5, <1>6, <1>7, <1>8, <1>9, <1>10 DEF Supervisor

LEMMA HandlerStep == ASSUME HandlerInv, Handler PROVE HandlerInv'
BY SaveStep, DispatchStep, ReadTimeStep, StoreCompareStep, RaiseSoftwareStep, RestoreStep,
   ReflectCauseStep, ReflectStatusStep, ReflectVectorStep, MretStep DEF Handler

LEMMA Invariance == HandlerInv /\ [Next]_vars => HandlerInv'
<1>. SUFFICES ASSUME HandlerInv, [Next]_vars PROVE HandlerInv'
  OBVIOUS
<1>1. {} \in Words /\ {9} \in Words
  BY DEF Words
<1>2. CASE TimerInterrupt
  BY <1>1, <1>2, TrapStep DEF TimerInterrupt
<1>3. ASSUME NEW c \in Causes, NEW v \in {{}, {9}}, Exception(c, v) PROVE HandlerInv'
  BY <1>1, <1>3, TrapStep DEF Exception, OuterPcs
<1>4. CASE UNCHANGED vars
  BY <1>4 DEF vars, HandlerInv, Typed, Registers, Paths, Ticking, Reflecting, Enabled,
    Progress, Untouched, CauseKept, StatusReflected, CauseReflected, Timing, Nesting, SoftMode,
    TickNotLost, SoftwarePc
<1>. QED
  BY <1>2, <1>3, <1>4, HandlerStep, TimeStep, KernelStep, SoftwareInterruptStep
     DEF Next, Panicked

LEMMA Invariant == Spec => []HandlerInv
BY TrapInit, Invariance, PTL DEF Spec

-----------------------------------------------------------------------------
(* The properties.                                                         *)

\* Every trap, whenever it comes, finds the address of its save area in mscratch
\* and machine interrupts enabled; mret always leaves machine mode.
THEOREM TrapIsReady == Spec => []TrapInv
<1>1. HandlerInv => TrapInv
  <2>. SUFFICES ASSUME HandlerInv PROVE TrapInv
    OBVIOUS
  <2>1. TypeOK
    <3>1. DOMAIN a = 0..3 /\ DOMAIN scratch = 1..3
      BY DEF HandlerInv, Typed
    <3>2. \A w \in {mstatus, mcause, mepc, mtval, mscratch, scause, sepc, stval} :
            w \subseteq 0..63
      BY DEF HandlerInv, Typed, Words
    <3>. QED  BY <3>1, <3>2 DEF HandlerInv, Typed, SoftPcs, TypeOK
  <2>2. ScratchReady
    BY DEF HandlerInv, Typed, Registers, Enabled, ScratchReady
  <2>. QED  BY <2>1, <2>2 DEF TrapInv
<1>. QED  BY <1>1, Invariant, PTL

\* When timervec returns from a tick the compare value lies in the future, however
\* late the tick was taken: it is not taken again at once, for ever.
THEOREM TickIsInTheFuture == Spec => []NoRefire
<1>1. HandlerInv => NoRefire
  BY TrapAssumption DEF HandlerInv, Typed, Timing, NoRefire
<1>. QED  BY <1>1, Invariant, PTL

\* A tick that timervec has raised and clockintr has not begun to serve is still
\* pending or clockintr is next, although devintr clears SSIP in two steps.
THEOREM TickIsNotLost == Spec => []TickNotLost
<1>1. HandlerInv => TickNotLost
  BY DEF HandlerInv
<1>. QED  BY <1>1, Invariant, PTL

\* Only mret leaves machine mode.
LEMMA MretLeaves ==
  ASSUME HandlerInv, [Next]_vars, mode = "M", mode' # "M"
  PROVE  Mret
BY DEF Next, vars, Handler, Save, Dispatch, ReadTime, StoreCompare, RaiseSoftware, Restore,
   ReflectCause, ReflectStatus, ReflectVector, TimerInterrupt, Exception, TrapToMachine, Time,
   Supervisor, TrapHandler, DevintrRead, DevintrAck, ClockBegin, ClockEnd, Sret,
   SoftwareInterrupt, SystemCall, TrapToSupervisor, Toggle, ReturnToUser, Panicked, Software,
   HandlerInv, Typed

\* timervec and reflect change nothing that supervisor and user software can see,
\* but SSIP for a tick; every other trap arrives as if it had been delegated, with
\* scause, sepc, stval, SPP, SPIE and SIE as the hardware would have left them.
THEOREM HandlerIsTransparent == Spec => HandlerTransparent
<1>1. ASSUME HandlerInv, [Next]_vars, mode = "M", mode' # "M"
      PROVE  Seen' = IF mcause = TimerCause THEN [snap EXCEPT !.ssip = TRUE]
                                            ELSE Delegated(snap, mcause, mtval)
  <2>1. Mret
    BY <1>1, MretLeaves
  <2>2. /\ mpc = "mret" /\ MPIE \in mstatus /\ 12 \notin mstatus /\ mstatus \in Words
        /\ a = snap.a /\ snap \in Snaps
    BY <1>1, <2>1 DEF Mret, HandlerInv, Enabled, Typed, Registers
  <2>3. /\ mode' = (IF 11 \in mstatus THEN "S" ELSE "U")
        /\ (SIE \in mstatus') = (SIE \in mstatus)
        /\ (SPIE \in mstatus') = (SPIE \in mstatus)
        /\ (SPP \in mstatus') = (SPP \in mstatus)
    BY <2>1, <2>2, MretStatus DEF Mret
  <2>4. pc' = mepc /\ UNCHANGED <<a, scause, sepc, stval, ssip>>
    BY <2>1 DEF Mret
  <2>5. CASE mcause = TimerCause
    <3>1. Untouched /\ CauseKept /\ ssip
      BY <1>1, <2>2, <2>5 DEF HandlerInv, Progress
    <3>. QED
      BY <2>2, <2>3, <2>4, <2>5, <3>1 DEF Seen, Untouched, CauseKept, Snaps
  <2>6. CASE mcause # TimerCause
    <3>1. StatusReflected /\ CauseReflected /\ mepc = stvec /\ ssip = snap.ssip
      BY <1>1, <2>2, <2>6 DEF HandlerInv, Progress
    <3>2. /\ mode' = "S" /\ pc' = stvec /\ a' = snap.a /\ ssip' = snap.ssip
          /\ scause' = mcause /\ sepc' = snap.pc /\ stval' = mtval
      BY <2>2, <2>3, <2>4, <3>1 DEF StatusReflected, CauseReflected
    <3>3. /\ (SIE \in mstatus') = FALSE /\ (SPIE \in mstatus') = snap.sie
          /\ (SPP \in mstatus') = (snap.mode = "S")
      BY <2>3, <3>1 DEF StatusReflected
    <3>4. Seen' = [mode |-> "S", pc |-> stvec, a |-> snap.a, sie |-> FALSE,
                   spie |-> snap.sie, spp |-> (snap.mode = "S"), scause |-> mcause,
                   sepc |-> snap.pc, stval |-> mtval, ssip |-> snap.ssip]
      BY <3>2, <3>3, Zenon DEF Seen
    <3>5. Delegated(snap, mcause, mtval) =
                  [mode |-> "S", pc |-> stvec, a |-> snap.a, sie |-> FALSE,
                   spie |-> snap.sie, spp |-> (snap.mode = "S"), scause |-> mcause,
                   sepc |-> snap.pc, stval |-> mtval, ssip |-> snap.ssip]
      <4>. DEFINE d == Delegated(snap, mcause, mtval)
      <4>1. d \in [mode : {"S"}, pc : {stvec}, a : {snap.a}, sie : {FALSE},
                   spie : {snap.sie}, spp : {snap.mode = "S"}, scause : {mcause},
                   sepc : {snap.pc}, stval : {mtval}, ssip : {snap.ssip}]
        BY <2>2 DEF Snaps, Delegated
      <4>. HIDE DEF d
      <4>2. d = [mode |-> "S", pc |-> stvec, a |-> snap.a, sie |-> FALSE,
                   spie |-> snap.sie, spp |-> (snap.mode = "S"), scause |-> mcause,
                   sepc |-> snap.pc, stval |-> mtval, ssip |-> snap.ssip]
        BY <4>1
      <4>. QED  BY <4>2 DEF d
    <3>. QED  BY <2>6, <3>4, <3>5
  <2>. QED  BY <2>5, <2>6
<1>. QED  BY <1>1, Invariant, PTL DEF Spec, HandlerTransparent
=============================================================================
