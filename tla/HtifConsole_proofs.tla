-------------------------- MODULE HtifConsole_proofs --------------------------
(***************************************************************************)
(* Proofs about HtifConsole, for every set of processes and characters and *)
(* every bound: typing, the exclusion argument that makes the lock-free,   *)
(* re-entrant htif_send correct on one hart, the path of a console read    *)
(* and of a key, and the console service the driver implements.            *)
(***************************************************************************)
EXTENDS HtifConsole, TLAPS

USE ConsoleAssumption DEF mail, target, local, host, Goto, Contexts, Threads

\* Every step of the system is one of the actions.
LEMMA StepCases ==
  ASSUME Next
  PROVE  \/ \E x \in Contexts :
              \/ SendWait(x) \/ SendStore(x) \/ SendDone(x)
              \/ GetcLoad(x) \/ GetcClear(x) \/ GetcClearPending(x)
              \/ GetcCheck(x) \/ GetcSetPending(x)
              \/ \E e \in BOOLEAN : Consoleintr(x, e)
         \/ Tick \/ TickReturn \/ IdlePoll \/ IdleReturn
         \/ \E p \in Procs :
              \/ Dispatch(p) \/ Sleep(p)
              \/ \E b \in Buffers : \/ Uartwrite(p, b) \/ Printk(p, b)
                                    \/ \E on \in BOOLEAN : Panic(p, b, on)
              \/ NextChar(p) \/ EndOutput(p) \/ Spin(p)
         \/ HostPoll \/ HostAck \/ HostHandle \/ HostTick \/ HostReply
         \/ \E c \in Chars : UserTypes(c)
<1>1. CASE TickStep
  BY <1>1 DEF TickStep, Send, Uartintr
<1>2. CASE SchedStep
  BY <1>2 DEF SchedStep, Send, Uartintr
<1>3. CASE HostStep
  BY <1>3 DEF HostStep
<1>4. CASE \E p \in Procs : ProcStep(p)
  BY <1>4 DEF ProcStep, Output, Send
<1>. QED  BY <1>1, <1>2, <1>3, <1>4 DEF Next

-----------------------------------------------------------------------------
\* The character passed to consoleintr comes from a reply marked 0x100.
ReplyHeld == \A x \in Contexts : pc[x] = "consoleintr" => fh[x].mark = 1

TypeInv == TypeOK /\ ReplyHeld

LEMMA BuffersAreSequences == Buffers \subseteq Seq(Chars)
BY ConsoleAssumption DEF ConsoleAssumption

LEMMA TypeInit == Init => TypeInv
<1>. SUFFICES ASSUME Init PROVE TypeInv
  OBVIOUS
<1>. USE DEF Init
<1>1. MailTypeOK
  BY DEF MailTypeOK
<1>2. HartTypeOK
  <2>1. pc \in [Contexts -> Steps]
    BY DEF Steps
  <2>2. /\ act \in [Threads -> {"run"}]
        /\ cmd \in [Contexts -> {NoCmd}] /\ fh \in [Contexts -> {NoReply}]
    OBVIOUS
  <2>3. buf \in [Threads -> Seq(Chars)]
    OBVIOUS
  <2>. QED  BY <2>1, <2>2, <2>3 DEF HartTypeOK
<1>3. HostTypeOK
  BY DEF HostTypeOK
<1>4. ReplyHeld
  BY DEF ReplyHeld
<1>. QED  BY <1>1, <1>2, <1>3, <1>4 DEF TypeInv, TypeOK

LEMMA TypeStep == TypeInv /\ [Next]_vars => TypeInv'
<1>. SUFFICES ASSUME TypeInv, [Next]_vars PROVE TypeInv'
  OBVIOUS
<1>1. ASSUME Next PROVE TypeInv'
<2>1. ASSUME NEW x \in Contexts, SendWait(x)
      PROVE  TypeInv'
  BY <2>1
  DEF SendWait, Steps, SendSteps, GetcSteps,
      TypeInv, TypeOK, MailTypeOK, HartTypeOK, HostTypeOK, ReplyHeld
<2>2. ASSUME NEW x \in Contexts, SendStore(x)
      PROVE  TypeInv'
  BY <2>2
  DEF SendStore, Steps, SendSteps, GetcSteps,
      TypeInv, TypeOK, MailTypeOK, HartTypeOK, HostTypeOK, ReplyHeld
<2>3. ASSUME NEW x \in Contexts, SendDone(x)
      PROVE  TypeInv'
  BY <2>3
  DEF SendDone, Steps, SendSteps, GetcSteps, ReturnStep, NoCmd,
      TypeInv, TypeOK, MailTypeOK, HartTypeOK, HostTypeOK, ReplyHeld
<2>4. ASSUME NEW x \in Contexts, GetcLoad(x)
      PROVE  TypeInv'
  BY <2>4
  DEF GetcLoad, Steps, SendSteps, GetcSteps,
      TypeInv, TypeOK, MailTypeOK, HartTypeOK, HostTypeOK, ReplyHeld
<2>5. ASSUME NEW x \in Contexts, GetcClear(x)
      PROVE  TypeInv'
  BY <2>5
  DEF GetcClear, Steps, SendSteps, GetcSteps,
      TypeInv, TypeOK, MailTypeOK, HartTypeOK, HostTypeOK, ReplyHeld
<2>6. ASSUME NEW x \in Contexts, GetcClearPending(x)
      PROVE  TypeInv'
  BY ZenonT(60), <2>6
  DEF GetcClearPending, Steps, SendSteps, GetcSteps,
      TypeInv, TypeOK, MailTypeOK, HartTypeOK, HostTypeOK, ReplyHeld
<2>7. ASSUME NEW x \in Contexts, GetcCheck(x)
      PROVE  TypeInv'
  <3>. USE <2>7 DEF GetcCheck, Steps, SendSteps, GetcSteps
  <3>1. CASE read_pending
    BY ZenonT(60), <3>1 DEF TypeInv, TypeOK, MailTypeOK, HartTypeOK, HostTypeOK, ReplyHeld
  <3>2. CASE ~read_pending
    <4>1. /\ StartSend(x, ReadCmd) /\ ReadCmd \in Commands
          /\ UNCHANGED <<mail, target, fh, owner, host, got, calls>>
      BY <3>2 DEF Commands
    <4>2. HartTypeOK' /\ ReplyHeld'
      BY <4>1 DEF StartSend, TypeInv, TypeOK, MailTypeOK, HartTypeOK, HostTypeOK, ReplyHeld
    <4>. QED  BY <4>1, <4>2 DEF TypeInv, TypeOK, MailTypeOK, HostTypeOK
  <3>. QED  BY <3>1, <3>2
<2>8. ASSUME NEW x \in Contexts, GetcSetPending(x)
      PROVE  TypeInv'
  BY <2>8
  DEF GetcSetPending, Steps, SendSteps, GetcSteps,
      TypeInv, TypeOK, MailTypeOK, HartTypeOK, HostTypeOK, ReplyHeld
<2>9. ASSUME NEW x \in Contexts, NEW e \in BOOLEAN, Consoleintr(x, e)
      PROVE  TypeInv'
  <3>1. fh[x].ch \in Chars
    BY <2>9 DEF Consoleintr, Replies, NoReply, TypeInv, TypeOK, HartTypeOK, ReplyHeld
  <3>2. got' \in Seq(Chars)
    BY <2>9, <3>1 DEF Consoleintr, TypeInv, TypeOK, HartTypeOK
  <3>3. pc' \in [Contexts -> Steps] /\ cmd' \in [Contexts -> Commands \cup {NoCmd}]
    <4>1. Write(fh[x].ch) \in Commands
      BY <3>1 DEF Write, Commands
    <4>2. /\ pc \in [Contexts -> Steps] /\ cmd \in [Contexts -> Commands \cup {NoCmd}]
          /\ {"s_wait", "g_load"} \subseteq Steps
      BY DEF TypeInv, TypeOK, HartTypeOK, Steps, SendSteps, GetcSteps
    <4>. QED  BY <2>9, <4>1, <4>2 DEF Consoleintr, StartSend
  <3>4. fh' \in [Contexts -> Replies \cup {NoReply}]
    BY <2>9 DEF Consoleintr, TypeInv, TypeOK, HartTypeOK
  <3>5. MailTypeOK' /\ HostTypeOK'
    BY <2>9 DEF Consoleintr, TypeInv, TypeOK, MailTypeOK, HostTypeOK
  <3>6. HartTypeOK'
    BY <2>9, <3>2, <3>3, <3>4 DEF Consoleintr, TypeInv, TypeOK, HartTypeOK
  <3>7. ReplyHeld'
    BY <2>9 DEF Consoleintr, StartSend, TypeInv, TypeOK, HartTypeOK, ReplyHeld
  <3>. QED  BY <3>5, <3>6, <3>7 DEF TypeInv, TypeOK
<2>10. ASSUME Tick
      PROVE  TypeInv'
  BY ZenonT(60), <2>10
  DEF Tick, Steps, SendSteps, GetcSteps,
      TypeInv, TypeOK, MailTypeOK, HartTypeOK, HostTypeOK, ReplyHeld
<2>11. ASSUME TickReturn
      PROVE  TypeInv'
  BY <2>11
  DEF TickReturn, Steps, SendSteps, GetcSteps,
      TypeInv, TypeOK, MailTypeOK, HartTypeOK, HostTypeOK, ReplyHeld
<2>12. ASSUME IdlePoll
      PROVE  TypeInv'
  BY ZenonT(60), <2>12
  DEF IdlePoll, Steps, SendSteps, GetcSteps,
      TypeInv, TypeOK, MailTypeOK, HartTypeOK, HostTypeOK, ReplyHeld
<2>13. ASSUME IdleReturn
      PROVE  TypeInv'
  BY <2>13
  DEF IdleReturn, Steps, SendSteps, GetcSteps,
      TypeInv, TypeOK, MailTypeOK, HartTypeOK, HostTypeOK, ReplyHeld
<2>14. ASSUME NEW p \in Procs, Dispatch(p)
      PROVE  TypeInv'
  BY <2>14
  DEF Dispatch,
      TypeInv, TypeOK, MailTypeOK, HartTypeOK, HostTypeOK, ReplyHeld
<2>15. ASSUME NEW p \in Procs, Sleep(p)
      PROVE  TypeInv'
  BY <2>15
  DEF Sleep,
      TypeInv, TypeOK, MailTypeOK, HartTypeOK, HostTypeOK, ReplyHeld
<2>16. ASSUME NEW p \in Procs, NEW b \in Buffers, Uartwrite(p, b)
      PROVE  TypeInv'
  <3>1. /\ Begin(p, "write", b) /\ intr' = FALSE /\ htif_tx_lock' = TRUE
        /\ UNCHANGED <<mail, panicking, cur, cmd, fh, owner, host, got>>
    BY <2>16 DEF Uartwrite
  <3>2. intr' \in BOOLEAN /\ htif_tx_lock' \in BOOLEAN
    BY <3>1
  <3>3. /\ pc' \in [Contexts -> Steps] /\ calls' \in Nat
        /\ act' \in [Threads -> {"run", "idle", "write", "printk", "panic", "halted"}]
        /\ buf' \in [Threads -> Seq(Chars)]
    BY <3>1, BuffersAreSequences
    DEF Begin, Steps, TypeInv, TypeOK, HartTypeOK
  <3>4. HartTypeOK'
    BY <3>1, <3>2, <3>3 DEF TypeInv, TypeOK, HartTypeOK
  <3>5. ReplyHeld'
    BY <3>1 DEF Begin, TypeInv, TypeOK, HartTypeOK, ReplyHeld
  <3>. QED  BY <3>1, <3>4, <3>5 DEF TypeInv, TypeOK, MailTypeOK, HostTypeOK
<2>17. ASSUME NEW p \in Procs, NEW b \in Buffers, Printk(p, b)
      PROVE  TypeInv'
  BY <2>17, BuffersAreSequences
  DEF Printk, Begin, Steps, SendSteps, GetcSteps, TypeInv, TypeOK, MailTypeOK, HartTypeOK, HostTypeOK, ReplyHeld
<2>18. ASSUME NEW p \in Procs, NEW b \in Buffers, NEW on \in BOOLEAN,
              Panic(p, b, on)
      PROVE  TypeInv'
  BY <2>18, BuffersAreSequences
  DEF Panic, Begin, Steps, SendSteps, GetcSteps, TypeInv, TypeOK, MailTypeOK, HartTypeOK, HostTypeOK, ReplyHeld
<2>19. ASSUME NEW p \in Procs, NextChar(p)
      PROVE  TypeInv'
  BY <2>19
  DEF NextChar, Steps, SendSteps, GetcSteps, StartSend, Write, Commands,
      TypeInv, TypeOK, MailTypeOK, HartTypeOK, HostTypeOK, ReplyHeld
<2>20. ASSUME NEW p \in Procs, EndOutput(p)
      PROVE  TypeInv'
  BY <2>20
  DEF EndOutput, Steps, SendSteps, GetcSteps,
      TypeInv, TypeOK, MailTypeOK, HartTypeOK, HostTypeOK, ReplyHeld
<2>21. ASSUME NEW p \in Procs, Spin(p)
      PROVE  TypeInv'
  BY <2>21
  DEF Spin, vars,
      TypeInv, TypeOK, MailTypeOK, HartTypeOK, HostTypeOK, ReplyHeld
<2>22. ASSUME HostPoll
      PROVE  TypeInv'
  BY <2>22
  DEF HostPoll,
      TypeInv, TypeOK, MailTypeOK, HartTypeOK, HostTypeOK, ReplyHeld
<2>23. ASSUME HostAck
      PROVE  TypeInv'
  BY <2>23
  DEF HostAck,
      TypeInv, TypeOK, MailTypeOK, HartTypeOK, HostTypeOK, ReplyHeld
<2>24. ASSUME HostHandle
      PROVE  TypeInv'
  <3>. USE <2>24 DEF HostHandle, TypeInv, TypeOK, HostTypeOK
  <3>1. hcmd.op = "write" => hcmd.ch \in Chars
    BY DEF Commands, ReadCmd, NoCmd
  <3>2. shown' \in Seq(Chars)
    BY <3>1
  <3>3. hreads' \in Nat /\ HostTypeOK'
    BY <3>2
  <3>. QED  BY <3>3 DEF MailTypeOK, HartTypeOK, ReplyHeld
<2>25. ASSUME HostTick
      PROVE  TypeInv'
  <3>. USE <2>25 DEF HostTick, TypeInv, TypeOK, HostTypeOK
  <3>1. CASE hreads > 0 /\ read < Len(typed)
    <4>1. typed[read + 1] \in Chars
      BY <3>1
    <4>2. [mark |-> 1, ch |-> typed[read + 1]] \in Replies
      BY <4>1 DEF Replies
    <4>3. HostTypeOK'
      BY SMTT(30), <3>1, <4>2
    <4>. QED  BY <4>3 DEF MailTypeOK, HartTypeOK, ReplyHeld
  <3>2. CASE ~(hreads > 0 /\ read < Len(typed))
    BY <3>2 DEF MailTypeOK, HartTypeOK, ReplyHeld
  <3>. QED  BY <3>1, <3>2
<2>26. ASSUME HostReply
      PROVE  TypeInv'
  <3>. USE <2>26 DEF HostReply, TypeInv, TypeOK, HostTypeOK
  <3>1. CASE hreplies # << >> /\ fromhost = NoReply
    <4>1. Head(hreplies) \in Replies /\ Tail(hreplies) \in Seq(Replies)
      BY <3>1
    <4>. QED  BY <3>1, <4>1 DEF MailTypeOK, HartTypeOK, ReplyHeld
  <3>2. CASE ~(hreplies # << >> /\ fromhost = NoReply)
    BY <3>2 DEF MailTypeOK, HartTypeOK, ReplyHeld
  <3>. QED  BY <3>1, <3>2
<2>27. ASSUME NEW c \in Chars, UserTypes(c)
      PROVE  TypeInv'
  BY <2>27
  DEF UserTypes,
      TypeInv, TypeOK, MailTypeOK, HartTypeOK, HostTypeOK, ReplyHeld
<2>. QED
  BY <1>1, StepCases, <2>1, <2>2, <2>3, <2>4, <2>5, <2>6, <2>7, <2>8, <2>9, <2>10, <2>11, <2>12,
     <2>13, <2>14, <2>15, <2>16, <2>17, <2>18, <2>19, <2>20, <2>21, <2>22, <2>23, <2>24,
     <2>25, <2>26, <2>27
<1>2. CASE UNCHANGED vars
  BY <1>2 DEF TypeInv, TypeOK, MailTypeOK, HartTypeOK, HostTypeOK, ReplyHeld, vars
<1>. QED  BY <1>1, <1>2

\* Every variable of the driver, the hart and the host keeps its type.
THEOREM Typing == Spec => []TypeOK
<1>. QED  BY TypeInit, TypeStep, PTL DEF Spec, TypeInv

-----------------------------------------------------------------------------
(* Exclusion on one hart.                                                  *)

\* The environment the driver needs: at most one process ever sends with
\* interrupts enabled (console_two_unlocked shows what two can do).
AtMostOneUnlocked == \A p, q \in Unlocked : p = q

\* A thread is inside the console code exactly when its activity says so.
ThreadState == \A t \in Threads : act[t] \in {"run", "halted"} <=> pc[t] = "run"

\* The handler of the tick runs with interrupts disabled.
TickMasked == pc["tick"] # "off" => ~intr

\* A thread found half-way through the console code while it does not have the
\* hart for itself (it is switched out, interrupted, or interruptible) is a
\* process that may print with interrupts enabled.
Preempted ==
  \A t \in Threads :
    pc[t] # "run" /\ (t # cur \/ intr \/ pc["tick"] # "off") => t \in Unlocked

\* uartwrite has the hart for itself, whoever calls it.
WriteMasked ==
  \A t \in Threads : act[t] = "write" => cur = t /\ ~intr /\ pc["tick"] = "off"

ExclusionInv == ThreadState /\ TickMasked /\ Preempted /\ WriteMasked

LEMMA ExclusionInit == Init => ExclusionInv
BY DEF Init, ExclusionInv, ThreadState, TickMasked, Preempted, WriteMasked

LEMMA ExclusionStep ==
  TypeInv /\ ExclusionInv /\ [Next]_vars => ExclusionInv'
<1>. SUFFICES ASSUME TypeInv, ExclusionInv, [Next]_vars PROVE ExclusionInv'
  OBVIOUS
<1>. USE DEF TypeInv, TypeOK, HartTypeOK
<1>1. ASSUME Next PROVE ExclusionInv'
<2>1. ASSUME NEW x \in Contexts, SendWait(x)
      PROVE  ExclusionInv'
  BY <2>1
  DEF SendWait, Running, ExclusionInv, ThreadState, TickMasked, Preempted, WriteMasked
<2>2. ASSUME NEW x \in Contexts, SendStore(x)
      PROVE  ExclusionInv'
  BY <2>2
  DEF SendStore, Running, ExclusionInv, ThreadState, TickMasked, Preempted, WriteMasked
<2>3. ASSUME NEW x \in Contexts, SendDone(x)
      PROVE  ExclusionInv'
  BY <2>3
  DEF SendDone, Running, ReturnStep, ExclusionInv, ThreadState, TickMasked, Preempted, WriteMasked
<2>4. ASSUME NEW x \in Contexts, GetcLoad(x)
      PROVE  ExclusionInv'
  BY <2>4
  DEF GetcLoad, Running, ExclusionInv, ThreadState, TickMasked, Preempted, WriteMasked
<2>5. ASSUME NEW x \in Contexts, GetcClear(x)
      PROVE  ExclusionInv'
  BY <2>5
  DEF GetcClear, Running, ExclusionInv, ThreadState, TickMasked, Preempted, WriteMasked
<2>6. ASSUME NEW x \in Contexts, GetcClearPending(x)
      PROVE  ExclusionInv'
  BY <2>6
  DEF GetcClearPending, Running, ExclusionInv, ThreadState, TickMasked, Preempted, WriteMasked
<2>7. ASSUME NEW x \in Contexts, GetcCheck(x)
      PROVE  ExclusionInv'
  BY <2>7
  DEF GetcCheck, Running, StartSend, ExclusionInv, ThreadState, TickMasked, Preempted, WriteMasked
<2>8. ASSUME NEW x \in Contexts, GetcSetPending(x)
      PROVE  ExclusionInv'
  BY <2>8
  DEF GetcSetPending, Running, ExclusionInv, ThreadState, TickMasked, Preempted, WriteMasked
<2>9. ASSUME NEW x \in Contexts, NEW e \in BOOLEAN, Consoleintr(x, e)
      PROVE  ExclusionInv'
  BY <2>9
  DEF Consoleintr, Running, StartSend, ExclusionInv, ThreadState, TickMasked, Preempted, WriteMasked
<2>10. ASSUME Tick
      PROVE  ExclusionInv'
  BY <2>10
  DEF Tick, ExclusionInv, ThreadState, TickMasked, Preempted, WriteMasked
<2>11. ASSUME TickReturn
      PROVE  ExclusionInv'
  BY <2>11
  DEF TickReturn, ExclusionInv, ThreadState, TickMasked, Preempted, WriteMasked
<2>12. ASSUME IdlePoll
      PROVE  ExclusionInv'
  BY <2>12
  DEF IdlePoll, Running, ExclusionInv, ThreadState, TickMasked, Preempted, WriteMasked
<2>13. ASSUME IdleReturn
      PROVE  ExclusionInv'
  BY <2>13
  DEF IdleReturn, Running, ExclusionInv, ThreadState, TickMasked, Preempted, WriteMasked
<2>14. ASSUME NEW p \in Procs, Dispatch(p)
      PROVE  ExclusionInv'
  BY <2>14
  DEF Dispatch, Running, ExclusionInv, ThreadState, TickMasked, Preempted, WriteMasked
<2>15. ASSUME NEW p \in Procs, Sleep(p)
      PROVE  ExclusionInv'
  BY <2>15
  DEF Sleep, Running, ExclusionInv, ThreadState, TickMasked, Preempted, WriteMasked
<2>16. ASSUME NEW p \in Procs, NEW b \in Buffers, Uartwrite(p, b)
      PROVE  ExclusionInv'
  BY <2>16
  DEF Uartwrite, Running, Begin, ExclusionInv, ThreadState, TickMasked, Preempted, WriteMasked
<2>17. ASSUME NEW p \in Procs, NEW b \in Buffers, Printk(p, b)
      PROVE  ExclusionInv'
  BY <2>17
  DEF Printk, Running, Begin, ExclusionInv, ThreadState, TickMasked, Preempted, WriteMasked
<2>18. ASSUME NEW p \in Procs, NEW b \in Buffers, NEW on \in BOOLEAN,
              Panic(p, b, on)
      PROVE  ExclusionInv'
  BY <2>18
  DEF Panic, Running, Begin, ExclusionInv, ThreadState, TickMasked, Preempted, WriteMasked
<2>19. ASSUME NEW p \in Procs, NextChar(p)
      PROVE  ExclusionInv'
  BY <2>19
  DEF NextChar, Running, StartSend, ExclusionInv, ThreadState, TickMasked, Preempted, WriteMasked
<2>20. ASSUME NEW p \in Procs, EndOutput(p)
      PROVE  ExclusionInv'
  BY <2>20
  DEF EndOutput, Running, ExclusionInv, ThreadState, TickMasked, Preempted, WriteMasked
<2>21. ASSUME NEW p \in Procs, Spin(p)
      PROVE  ExclusionInv'
  BY <2>21
  DEF Spin, Running, vars, ExclusionInv, ThreadState, TickMasked, Preempted, WriteMasked
<2>22. ASSUME HostPoll
      PROVE  ExclusionInv'
  BY <2>22
  DEF HostPoll, ExclusionInv, ThreadState, TickMasked, Preempted, WriteMasked
<2>23. ASSUME HostAck
      PROVE  ExclusionInv'
  BY <2>23
  DEF HostAck, ExclusionInv, ThreadState, TickMasked, Preempted, WriteMasked
<2>24. ASSUME HostHandle
      PROVE  ExclusionInv'
  BY <2>24
  DEF HostHandle, ExclusionInv, ThreadState, TickMasked, Preempted, WriteMasked
<2>25. ASSUME HostTick
      PROVE  ExclusionInv'
  BY <2>25
  DEF HostTick, ExclusionInv, ThreadState, TickMasked, Preempted, WriteMasked
<2>26. ASSUME HostReply
      PROVE  ExclusionInv'
  BY <2>26
  DEF HostReply, ExclusionInv, ThreadState, TickMasked, Preempted, WriteMasked
<2>27. ASSUME NEW c \in Chars, UserTypes(c)
      PROVE  ExclusionInv'
  BY <2>27
  DEF UserTypes, ExclusionInv, ThreadState, TickMasked, Preempted, WriteMasked
<2>. QED
  BY <1>1, StepCases, <2>1, <2>2, <2>3, <2>4, <2>5, <2>6, <2>7, <2>8, <2>9, <2>10, <2>11, <2>12,
     <2>13, <2>14, <2>15, <2>16, <2>17, <2>18, <2>19, <2>20, <2>21, <2>22, <2>23, <2>24,
     <2>25, <2>26, <2>27
<1>2. CASE UNCHANGED vars
  BY <1>2 DEF vars, ExclusionInv, ThreadState, TickMasked, Preempted, WriteMasked
<1>. QED  BY <1>1, <1>2

-----------------------------------------------------------------------------
(* The mailbox word tohost.                                                *)

\* A command in tohost is that of its owner, who waits for its consumption.
StoredByOwner ==
  tohost # NoCmd => pc[owner] = "s_done" /\ tohost = cmd[owner]

\* Between the first loop of htif_send and its store nobody else stores, for a
\* context that cannot be interrupted.
StoreReady ==
  \A x \in Contexts \ Unlocked : pc[x] = "s_store" => tohost = NoCmd

\* What the host is about to acknowledge is what tohost holds.
AckInHand == hpc = "ack" => tohost # NoCmd /\ hcmd = tohost

MailInv == StoredByOwner /\ StoreReady /\ AckInHand

\* htif_send never stores over a command: a context that cannot be interrupted
\* has seen tohost = 0 just before; the one that can finds its own command
\* gone or nobody else in the middle of a send.
LEMMA StoreIsSafe ==
  ASSUME AtMostOneUnlocked, TypeInv, ExclusionInv, MailInv,
         NEW x \in Contexts, SendStore(x)
  PROVE  tohost = NoCmd
<1>. USE DEF TypeInv, TypeOK, HartTypeOK, SendStore, MailInv
<1>1. CASE x \notin Unlocked
  BY <1>1 DEF StoreReady
<1>2. CASE x \in Unlocked
  <2>1. cur = x /\ pc["tick"] = "off" /\ pc[x] = "s_store"
    BY <1>2 DEF Running
  <2>2. ASSUME NEW y \in Contexts, pc[y] = "s_done" PROVE FALSE
    <3>1. y \in Threads /\ y # x
      BY <2>1, <2>2
    <3>2. y \in Unlocked
      BY <2>1, <2>2, <3>1 DEF ExclusionInv, Preempted
    <3>. QED  BY <1>2, <3>1, <3>2 DEF AtMostOneUnlocked
  <2>. QED  BY <2>2 DEF StoredByOwner
<1>. QED  BY <1>1, <1>2

LEMMA MailInit == Init => MailInv
BY DEF Init, MailInv, StoredByOwner, StoreReady, AckInHand

LEMMA MailStep ==
  ASSUME AtMostOneUnlocked, TypeInv, ExclusionInv, MailInv, [Next]_vars
  PROVE  MailInv'
<1>. USE DEF TypeInv, TypeOK, HartTypeOK
<1>1. ASSUME Next PROVE MailInv'
<2>1. ASSUME NEW x \in Contexts, SendWait(x)
      PROVE  MailInv'
  BY <2>1
  DEF SendWait, MailInv, StoredByOwner, StoreReady, AckInHand
<2>2. ASSUME NEW x \in Contexts, SendStore(x)
      PROVE  MailInv'
  <3>1. tohost = NoCmd
    BY <2>2, StoreIsSafe
  <3>2. StoredByOwner'
    BY <2>2 DEF SendStore, StoredByOwner
  <3>3. StoreReady'
    <4>. SUFFICES ASSUME NEW y \in Contexts \ Unlocked, pc'[y] = "s_store"
                  PROVE  FALSE
      BY DEF StoreReady
    <4>1. y # x /\ pc[y] = "s_store"
      BY <2>2 DEF SendStore
    <4>2. Running = y
      BY <4>1 DEF Running, ExclusionInv, Preempted
    <4>. QED  BY <2>2, <4>1, <4>2 DEF SendStore
  <3>4. AckInHand'
    BY <2>2, <3>1 DEF SendStore, MailInv, AckInHand
  <3>. QED  BY <3>2, <3>3, <3>4 DEF MailInv
<2>3. ASSUME NEW x \in Contexts, SendDone(x)
      PROVE  MailInv'
  BY <2>3
  DEF SendDone, ReturnStep, MailInv, StoredByOwner, StoreReady, AckInHand
<2>4. ASSUME NEW x \in Contexts, GetcLoad(x)
      PROVE  MailInv'
  BY <2>4
  DEF GetcLoad, MailInv, StoredByOwner, StoreReady, AckInHand
<2>5. ASSUME NEW x \in Contexts, GetcClear(x)
      PROVE  MailInv'
  BY <2>5
  DEF GetcClear, MailInv, StoredByOwner, StoreReady, AckInHand
<2>6. ASSUME NEW x \in Contexts, GetcClearPending(x)
      PROVE  MailInv'
  BY <2>6
  DEF GetcClearPending, MailInv, StoredByOwner, StoreReady, AckInHand
<2>7. ASSUME NEW x \in Contexts, GetcCheck(x)
      PROVE  MailInv'
  BY <2>7
  DEF GetcCheck, StartSend, MailInv, StoredByOwner, StoreReady, AckInHand
<2>8. ASSUME NEW x \in Contexts, GetcSetPending(x)
      PROVE  MailInv'
  BY <2>8
  DEF GetcSetPending, MailInv, StoredByOwner, StoreReady, AckInHand
<2>9. ASSUME NEW x \in Contexts, NEW e \in BOOLEAN, Consoleintr(x, e)
      PROVE  MailInv'
  BY <2>9
  DEF Consoleintr, StartSend, MailInv, StoredByOwner, StoreReady, AckInHand
<2>10. ASSUME Tick
      PROVE  MailInv'
  BY <2>10
  DEF Tick, MailInv, StoredByOwner, StoreReady, AckInHand
<2>11. ASSUME TickReturn
      PROVE  MailInv'
  BY <2>11
  DEF TickReturn, MailInv, StoredByOwner, StoreReady, AckInHand
<2>12. ASSUME IdlePoll
      PROVE  MailInv'
  <3>1. pc["sched"] = "run"
    BY <2>12 DEF IdlePoll, Running, ExclusionInv, ThreadState
  <3>. QED  BY <2>12, <3>1
            DEF IdlePoll, MailInv, StoredByOwner, StoreReady, AckInHand
<2>13. ASSUME IdleReturn
      PROVE  MailInv'
  BY <2>13
  DEF IdleReturn, MailInv, StoredByOwner, StoreReady, AckInHand
<2>14. ASSUME NEW p \in Procs, Dispatch(p)
      PROVE  MailInv'
  BY <2>14
  DEF Dispatch, MailInv, StoredByOwner, StoreReady, AckInHand
<2>15. ASSUME NEW p \in Procs, Sleep(p)
      PROVE  MailInv'
  BY <2>15
  DEF Sleep, MailInv, StoredByOwner, StoreReady, AckInHand
<2>16. ASSUME NEW p \in Procs, NEW b \in Buffers, Uartwrite(p, b)
      PROVE  MailInv'
  <3>1. pc[p] = "run"
    BY <2>16 DEF Uartwrite, Begin, Running, ExclusionInv, ThreadState
  <3>. QED  BY <2>16, <3>1
            DEF Uartwrite, Begin, MailInv, StoredByOwner, StoreReady, AckInHand
<2>17. ASSUME NEW p \in Procs, NEW b \in Buffers, Printk(p, b)
      PROVE  MailInv'
  <3>1. pc[p] = "run"
    BY <2>17 DEF Printk, Begin, Running, ExclusionInv, ThreadState
  <3>. QED  BY <2>17, <3>1
            DEF Printk, Begin, MailInv, StoredByOwner, StoreReady, AckInHand
<2>18. ASSUME NEW p \in Procs, NEW b \in Buffers, NEW on \in BOOLEAN,
              Panic(p, b, on)
      PROVE  MailInv'
  <3>1. pc[p] = "run"
    BY <2>18 DEF Panic, Begin, Running, ExclusionInv, ThreadState
  <3>. QED  BY <2>18, <3>1
            DEF Panic, Begin, MailInv, StoredByOwner, StoreReady, AckInHand
<2>19. ASSUME NEW p \in Procs, NextChar(p)
      PROVE  MailInv'
  BY <2>19
  DEF NextChar, StartSend, MailInv, StoredByOwner, StoreReady, AckInHand
<2>20. ASSUME NEW p \in Procs, EndOutput(p)
      PROVE  MailInv'
  BY <2>20
  DEF EndOutput, MailInv, StoredByOwner, StoreReady, AckInHand
<2>21. ASSUME NEW p \in Procs, Spin(p)
      PROVE  MailInv'
  BY <2>21
  DEF Spin, vars, MailInv, StoredByOwner, StoreReady, AckInHand
<2>22. ASSUME HostPoll
      PROVE  MailInv'
  BY <2>22
  DEF HostPoll, MailInv, StoredByOwner, StoreReady, AckInHand
<2>23. ASSUME HostAck
      PROVE  MailInv'
  BY <2>23
  DEF HostAck, MailInv, StoredByOwner, StoreReady, AckInHand
<2>24. ASSUME HostHandle
      PROVE  MailInv'
  BY <2>24
  DEF HostHandle, MailInv, StoredByOwner, StoreReady, AckInHand
<2>25. ASSUME HostTick
      PROVE  MailInv'
  BY <2>25
  DEF HostTick, MailInv, StoredByOwner, StoreReady, AckInHand
<2>26. ASSUME HostReply
      PROVE  MailInv'
  BY <2>26
  DEF HostReply, MailInv, StoredByOwner, StoreReady, AckInHand
<2>27. ASSUME NEW c \in Chars, UserTypes(c)
      PROVE  MailInv'
  BY <2>27
  DEF UserTypes, MailInv, StoredByOwner, StoreReady, AckInHand
<2>. QED
  BY <1>1, StepCases, <2>1, <2>2, <2>3, <2>4, <2>5, <2>6, <2>7, <2>8, <2>9, <2>10, <2>11, <2>12,
     <2>13, <2>14, <2>15, <2>16, <2>17, <2>18, <2>19, <2>20, <2>21, <2>22, <2>23, <2>24,
     <2>25, <2>26, <2>27
<1>2. CASE UNCHANGED vars
  BY <1>2 DEF vars, MailInv, StoredByOwner, StoreReady, AckInHand
<1>. QED  BY <1>1, <1>2

-----------------------------------------------------------------------------
(* The safety theorems.                                                    *)

IInv == TypeInv /\ ExclusionInv /\ MailInv

LEMMA IInvInit == Init => IInv
BY TypeInit, ExclusionInit, MailInit DEF IInv

LEMMA IInvStep == AtMostOneUnlocked /\ IInv /\ [Next]_vars => IInv'
BY TypeStep, ExclusionStep, MailStep DEF IInv

LEMMA Invariance == ASSUME AtMostOneUnlocked PROVE Spec => []IInv
<1>1. IInv /\ [Next]_vars => IInv'
  BY IInvStep
<1>. QED  BY <1>1, IInvInit, PTL DEF Spec

\* Only the host's acknowledgement and htif_send's store change tohost.
LEMMA TohostChanges ==
  ASSUME Next, tohost' # tohost
  PROVE  HostAck \/ \E x \in Contexts : SendStore(x)
<1>1. CASE TickStep
  BY <1>1 DEF TickStep, Send, Uartintr, Tick, TickReturn, SendWait, SendDone,
     GetcLoad, GetcClear, GetcClearPending, GetcCheck, GetcSetPending, Consoleintr
<1>2. CASE SchedStep
  BY <1>2 DEF SchedStep, Send, Uartintr, IdlePoll, IdleReturn, SendWait, SendDone,
     GetcLoad, GetcClear, GetcClearPending, GetcCheck, GetcSetPending, Consoleintr,
     Dispatch
<1>3. CASE HostStep
  BY <1>3 DEF HostStep, HostPoll, HostHandle, HostTick, HostReply
<1>4. CASE \E p \in Procs : ProcStep(p)
  BY <1>4 DEF ProcStep, Output, Send, SendWait, SendDone, Sleep, Uartwrite, Printk,
     Panic, NextChar, EndOutput, Spin, vars
<1>5. CASE \E c \in Chars : UserTypes(c)
  BY <1>5 DEF UserTypes
<1>. QED  BY <1>1, <1>2, <1>3, <1>4, <1>5 DEF Next

\* A command stays in tohost until the host, which has read this command,
\* acknowledges it, wherever a tick interrupts its sender.
THEOREM CommandsAreNotOverwritten ==
  ASSUME AtMostOneUnlocked PROVE Spec => CommandsSurvive
<1>1. ASSUME IInv, [Next]_vars, tohost # NoCmd, tohost' # tohost
      PROVE  tohost' = NoCmd /\ hpc = "ack" /\ hcmd = tohost
  <2>1. Next
    BY <1>1 DEF vars
  <2>2. ASSUME NEW x \in Contexts, SendStore(x) PROVE FALSE
    BY <1>1, <2>2, StoreIsSafe DEF IInv
  <2>3. CASE HostAck
    BY <1>1, <2>3 DEF HostAck, IInv, MailInv, AckInHand
  <2>. QED  BY <1>1, <2>1, <2>2, <2>3, TohostChanges
<1>2. IInv /\ [Next]_vars =>
        [tohost # NoCmd /\ tohost' # tohost
           => tohost' = NoCmd /\ hpc = "ack" /\ hcmd = tohost]_vars
  BY <1>1
<1>3. Spec => []IInv
  BY Invariance
<1>. QED  BY <1>2, <1>3, PTL DEF Spec, CommandsSurvive

\* While a process is inside uartwrite, nobody else sends a command.
THEOREM BuffersAreUnbroken == Spec => BufferUnbroken
<1>1. ASSUME ExclusionInv, [Next]_vars, NEW p \in Procs,
             act[p] = "write", tohost' # tohost, tohost' # NoCmd
      PROVE  owner' = p
  <2>1. Next
    BY <1>1 DEF vars
  <2>2. ASSUME NEW x \in Contexts, SendStore(x) PROVE owner' = p
    BY <1>1, <2>2 DEF SendStore, Running, ExclusionInv, WriteMasked
  <2>. QED  BY <1>1, <2>1, <2>2, TohostChanges DEF HostAck
<1>2. ExclusionInv /\ [Next]_vars =>
        [\A p \in Procs :
           act[p] = "write" /\ tohost' # tohost /\ tohost' # NoCmd => owner' = p]_vars
  BY <1>1
<1>3. TypeInv /\ ExclusionInv /\ [Next]_vars => (TypeInv /\ ExclusionInv)'
  BY TypeStep, ExclusionStep
<1>4. Init => TypeInv /\ ExclusionInv
  BY TypeInit, ExclusionInit
<1>. QED  BY <1>2, <1>3, <1>4, PTL DEF Spec, BufferUnbroken

-----------------------------------------------------------------------------
(* Console reads.                                                          *)

Pollers == {"tick", "sched"}

\* Processes only write, the tick and the scheduler poll, and a context has a
\* command exactly while it is in htif_send.
Paths ==
  /\ \A p \in Procs : pc[p] \in {"run", "b_next"} \cup SendSteps /\ cmd[p] # ReadCmd
  /\ pc["tick"] \in {"off"} \cup SendSteps \cup GetcSteps
  /\ pc["sched"] \in {"run"} \cup SendSteps \cup GetcSteps
  /\ \A x \in Contexts : cmd[x] # NoCmd <=> pc[x] \in SendSteps

\* What htif_getc knows between its steps: a reply it has seen stays until it
\* clears it, and no read is outstanding when it sends one or takes a character.
Window(x) ==
  /\ pc[x] = "g_clear" => fromhost # NoReply /\ fh[x] = fromhost
  /\ pc[x] \in {"s_wait", "s_store"} /\ cmd[x] = ReadCmd => ~read_pending
  /\ pc[x] = "consoleintr" => ~read_pending

Windows == \A x \in Pollers : Window(x)

\* The three kinds of commands differ.
LEMMA CommandsDiffer ==
  /\ NoCmd # ReadCmd
  /\ \A c : Write(c) # NoCmd /\ Write(c) # ReadCmd
BY DEF NoCmd, ReadCmd, Write

LEMMA PathsInit == Init => Paths
BY CommandsDiffer DEF Init, Paths, SendSteps

LEMMA PathsStep ==
  ASSUME TypeInv, ExclusionInv, Paths, [Next]_vars
  PROVE  Paths'
<1>. USE CommandsDiffer DEF TypeInv, TypeOK, HartTypeOK, Paths, SendSteps, GetcSteps
<1>1. ASSUME NEW x \in Contexts,
             SendWait(x) \/ SendStore(x) \/ GetcLoad(x) \/ GetcClear(x)
             \/ GetcClearPending(x) \/ GetcSetPending(x)
      PROVE  Paths'
  <2>1. CASE SendWait(x) \/ SendStore(x)
    BY ZenonT(60), <2>1 DEF SendWait, SendStore
  <2>2. ASSUME NEW l \in GetcSteps, x \in Pollers, pc' = [pc EXCEPT ![x] = l], cmd' = cmd,
               pc[x] \in GetcSteps
        PROVE  Paths'
    BY <2>2 DEF Pollers
  <2>3. pc[x] \in GetcSteps => x \in Pollers
    BY DEF Pollers
  <2>4. CASE GetcLoad(x) \/ GetcClear(x)
    BY <2>2, <2>3, <2>4 DEF GetcLoad, GetcClear
  <2>5. CASE GetcClearPending(x) \/ GetcSetPending(x)
    BY <2>2, <2>3, <2>5 DEF GetcClearPending, GetcSetPending
  <2>. QED  BY <1>1, <2>1, <2>4, <2>5
<1>2. ASSUME NEW x \in Contexts, SendDone(x) PROVE Paths'
  <2>1. x \in Procs => cmd[x].op # "read"
    <3>1. cmd[x] \in Commands \cup {NoCmd}  OBVIOUS
    <3>. QED  BY <1>2, <3>1 DEF Commands, ReadCmd, NoCmd
  <2>. QED  BY <1>2, <2>1 DEF SendDone, ReturnStep
<1>3. ASSUME NEW x \in Contexts, GetcCheck(x) PROVE Paths'
  BY ZenonT(60), <1>3 DEF GetcCheck, StartSend
<1>4. ASSUME NEW x \in Contexts, NEW e \in BOOLEAN, Consoleintr(x, e) PROVE Paths'
  <2>1. x \in Pollers
    BY <1>4 DEF Consoleintr, Pollers
  <2>2. CASE e
    BY SMTT(30), <1>4, <2>1, <2>2 DEF Consoleintr, StartSend, Pollers
  <2>3. CASE ~e
    BY ZenonT(60), <1>4, <2>1, <2>3 DEF Consoleintr, Pollers
  <2>. QED  BY <2>2, <2>3
<1>5. CASE Tick \/ TickReturn
  BY ZenonT(60), <1>5 DEF Tick, TickReturn
<1>6. CASE IdlePoll
  BY <1>6 DEF IdlePoll, Running, ExclusionInv, ThreadState
<1>7. CASE IdleReturn
  BY <1>7 DEF IdleReturn
<1>8. ASSUME NEW p \in Procs,
             \/ Dispatch(p) \/ Sleep(p) \/ NextChar(p) \/ EndOutput(p) \/ Spin(p)
             \/ \E b \in Buffers : \/ Uartwrite(p, b) \/ Printk(p, b)
                                   \/ \E on \in BOOLEAN : Panic(p, b, on)
      PROVE  Paths'
  <2>1. CASE Dispatch(p) \/ Sleep(p) \/ EndOutput(p) \/ Spin(p)
    BY <2>1 DEF Dispatch, Sleep, EndOutput, Spin, vars
  <2>2. CASE NextChar(p)
    BY <2>2 DEF NextChar, StartSend
  <2>3. ASSUME NEW b \in Buffers, NEW a \in {"write", "printk", "panic"}, Begin(p, a, b),
               cmd' = cmd
        PROVE  Paths'
    <3>1. pc[p] = "run" /\ pc' = [pc EXCEPT ![p] = "b_next"]
      BY <2>3 DEF Begin, Running, ExclusionInv, ThreadState
    <3>. QED  BY <2>3, <3>1
  <2>. QED  BY <1>8, <2>1, <2>2, <2>3 DEF Uartwrite, Printk, Panic
<1>9. CASE \/ HostPoll \/ HostAck \/ HostHandle \/ HostTick \/ HostReply
           \/ \E c \in Chars : UserTypes(c)
  BY <1>9 DEF HostPoll, HostAck, HostHandle, HostTick, HostReply, UserTypes
<1>10. CASE UNCHANGED vars
  BY <1>10 DEF vars
<1>. HIDE DEF TypeInv, TypeOK, HartTypeOK, Paths, SendSteps, GetcSteps
<1>. QED  BY <1>1, <1>2, <1>3, <1>4, <1>5, <1>6, <1>7, <1>8, <1>9, <1>10, StepCases

-----------------------------------------------------------------------------
Setting(x)  == pc[x] = "g_setpend" \/ (pc[x] = "s_done" /\ cmd[x] = ReadCmd)
Clearing(x) == pc[x] = "g_clearpend"

\* Only the pollers set and clear read_pending.
LEMMA PollersOnly ==
  Paths => /\ SettingPending <=> Setting("tick") \/ Setting("sched")
           /\ ClearingPending <=> Clearing("tick") \/ Clearing("sched")
BY DEF Paths, Setting, Clearing, SettingPending, ClearingPending, SendSteps

\* Whoever runs polls alone: the other pollers are outside the driver.
LEMMA PollsAlone ==
  ASSUME TypeInv, ExclusionInv, Paths, NEW x \in Contexts, Running = x,
         NEW y \in Pollers, y # x
  PROVE  pc[y] \in {"off", "run"}
<1>1. CASE y = "tick"
  BY <1>1 DEF Running, Paths
<1>2. CASE y = "sched"
  BY <1>2 DEF Running, Paths, ExclusionInv, Preempted, TypeInv, TypeOK, HartTypeOK
<1>. QED  BY <1>1, <1>2 DEF Pollers

\* A step outside the driver, or of a process.
LEMMA StepsElsewhere ==
  ASSUME TypeInv, ExclusionInv, Paths, UNCHANGED mail,
         UNCHANGED <<hpc, hcmd, hreads, hreplies, fh>>,
         \A x \in Pollers :
           /\ cmd'[x] = cmd[x]
           /\ \/ pc'[x] = pc[x]
              \/ {pc[x], pc'[x]} \subseteq {"off", "run", "g_load", "u_ret"},
         Windows, OneReadOutstanding, Paths'
  PROVE  Windows' /\ OneReadOutstanding'
<1>1. Windows'
  BY DEF Windows, Window, Pollers
<1>2. ReadsInFlight' = ReadsInFlight
  BY DEF ReadsInFlight
<1>3. /\ SettingPending' <=> SettingPending
      /\ ClearingPending' <=> ClearingPending
  <2>1. /\ SettingPending <=> Setting("tick") \/ Setting("sched")
        /\ ClearingPending <=> Clearing("tick") \/ Clearing("sched")
    BY PollersOnly
  <2>2. /\ SettingPending' <=> Setting("tick")' \/ Setting("sched")'
        /\ ClearingPending' <=> Clearing("tick")' \/ Clearing("sched")'
    BY DEF Paths, Setting, Clearing, SettingPending, ClearingPending, SendSteps
  <2>3. \A x \in Pollers : (Setting(x)' <=> Setting(x)) /\ (Clearing(x)' <=> Clearing(x))
    BY DEF Setting, Clearing
  <2>. QED  BY <2>1, <2>2, <2>3 DEF Pollers
<1>. QED  BY <1>1, <1>2, <1>3 DEF OneReadOutstanding
\* A step of the poller that runs: the others are outside the driver.
LEMMA PollerStep ==
  ASSUME TypeInv, ExclusionInv, Paths, Paths', NEW x \in Pollers, Running = x,
         \A y \in Pollers \ {x} : pc'[y] = pc[y] /\ cmd'[y] = cmd[y]
  PROVE  /\ SettingPending <=> Setting(x)
         /\ ClearingPending <=> Clearing(x)
         /\ SettingPending' <=> Setting(x)'
         /\ ClearingPending' <=> Clearing(x)'
         /\ Window(x)' => Windows'
<1>1. \A y \in Pollers \ {x} : pc[y] \in {"off", "run"} /\ pc'[y] \in {"off", "run"}
  BY PollsAlone DEF Pollers
<1>2. \A y \in Pollers \ {x} : /\ ~Setting(y) /\ ~Clearing(y)
                               /\ ~Setting(y)' /\ ~Clearing(y)' /\ Window(y)'
  BY <1>1 DEF Setting, Clearing, Window
<1>3. /\ SettingPending <=> Setting("tick") \/ Setting("sched")
      /\ ClearingPending <=> Clearing("tick") \/ Clearing("sched")
  BY PollersOnly
<1>4. /\ SettingPending' <=> Setting("tick")' \/ Setting("sched")'
      /\ ClearingPending' <=> Clearing("tick")' \/ Clearing("sched")'
  BY DEF Paths, Setting, Clearing, SettingPending, ClearingPending, SendSteps
<1>5. x = "tick" \/ x = "sched"
  BY DEF Pollers
<1>6. Window(x)' => Windows'
  BY <1>2 DEF Windows
<1>. HIDE DEF Setting, Clearing
<1>7. CASE x = "tick"
  BY <1>2, <1>3, <1>4, <1>6, <1>7 DEF Pollers
<1>8. CASE x = "sched"
  BY <1>2, <1>3, <1>4, <1>6, <1>8 DEF Pollers
<1>. QED  BY <1>5, <1>7, <1>8

\* The places of a read that hold one at most.
InTohost   == IF tohost = ReadCmd THEN 1 ELSE 0
InHand     == IF hpc = "handle" /\ hcmd = ReadCmd THEN 1 ELSE 0
InFromhost == IF fromhost # NoReply THEN 1 ELSE 0

LEMMA Places ==
  /\ ReadsInFlight = InTohost + InHand + hreads + Len(hreplies) + InFromhost
  /\ InTohost \in {0, 1} /\ InHand \in {0, 1} /\ InFromhost \in {0, 1}
BY DEF ReadsInFlight, InTohost, InHand, InFromhost

\* A step of a poller in the driver.
Polls(x) ==
  \/ SendWait(x) \/ SendStore(x) \/ SendDone(x)
  \/ GetcLoad(x) \/ GetcClear(x) \/ GetcClearPending(x) \/ GetcCheck(x)
  \/ GetcSetPending(x) \/ \E e \in BOOLEAN : Consoleintr(x, e)

LEMMA ReadKeptByPoller ==
  ASSUME AtMostOneUnlocked, IInv, Paths, Windows, OneReadOutstanding, Paths',
         NEW x \in Pollers, Polls(x)
  PROVE  Windows' /\ OneReadOutstanding'
<1>. USE DEF Pollers
<1>1. /\ Running = x
      /\ \A y \in Contexts \ {x} : pc'[y] = pc[y] /\ cmd'[y] = cmd[y]
      /\ UNCHANGED <<hpc, hcmd, hreads, hreplies>>
  BY DEF Polls, IInv, TypeInv, TypeOK, HartTypeOK, SendWait, SendStore, SendDone, GetcLoad,
         GetcClear, GetcClearPending, GetcCheck, GetcSetPending, Consoleintr, StartSend
<1>2. /\ SettingPending <=> Setting(x)
      /\ ClearingPending <=> Clearing(x)
      /\ SettingPending' <=> Setting(x)'
      /\ ClearingPending' <=> Clearing(x)'
      /\ Window(x)' => Windows'
  BY <1>1, PollerStep DEF IInv
<1>3. /\ ReadsInFlight = IF Setting(x) \/ (read_pending /\ ~Clearing(x)) THEN 1 ELSE 0
      /\ Window(x)
  BY <1>2 DEF OneReadOutstanding, Windows
<1>4. SUFFICES
        /\ Window(x)'
        /\ ReadsInFlight' =
             IF Setting(x)' \/ (read_pending' /\ ~Clearing(x)') THEN 1 ELSE 0
  BY <1>2 DEF OneReadOutstanding
<1>5. UNCHANGED <<tohost, fromhost>> => ReadsInFlight' = ReadsInFlight
  BY <1>1 DEF ReadsInFlight
<1>6. pc \in [Contexts -> Steps] /\ cmd \in [Contexts -> Commands \cup {NoCmd}]
      /\ fh \in [Contexts -> Replies \cup {NoReply}] /\ read_pending \in BOOLEAN
  BY DEF IInv, TypeInv, TypeOK, HartTypeOK, MailTypeOK
<1>7. hreads \in Nat /\ Len(hreplies) \in Nat
  BY DEF IInv, TypeInv, TypeOK, HostTypeOK
<1>p. ReadsInFlight' = InTohost' + InHand' + hreads' + Len(hreplies') + InFromhost'
  BY DEF ReadsInFlight, InTohost, InHand, InFromhost
<1>. HIDE DEF IInv
<1>8. CASE SendWait(x)
  BY <1>3, <1>5, <1>6, <1>8 DEF SendWait, Window, Setting, Clearing
<1>9. CASE SendStore(x)
  <2>1. tohost = NoCmd /\ NoCmd # ReadCmd
    BY <1>9, StoreIsSafe, CommandsDiffer DEF IInv
  <2>2. /\ pc[x] = "s_store" /\ pc' = [pc EXCEPT ![x] = "s_done"] /\ tohost' = cmd[x]
        /\ cmd' = cmd /\ read_pending' = read_pending /\ fromhost' = fromhost
    BY <1>9 DEF SendStore
  <2>3. pc'[x] = "s_done"
    BY <1>6, <2>2
  <2>4. ReadsInFlight' = ReadsInFlight + (IF cmd[x] = ReadCmd THEN 1 ELSE 0)
    <3>1. /\ InTohost = 0 /\ InHand' = InHand /\ InFromhost' = InFromhost
          /\ InTohost' = IF cmd[x] = ReadCmd THEN 1 ELSE 0
      BY <1>1, <2>1, <2>2 DEF InTohost, InHand, InFromhost
    <3>2. hreads' = hreads /\ Len(hreplies') = Len(hreplies)
      BY <1>1
    <3>. QED  BY <1>7, <1>p, <3>1, <3>2, Places
  <2>5. cmd[x] = ReadCmd => ~read_pending
    BY <1>3, <2>2 DEF Window
  <2>6. ~Setting(x) /\ ~Clearing(x) /\ ~Clearing(x)' /\ (Setting(x)' <=> cmd[x] = ReadCmd)
    BY <2>2, <2>3 DEF Setting, Clearing
  <2>7. Window(x)'
    BY <2>3 DEF Window
  <2>. QED  BY <1>3, <2>2, <2>4, <2>5, <2>6, <2>7
<1>10. CASE SendDone(x)
  <2>1. /\ pc[x] = "s_done"
        /\ pc'[x] = IF cmd[x].op = "read" THEN "g_setpend" ELSE "g_load"
        /\ UNCHANGED mail
    BY <1>6, <1>10 DEF SendDone, ReturnStep
  <2>2. cmd[x] = ReadCmd <=> cmd[x].op = "read"
    BY <1>6 DEF Commands, ReadCmd, NoCmd
  <2>3. ~Clearing(x) /\ ~Clearing(x)' /\ (Setting(x) <=> cmd[x] = ReadCmd)
        /\ (Setting(x)' <=> cmd[x] = ReadCmd)
    BY <2>1, <2>2 DEF Setting, Clearing
  <2>4. Window(x)'
    BY <2>1 DEF Window
  <2>. QED  BY <1>3, <1>5, <2>1, <2>3, <2>4
<1>11. CASE GetcLoad(x)
  <2>1. /\ pc[x] = "g_load" /\ fh'[x] = fromhost /\ UNCHANGED mail
        /\ pc'[x] = IF fromhost # NoReply THEN "g_clear" ELSE "g_check"
    BY <1>6, <1>11 DEF GetcLoad
  <2>2. Window(x)'
    BY <2>1 DEF Window
  <2>. QED  BY <1>3, <1>5, <2>1, <2>2 DEF Setting, Clearing
<1>12. CASE GetcClear(x)
  <2>1. /\ pc[x] = "g_clear" /\ pc'[x] = "g_clearpend"
        /\ fromhost' = NoReply /\ UNCHANGED <<tohost, read_pending>>
    BY <1>6, <1>12 DEF GetcClear
  <2>2. fromhost # NoReply
    BY <1>3, <2>1 DEF Window
  <2>3. ReadsInFlight = ReadsInFlight' + 1 /\ ReadsInFlight' \in Nat
    <3>1. /\ InTohost' = InTohost /\ InHand' = InHand
          /\ InFromhost = 1 /\ InFromhost' = 0
      BY <1>1, <2>1, <2>2 DEF InTohost, InHand, InFromhost
    <3>2. hreads' = hreads /\ Len(hreplies') = Len(hreplies)
      BY <1>1
    <3>. QED  BY <1>7, <1>p, <3>1, <3>2, Places
  <2>4. Window(x)'
    BY <2>1 DEF Window
  <2>5. ~Setting(x) /\ ~Clearing(x) /\ ~Setting(x)' /\ Clearing(x)'
    BY <2>1 DEF Setting, Clearing
  <2>6. ReadsInFlight' = 0
    <3>1. ReadsInFlight \in {0, 1}
      BY <1>3, <2>5
    <3>2. \A m \in Nat, n \in {0, 1} : n = m + 1 => m = 0
      OBVIOUS
    <3>. QED  BY <2>3, <3>1, <3>2
  <2>. QED  BY <2>4, <2>5, <2>6
<1>13. CASE GetcClearPending(x)
  <2>1. /\ pc[x] = "g_clearpend" /\ pc'[x] \in {"consoleintr", "u_ret"}
        /\ read_pending' = FALSE /\ UNCHANGED <<tohost, fromhost>>
    BY <1>6, <1>13 DEF GetcClearPending
  <2>. QED  BY <1>3, <1>5, <2>1 DEF Window, Setting, Clearing
<1>14. CASE GetcCheck(x)
  <2>1. CASE read_pending
    <3>1. pc[x] = "g_check" /\ pc'[x] = "u_ret" /\ UNCHANGED mail
      BY <1>6, <1>14, <2>1 DEF GetcCheck
    <3>. QED  BY <1>3, <1>5, <3>1 DEF Window, Setting, Clearing
  <2>2. CASE ~read_pending
    <3>1. pc[x] = "g_check" /\ pc'[x] = "s_wait" /\ UNCHANGED mail
      BY <1>6, <1>14, <2>2 DEF GetcCheck, StartSend
    <3>. QED  BY <1>3, <1>5, <2>2, <3>1 DEF Window, Setting, Clearing
  <2>. QED  BY <2>1, <2>2
<1>15. CASE GetcSetPending(x)
  <2>1. /\ pc[x] = "g_setpend" /\ pc'[x] = "u_ret" /\ read_pending' = TRUE
        /\ UNCHANGED <<tohost, fromhost>>
    BY <1>6, <1>15 DEF GetcSetPending
  <2>. QED  BY <1>3, <1>5, <2>1 DEF Window, Setting, Clearing
<1>16. ASSUME NEW e \in BOOLEAN, Consoleintr(x, e)
       PROVE  /\ Window(x)'
              /\ ReadsInFlight' =
                   IF Setting(x)' \/ (read_pending' /\ ~Clearing(x)') THEN 1 ELSE 0
  <2>1. pc[x] = "consoleintr" /\ pc'[x] \in {"s_wait", "g_load"} /\ UNCHANGED mail
    BY <1>6, <1>16 DEF Consoleintr, StartSend
  <2>2. pc'[x] = "s_wait" => cmd'[x] # ReadCmd
    <3>1. CASE e
      BY <1>6, <1>16, <3>1, CommandsDiffer DEF Consoleintr, StartSend
    <3>2. CASE ~e
      BY <1>6, <1>16, <3>2 DEF Consoleintr
    <3>. QED  BY <3>1, <3>2
  <2>. QED  BY <1>3, <1>5, <2>1, <2>2 DEF Window, Setting, Clearing
<1>. HIDE DEF Window, Setting, Clearing
<1>. QED  BY <1>8, <1>9, <1>10, <1>11, <1>12, <1>13, <1>14, <1>15, <1>16
      DEF Polls

\* The host only moves a read from one place to the next.
LEMMA ReadMovedByHost ==
  ASSUME IInv, Windows, OneReadOutstanding,
         HostPoll \/ HostAck \/ HostHandle \/ HostTick \/ HostReply
  PROVE  Windows' /\ OneReadOutstanding'
<1>1. /\ UNCHANGED <<pc, cmd, fh, read_pending>>
      /\ fromhost' = fromhost \/ fromhost = NoReply
  BY DEF HostPoll, HostAck, HostHandle, HostTick, HostReply
<1>2. Windows'
  BY <1>1 DEF Windows, Window
<1>3. /\ SettingPending' <=> SettingPending
      /\ ClearingPending' <=> ClearingPending
  BY <1>1 DEF SettingPending, ClearingPending
<1>4. /\ hreads \in Nat /\ hreplies \in Seq(Replies)
      /\ hcmd \in Commands \cup {NoCmd}
  BY DEF IInv, TypeInv, TypeOK, HostTypeOK
<1>p. ReadsInFlight' = InTohost' + InHand' + hreads' + Len(hreplies') + InFromhost'
  BY DEF ReadsInFlight, InTohost, InHand, InFromhost
<1>5. Len(hreplies) \in Nat /\ Len(hreplies') = Len(hreplies')
  BY <1>4
<1>6. CASE HostPoll
  <2>1. /\ InTohost' = InTohost /\ InHand' = InHand /\ InFromhost' = InFromhost
        /\ hreads' = hreads /\ Len(hreplies') = Len(hreplies)
    BY <1>6 DEF HostPoll, InTohost, InHand, InFromhost
  <2>. QED  BY <1>1, <1>2, <1>3, <1>p, <2>1, Places DEF OneReadOutstanding
<1>7. CASE HostAck
  <2>1. hcmd = tohost
    BY <1>7 DEF HostAck, IInv, MailInv, AckInHand
  <2>2. /\ InTohost' = 0 /\ InHand = 0 /\ InHand' = InTohost /\ InFromhost' = InFromhost
        /\ hreads' = hreads /\ Len(hreplies') = Len(hreplies)
    BY <1>7, <2>1, CommandsDiffer DEF HostAck, InTohost, InHand, InFromhost
  <2>3. ReadsInFlight' = ReadsInFlight
    BY <1>4, <1>5, <1>p, <2>2, Places
  <2>. QED  BY <1>1, <1>2, <1>3, <2>3 DEF OneReadOutstanding
<1>8. CASE HostHandle
  <2>1. hcmd.op = "read" <=> hcmd = ReadCmd
    BY <1>4 DEF Commands, ReadCmd, NoCmd
  <2>2. /\ InTohost' = InTohost /\ InHand' = 0 /\ InFromhost' = InFromhost
        /\ hreads' = hreads + InHand /\ Len(hreplies') = Len(hreplies)
    BY <1>4, <1>8, <2>1 DEF HostHandle, InTohost, InHand, InFromhost
  <2>3. ReadsInFlight' = ReadsInFlight
    BY <1>4, <1>5, <1>p, <2>2, Places
  <2>. QED  BY <1>1, <1>2, <1>3, <2>3 DEF OneReadOutstanding
<1>9. CASE HostTick
  <2>1. /\ InTohost' = InTohost /\ InHand' = InHand /\ InFromhost' = InFromhost
    BY <1>9 DEF HostTick, InTohost, InHand, InFromhost
  <2>2. hreads' + Len(hreplies') = hreads + Len(hreplies)
        /\ hreads' \in Nat /\ Len(hreplies') \in Nat
    <3>1. CASE hreads > 0 /\ read < Len(typed)
      <4>1. hreads' = hreads - 1 /\ Len(hreplies') = Len(hreplies) + 1
        BY <1>4, <1>9, <3>1 DEF HostTick
      <4>. QED  BY <1>4, <1>5, <3>1, <4>1
    <3>2. CASE ~(hreads > 0 /\ read < Len(typed))
      BY <1>4, <1>9, <3>2 DEF HostTick
    <3>. QED  BY <3>1, <3>2
  <2>3. ReadsInFlight' = ReadsInFlight
    BY SMTT(30), <1>4, <1>5, <1>p, <2>1, <2>2, Places
  <2>. QED  BY <1>1, <1>2, <1>3, <2>3 DEF OneReadOutstanding
<1>10. CASE HostReply
  <2>1. /\ InTohost' = InTohost /\ InHand' = InHand /\ hreads' = hreads
    BY <1>10 DEF HostReply, InTohost, InHand
  <2>2. Len(hreplies') + InFromhost' = Len(hreplies) + InFromhost
        /\ InFromhost' \in {0, 1} /\ Len(hreplies') \in Nat
    <3>1. CASE hreplies # << >> /\ fromhost = NoReply
      <4>1. Head(hreplies) \in Replies /\ Len(Tail(hreplies)) = Len(hreplies) - 1
            /\ Len(hreplies) > 0
        BY <1>4, <3>1
      <4>2. Head(hreplies) # NoReply
        BY <4>1 DEF Replies, NoReply, ConsoleAssumption
      <4>3. InFromhost = 0 /\ InFromhost' = 1
        BY <1>10, <3>1, <4>2 DEF HostReply, InFromhost, NoReply
      <4>4. Len(hreplies') = Len(hreplies) - 1
        BY <1>10, <3>1, <4>1 DEF HostReply
      <4>. QED  BY <1>5, <4>1, <4>3, <4>4
    <3>2. CASE ~(hreplies # << >> /\ fromhost = NoReply)
      BY <1>4, <1>10, <3>2 DEF HostReply, InFromhost
    <3>. QED  BY <3>1, <3>2
  <2>3. ReadsInFlight' = ReadsInFlight
    BY SMTT(30), <1>4, <1>5, <1>p, <2>1, <2>2, Places
  <2>. QED  BY <1>1, <1>2, <1>3, <2>3 DEF OneReadOutstanding
<1>. QED  BY <1>6, <1>7, <1>8, <1>9, <1>10

\* A process stores a write: no read is in tohost before or after.
LEMMA ReadKeptByWriter ==
  ASSUME AtMostOneUnlocked, IInv, Paths, Windows, OneReadOutstanding, Paths',
         NEW p \in Procs, SendStore(p)
  PROVE  Windows' /\ OneReadOutstanding'
<1>1. tohost = NoCmd /\ NoCmd # ReadCmd /\ cmd[p] # ReadCmd
  BY StoreIsSafe, CommandsDiffer DEF IInv, Paths
<1>2. /\ \A x \in Pollers : pc'[x] = pc[x] /\ cmd'[x] = cmd[x]
      /\ UNCHANGED <<fromhost, read_pending, fh, hpc, hcmd, hreads, hreplies>>
      /\ tohost' # ReadCmd
  BY <1>1 DEF SendStore, IInv, TypeInv, TypeOK, HartTypeOK, Pollers
<1>3. Windows'
  BY <1>2 DEF Windows, Window
<1>4. ReadsInFlight' = ReadsInFlight
  BY <1>1, <1>2 DEF ReadsInFlight
<1>5. /\ SettingPending' <=> SettingPending
      /\ ClearingPending' <=> ClearingPending
  <2>1. /\ SettingPending <=> Setting("tick") \/ Setting("sched")
        /\ ClearingPending <=> Clearing("tick") \/ Clearing("sched")
    BY PollersOnly
  <2>2. /\ SettingPending' <=> Setting("tick")' \/ Setting("sched")'
        /\ ClearingPending' <=> Clearing("tick")' \/ Clearing("sched")'
    BY DEF Paths, Setting, Clearing, SettingPending, ClearingPending, SendSteps
  <2>. QED  BY <1>2, <2>1, <2>2 DEF Pollers, Setting, Clearing
<1>. QED  BY <1>2, <1>3, <1>4, <1>5 DEF OneReadOutstanding

\* A step that neither stores nor loads a mailbox word.
Elsewhere ==
  /\ UNCHANGED mail /\ UNCHANGED <<hpc, hcmd, hreads, hreplies, fh, read, got>>
  /\ typed' = typed \/ \E c \in Chars : typed' = Append(typed, c)
  /\ \A x \in Pollers :
       /\ cmd'[x] = cmd[x]
       /\ \/ pc'[x] = pc[x]
          \/ {pc[x], pc'[x]} \subseteq {"off", "run", "g_load", "u_ret"}

\* Every step is one of the lemmas'.
LEMMA StepKinds ==
  ASSUME TypeInv, ExclusionInv, Paths, [Next]_vars
  PROVE  \/ \E x \in Pollers : Polls(x)
         \/ HostPoll \/ HostAck \/ HostHandle \/ HostTick \/ HostReply
         \/ \E p \in Procs : SendStore(p)
         \/ Elsewhere
<1>t. pc \in [Contexts -> Steps] /\ cmd \in [Contexts -> Commands \cup {NoCmd}]
  BY DEF TypeInv, TypeOK, HartTypeOK
<1>1. CASE Tick \/ TickReturn \/ IdleReturn
  BY <1>t, <1>1 DEF Tick, TickReturn, IdleReturn, Pollers, Elsewhere
<1>2. CASE IdlePoll
  BY <1>t, <1>2 DEF IdlePoll, Pollers, Elsewhere, Running, ExclusionInv, ThreadState
<1>3. ASSUME NEW p \in Procs,
             \/ Dispatch(p) \/ Sleep(p) \/ NextChar(p) \/ EndOutput(p) \/ Spin(p)
             \/ \E b \in Buffers : \/ Uartwrite(p, b) \/ Printk(p, b)
                                   \/ \E on \in BOOLEAN : Panic(p, b, on)
      PROVE  Elsewhere
  <2>1. p \notin Pollers
    BY DEF Pollers, ConsoleAssumption
  <2>2. UNCHANGED mail /\ UNCHANGED <<hpc, hcmd, hreads, hreplies, fh, read, got, typed>>
    BY <1>3 DEF Dispatch, Sleep, NextChar, EndOutput, Spin, vars, Uartwrite, Printk, Panic
  <2>3. \A x \in Pollers : pc'[x] = pc[x] /\ cmd'[x] = cmd[x]
    BY <1>t, <1>3, <2>1 DEF Dispatch, Sleep, NextChar, EndOutput, Spin, vars, Uartwrite,
       Printk, Panic, Begin, StartSend, Pollers
  <2>. QED  BY <2>2, <2>3 DEF Elsewhere
<1>4. ASSUME NEW p \in Procs, SendWait(p) \/ SendDone(p)
      PROVE  Elsewhere
  BY <1>t, <1>4 DEF SendWait, SendDone, Elsewhere, Pollers, ConsoleAssumption
<1>5. ASSUME NEW c \in Chars, UserTypes(c)
      PROVE  Elsewhere
  BY <1>5 DEF UserTypes, Elsewhere
<1>6. CASE UNCHANGED vars
  BY <1>6 DEF vars, Elsewhere
<1>7. ASSUME NEW p \in Procs,
             \/ GetcLoad(p) \/ GetcClear(p) \/ GetcClearPending(p) \/ GetcCheck(p)
             \/ GetcSetPending(p) \/ \E e \in BOOLEAN : Consoleintr(p, e)
      PROVE  FALSE
  BY <1>7 DEF Paths, SendSteps, GetcLoad, GetcClear, GetcClearPending, GetcCheck,
              GetcSetPending, Consoleintr
<1>8. ASSUME NEW x \in Contexts
      PROVE  x \in Procs \/ x \in Pollers
  BY DEF Pollers
<1>. QED
  BY StepCases, <1>1, <1>2, <1>3, <1>4, <1>5, <1>6, <1>7, <1>8 DEF Polls

ReadInv == Paths /\ Windows /\ OneReadOutstanding

LEMMA ReadInit == Init => ReadInv
<1>. SUFFICES ASSUME Init PROVE ReadInv
  OBVIOUS
<1>1. Windows
  BY DEF Init, Windows, Window, Pollers
<1>2. ReadsInFlight = 0 /\ ~SettingPending /\ ~read_pending
  <2>1. InTohost = 0 /\ InHand = 0 /\ InFromhost = 0
    BY CommandsDiffer DEF Init, InTohost, InHand, InFromhost
  <2>2. hreads = 0 /\ Len(hreplies) = 0
    BY DEF Init
  <2>3. ~SettingPending /\ ~read_pending
    BY DEF Init, SettingPending
  <2>. QED  BY <2>1, <2>2, <2>3, Places
<1>. QED  BY <1>1, <1>2, PathsInit DEF ReadInv, OneReadOutstanding

LEMMA ReadStep ==
  ASSUME AtMostOneUnlocked, IInv, ReadInv, [Next]_vars
  PROVE  ReadInv'
<1>0. TypeInv /\ ExclusionInv /\ Paths /\ Windows /\ OneReadOutstanding
  BY DEF IInv, ReadInv
<1>1. Paths'
  BY <1>0, PathsStep
<1>2. ASSUME NEW x \in Pollers, Polls(x) PROVE Windows' /\ OneReadOutstanding'
  BY <1>0, <1>1, <1>2, ReadKeptByPoller
<1>3. ASSUME HostPoll \/ HostAck \/ HostHandle \/ HostTick \/ HostReply
      PROVE  Windows' /\ OneReadOutstanding'
  BY <1>0, <1>3, ReadMovedByHost
<1>4. ASSUME NEW p \in Procs, SendStore(p) PROVE Windows' /\ OneReadOutstanding'
  BY <1>0, <1>1, <1>4, ReadKeptByWriter
<1>5. ASSUME Elsewhere PROVE Windows' /\ OneReadOutstanding'
  BY <1>0, <1>1, <1>5, StepsElsewhere DEF Elsewhere
<1>6. Windows' /\ OneReadOutstanding'
  BY <1>0, <1>2, <1>3, <1>4, <1>5, StepKinds
<1>. QED  BY <1>1, <1>6 DEF ReadInv

\* At most one console read is in flight, and read_pending tells whether one is
\* outside the two windows where htif_getc updates it.
THEOREM OneReadIsOutstanding ==
  ASSUME AtMostOneUnlocked PROVE Spec => []OneReadOutstanding
<1>1. IInv /\ ReadInv /\ [Next]_vars => (IInv /\ ReadInv)'
  BY IInvStep, ReadStep
<1>2. Init => IInv /\ ReadInv
  BY IInvInit, ReadInit
<1>3. ReadInv => OneReadOutstanding
  BY DEF ReadInv
<1>. QED  BY <1>1, <1>2, <1>3, PTL DEF Spec

-----------------------------------------------------------------------------
(* Input.                                                                  *)

Key(n) == [mark |-> 1, ch |-> typed[n]]

Holding(x) == pc[x] \in {"g_clearpend", "consoleintr"}

\* Every key read but the last has reached consoleintr, in order; the last is
\* on its way back in one of three places, or has reached it too.
Delivered ==
  /\ read \in 0..Len(typed) /\ Len(got) \in {read, read - 1}
  /\ \A k \in 1..Len(got) : got[k] = typed[k]
  /\ \A x \in Pollers : Holding(x) => Len(got) = read - 1 /\ fh[x] = Key(read)
  /\ fromhost # NoReply => Len(got) = read - 1 /\ fromhost = Key(read)
  /\ hreplies # << >> => Len(got) = read - 1 /\ Head(hreplies) = Key(read)
  /\ Len(got) = read - 1 =>
       fromhost # NoReply \/ hreplies # << >> \/ \E x \in Pollers : Holding(x)

LEMMA DeliveredInit == Init => Delivered
BY DEF Init, Delivered, Holding, Pollers

\* While a poller holds a character no read is on its way.
LEMMA HeldAlone ==
  ASSUME IInv, ReadInv, NEW x \in Pollers, Holding(x)
  PROVE  ReadsInFlight = 0
<1>1. pc["tick"] # "off" => ~intr /\ pc["sched"] = "run"
  BY DEF IInv, TypeInv, TypeOK, HartTypeOK, ExclusionInv, TickMasked, Preempted
<1>2. Setting(x) <=> FALSE
  BY DEF Setting, Holding
<1>3. ASSUME NEW y \in Pollers, y # x PROVE ~Setting(y)
  BY <1>1, <1>3 DEF Setting, Holding, Pollers
<1>4. ~SettingPending
  BY <1>2, <1>3, PollersOnly DEF ReadInv, Pollers
<1>5. read_pending => ClearingPending
  BY DEF ReadInv, Windows, Window, Holding, ClearingPending, Pollers
<1>. QED  BY <1>4, <1>5 DEF ReadInv, OneReadOutstanding

\* Wherever a read is, it is the only one.
LEMMA ReadsApart ==
  ASSUME IInv, ReadInv
  PROVE  /\ hreads > 0 => /\ hreplies = << >> /\ fromhost = NoReply
                          /\ \A x \in Pollers : ~Holding(x)
         /\ hreplies # << >> => /\ fromhost = NoReply /\ Len(hreplies) = 1
                                /\ \A x \in Pollers : ~Holding(x)
         /\ fromhost # NoReply => \A x \in Pollers : ~Holding(x)
<1>1. hreads \in Nat /\ hreplies \in Seq(Replies) /\ Len(hreplies) \in Nat
  BY DEF IInv, TypeInv, TypeOK, HostTypeOK
<1>2. ReadsInFlight = 0 \/ ReadsInFlight = 1
  BY DEF ReadInv, OneReadOutstanding
<1>3. /\ hreads + Len(hreplies) + InFromhost <= 1
      /\ ReadsInFlight = 0 => hreads + Len(hreplies) + InFromhost = 0
  BY <1>1, <1>2, Places
<1>4. /\ hreplies # << >> => Len(hreplies) >= 1
      /\ fromhost # NoReply => InFromhost = 1
      /\ InFromhost \in {0, 1}
  BY <1>1, Places DEF InFromhost
<1>5. hreads > 0 \/ hreplies # << >> \/ fromhost # NoReply => ReadsInFlight # 0
  <2>1. CASE hreads > 0  BY <1>1, <1>3, <1>4, <2>1
  <2>2. CASE hreplies # << >>
    <3>1. Len(hreplies) >= 1  BY <1>4, <2>2
    <3>. HIDE DEF InFromhost
    <3>. QED  BY <1>1, <1>3, <1>4, <3>1
  <2>3. CASE fromhost # NoReply
    <3>1. InFromhost = 1  BY <1>4, <2>3
    <3>. QED  BY <1>1, <1>3, <3>1
  <2>. QED  BY <2>1, <2>2, <2>3
<1>6. hreads > 0 \/ hreplies # << >> \/ fromhost # NoReply
        => \A x \in Pollers : ~Holding(x)
  BY <1>5, HeldAlone
<1>7. hreads > 0 => hreplies = << >> /\ fromhost = NoReply
  <2>1. CASE hreads > 0
    <3>1. ~(Len(hreplies) >= 1) /\ InFromhost # 1
      BY <1>1, <1>3, <1>4, <2>1
    <3>. QED  BY <1>4, <3>1
  <2>. QED  BY <2>1
<1>8. hreplies # << >> => fromhost = NoReply /\ Len(hreplies) = 1
  <2>1. CASE hreplies # << >>
    <3>1. Len(hreplies) >= 1
      BY <1>4, <2>1
    <3>. HIDE DEF InFromhost
    <3>2. \A r, l \in Nat, i \in {0, 1} :
            r + l + i <= 1 /\ l >= 1 => i # 1 /\ l = 1
      OBVIOUS
    <3>3. InFromhost # 1 /\ Len(hreplies) = 1
      BY <1>1, <1>3, <1>4, <3>1, <3>2
    <3>. QED  BY <1>4, <3>3
  <2>. QED  BY <2>1
<1>. QED  BY <1>6, <1>7, <1>8

\* What the places of a key know of the types.
LEMMA InputTypes ==
  ASSUME IInv, Delivered
  PROVE  /\ read \in Nat /\ typed \in Seq(Chars) /\ got \in Seq(Chars)
         /\ hreplies \in Seq(Replies) /\ Len(got) \in Nat /\ Len(typed) \in Nat
         /\ read <= Len(typed) /\ (Len(got) = read \/ Len(got) = read - 1)
<1>1. /\ read \in Nat /\ typed \in Seq(Chars) /\ got \in Seq(Chars)
      /\ hreplies \in Seq(Replies)
  BY DEF IInv, TypeInv, TypeOK, HostTypeOK, HartTypeOK
<1>2. Len(got) \in Nat /\ Len(typed) \in Nat
  BY <1>1
<1>3. read <= Len(typed)
  BY <1>2 DEF Delivered
<1>. QED  BY <1>1, <1>2, <1>3 DEF Delivered

LEMMA KeysUntouched ==
  ASSUME Delivered, UNCHANGED <<fromhost, hreplies, read, typed, got>>,
         \A y \in Pollers : /\ Holding(y)' <=> Holding(y)
                            /\ Holding(y) => fh'[y] = fh[y]
  PROVE  Delivered'
<1>1. \A n : Key(n)' = Key(n)
  BY DEF Key
<1>. HIDE DEF Holding, Key
<1>2. Key(read)' = Key(read)
  BY DEF Key
<1>. QED  BY <1>2 DEF Delivered

\* Keys are typed behind those that have been read.
LEMMA KeyTyped ==
  ASSUME IInv, Delivered, UNCHANGED <<fromhost, hreplies, read, got, fh>>,
         typed' = typed \/ \E c \in Chars : typed' = Append(typed, c),
         \A y \in Pollers : Holding(y)' <=> Holding(y)
  PROVE  Delivered'
<1>1. /\ read \in Nat /\ typed \in Seq(Chars) /\ got \in Seq(Chars)
      /\ hreplies \in Seq(Replies) /\ Len(got) \in Nat /\ Len(typed) \in Nat
      /\ read <= Len(typed) /\ (Len(got) = read \/ Len(got) = read - 1)
  BY InputTypes
<1>2. /\ Len(typed') \in Nat /\ Len(typed) <= Len(typed')
      /\ \A k \in 1..Len(typed) : typed'[k] = typed[k]
  BY <1>1
<1>3. Len(got) = read - 1 => Key(read)' = Key(read)
  <2>1. Len(got) = read - 1 => read \in 1..Len(typed)
    BY <1>1
  <2>. QED  BY <1>2, <2>1 DEF Key
<1>4. \A k \in 1..Len(got) : got[k] = typed'[k]
  <2>1. \A k \in 1..Len(got) : k \in 1..Len(typed)
    BY <1>1
  <2>. QED  BY <1>2, <2>1 DEF Delivered
<1>5. read \in 0..Len(typed')
  BY <1>1, <1>2
<1>. HIDE DEF Holding, Key
<1>. QED  BY <1>3, <1>4, <1>5 DEF Delivered

LEMMA DeliveredByPoller ==
  ASSUME IInv, ReadInv, Delivered, NEW x \in Pollers, Polls(x)
  PROVE  Delivered'
<1>1. pc \in [Contexts -> Steps] /\ fh \in [Contexts -> Replies \cup {NoReply}]
  BY DEF IInv, TypeInv, TypeOK, HartTypeOK
<1>2. /\ Running = x /\ \A y \in Contexts \ {x} : pc'[y] = pc[y] /\ fh'[y] = fh[y]
      /\ UNCHANGED <<hreplies, read, typed>> /\ x \in Contexts
  BY <1>1 DEF Polls, Pollers, SendWait, SendStore, SendDone, GetcLoad, GetcClear,
     GetcClearPending, GetcCheck, GetcSetPending, Consoleintr, StartSend
<1>3. \A y \in Pollers \ {x} : ~Holding(y) /\ ~Holding(y)'
  BY <1>2, PollsAlone DEF IInv, ReadInv, Holding, Pollers
<1>4. ASSUME UNCHANGED <<fromhost, got>>, Holding(x)' <=> Holding(x),
             Holding(x) => fh'[x] = fh[x]
      PROVE  Delivered'
  <2>. HIDE DEF Holding
  <2>. QED  BY <1>2, <1>3, <1>4, KeysUntouched
<1>5. CASE SendWait(x) \/ SendStore(x) \/ SendDone(x)
  BY <1>1, <1>4, <1>5 DEF SendWait, SendStore, SendDone, Holding, ReturnStep, Pollers
<1>6. CASE GetcLoad(x)
  BY <1>1, <1>4, <1>6 DEF GetcLoad, Holding, Pollers
<1>7. CASE GetcCheck(x) \/ GetcSetPending(x)
  BY <1>1, <1>4, <1>7 DEF GetcCheck, GetcSetPending, StartSend, Holding, Pollers
<1>8. CASE GetcClearPending(x)
  <2>1. Holding(x)
    BY <1>8 DEF GetcClearPending, Holding
  <2>2. fh[x].mark = 1
    BY <2>1 DEF Delivered, Key
  <2>. QED  BY <1>1, <1>4, <1>8, <2>1, <2>2 DEF GetcClearPending, Holding, Pollers
<1>9. CASE GetcClear(x)
  <2>1. /\ pc[x] = "g_clear" /\ Holding(x)' /\ fromhost' = NoReply
        /\ fh' = fh /\ got' = got
    BY <1>1, <1>9 DEF GetcClear, Holding, Pollers
  <2>2. fromhost # NoReply /\ fh[x] = fromhost
    BY <2>1 DEF ReadInv, Windows, Window
  <2>3. Len(got) = read - 1 /\ fh[x] = Key(read) /\ hreplies = << >>
    BY <2>2, ReadsApart DEF Delivered
  <2>4. Key(read)' = Key(read)
    BY <1>2 DEF Key
  <2>. HIDE DEF Holding, Key
  <2>. QED  BY <1>2, <1>3, <2>1, <2>3, <2>4 DEF Delivered
<1>10. ASSUME NEW e \in BOOLEAN, Consoleintr(x, e) PROVE Delivered'
  <2>1. /\ Holding(x) /\ ~Holding(x)' /\ got' = Append(got, fh[x].ch)
        /\ fromhost' = fromhost
    BY <1>1, <1>10 DEF Consoleintr, StartSend, Holding, Pollers
  <2>2. Len(got) = read - 1 /\ fh[x].ch = typed[read]
    BY <2>1 DEF Delivered, Key
  <2>3. fromhost = NoReply /\ hreplies = << >>
    BY <2>1, ReadsApart
  <2>4. read \in Nat /\ got \in Seq(Chars) /\ Len(got) \in Nat
    BY InputTypes
  <2>5. Len(got') = read /\ \A k \in 1..Len(got') : got'[k] = typed[k]
    <3>1. Len(got') = Len(got) + 1 /\ got'[Len(got) + 1] = typed[read]
          /\ \A k \in 1..Len(got) : got'[k] = got[k]
      BY <2>1, <2>2, <2>4
    <3>2. Len(got) + 1 = read
      BY <2>2, <2>4
    <3>. QED  BY <2>4, <3>1, <3>2 DEF Delivered
  <2>6. Len(got') # read - 1
    BY <2>4, <2>5
  <2>. HIDE DEF Holding, Key
  <2>. QED  BY <1>2, <1>3, <2>1, <2>3, <2>5, <2>6 DEF Delivered
<1>. QED  BY <1>5, <1>6, <1>7, <1>8, <1>9, <1>10 DEF Polls

LEMMA DeliveredByHost ==
  ASSUME IInv, ReadInv, Delivered,
         HostPoll \/ HostAck \/ HostHandle \/ HostTick \/ HostReply
  PROVE  Delivered'
<1>1. UNCHANGED <<pc, fh, got, typed>>
  BY DEF HostPoll, HostAck, HostHandle, HostTick, HostReply
<1>2. \A x \in Pollers : Holding(x)' <=> Holding(x)
  BY <1>1 DEF Holding
<1>3. /\ read \in Nat /\ typed \in Seq(Chars) /\ got \in Seq(Chars)
      /\ hreplies \in Seq(Replies) /\ Len(got) \in Nat /\ Len(typed) \in Nat
      /\ read <= Len(typed) /\ (Len(got) = read \/ Len(got) = read - 1)
  BY InputTypes
<1>. HIDE DEF Holding
<1>4. CASE UNCHANGED <<fromhost, hreplies, read>>
  BY <1>1, <1>2, <1>4, KeysUntouched
<1>5. CASE HostTick /\ hreads > 0 /\ read < Len(typed)
  <2>1. hreplies = << >> /\ fromhost = NoReply /\ \A x \in Pollers : ~Holding(x)
    BY <1>5, ReadsApart
  <2>2. Len(got) = read
    BY <1>3, <2>1 DEF Delivered
  <2>3. read' = read + 1 /\ fromhost' = fromhost
        /\ hreplies' = Append(hreplies, Key(read + 1))
    BY <1>5 DEF HostTick, Key
  <2>4. Key(read)' = Key(read + 1)
    BY <1>1, <2>3 DEF Key
  <2>5. Head(hreplies') = Key(read)' /\ hreplies' # << >>
    BY <1>3, <2>1, <2>3, <2>4
  <2>6. read' \in 0..Len(typed') /\ Len(got') = read' - 1
    BY <1>1, <1>3, <1>5, <2>2, <2>3
  <2>. HIDE DEF Key
  <2>. QED  BY <1>1, <1>2, <1>3, <2>1, <2>3, <2>5, <2>6 DEF Delivered
<1>6. CASE HostReply /\ hreplies # << >> /\ fromhost = NoReply
  <2>1. Len(hreplies) = 1 /\ \A x \in Pollers : ~Holding(x)
    BY <1>6, ReadsApart
  <2>2. Len(got) = read - 1 /\ Head(hreplies) = Key(read)
    BY <1>6 DEF Delivered
  <2>3. fromhost' = Key(read) /\ hreplies' = << >> /\ read' = read
    <3>0. hreplies \in Seq(Replies) /\ hreplies # << >> /\ Len(hreplies) = 1
      BY <1>3, <1>6, <2>1
    <3>1. Tail(hreplies) \in Seq(Replies) /\ Len(Tail(hreplies)) = 0
      BY <3>0
    <3>2. Tail(hreplies) = << >>
      BY <3>1
    <3>. QED  BY <1>6, <2>2, <3>2 DEF HostReply
  <2>4. Key(read)' = Key(read) /\ Key(read) # NoReply
    BY <1>1, <2>3 DEF Key, NoReply
  <2>. HIDE DEF Key
  <2>. QED  BY <1>1, <1>2, <2>1, <2>2, <2>3, <2>4 DEF Delivered
<1>. QED  BY <1>4, <1>5, <1>6 DEF HostPoll, HostAck, HostHandle, HostTick, HostReply

LEMMA DeliveredStep ==
  ASSUME IInv, ReadInv, Delivered, [Next]_vars
  PROVE  Delivered'
<1>1. TypeInv /\ ExclusionInv /\ Paths
  BY DEF IInv, ReadInv
<1>2. ASSUME NEW p \in Procs, SendStore(p) PROVE Delivered'
  <2>1. UNCHANGED <<fromhost, hreplies, read, typed, got, fh>>
    BY <1>2 DEF SendStore
  <2>2. \A y \in Pollers : Holding(y)' <=> Holding(y)
    BY <1>2 DEF SendStore, Holding, Pollers, ConsoleAssumption, IInv, TypeInv, TypeOK,
                HartTypeOK
  <2>. HIDE DEF Holding
  <2>. QED  BY <2>1, <2>2, KeysUntouched
<1>3. CASE Elsewhere
  <2>1. \A y \in Pollers : Holding(y)' <=> Holding(y)
    BY <1>3 DEF Elsewhere, Holding
  <2>. QED  BY <1>3, <2>1, KeyTyped DEF Elsewhere
<1>. QED  BY <1>1, <1>2, <1>3, DeliveredByPoller, DeliveredByHost, StepKinds

-----------------------------------------------------------------------------
(* The console service.  A write is called when htif_send is entered, takes *)
(* effect when the host takes it out of tohost, and returns with htif_send. *)

\* What the steps need to know of the types, and of a context outside
\* htif_send: it has no write under way.
LEMMA CallTypes ==
  ASSUME IInv
  PROVE  /\ pc \in [Contexts -> Steps] /\ cmd \in [Contexts -> Commands \cup {NoCmd}]
         /\ tohost \in Commands \cup {NoCmd} /\ owner \in Contexts
         /\ buf \in [Threads -> Seq(Chars)]
BY DEF IInv, TypeInv, TypeOK, MailTypeOK, HartTypeOK

LEMMA IdleOutside ==
  ASSUME Paths, NEW x \in Contexts, pc[x] \notin SendSteps
  PROVE  cmd[x] = NoCmd /\ CallOf(x) = Service!Idle
BY DEF Paths, CallOf, NoCmd, Service!Idle

\* A step that moves one context x and leaves what the service sees.
LEMMA Silent ==
  ASSUME NEW x \in Contexts, CallOf(x)' = CallOf(x),
         \A y \in Contexts \ {x} : pc'[y] = pc[y] /\ cmd'[y] = cmd[y],
         UNCHANGED <<tohost, owner, shown, hpc, hcmd, typed, got>>
  PROVE  UNCHANGED Service!vars
<1>1. ASSUME NEW y \in Contexts PROVE CallOf(y)' = CallOf(y)
  <2>1. CASE y = x
    BY <2>1
  <2>2. CASE y # x
    BY <2>2 DEF CallOf
  <2>. QED  BY <2>1, <2>2
<1>2. Accepted' = Accepted
  BY DEF Accepted
<1>. HIDE DEF CallOf, Accepted
<1>. QED  BY <1>1, <1>2 DEF Service!vars

\* A step of the service that changes the call of x alone.
LEMMA CallSet ==
  ASSUME NEW x \in Contexts, NEW c, CallOf(x)' = c,
         \A y \in Contexts \ {x} : CallOf(y)' = CallOf(y)
  PROVE  [y \in Contexts |-> CallOf(y)]'
           = [[y \in Contexts |-> CallOf(y)] EXCEPT ![x] = c]
<1>. HIDE DEF CallOf
<1>1. \A y \in Contexts : CallOf(y)' = IF y = x THEN c ELSE CallOf(y)
  OBVIOUS
<1>. QED  BY <1>1

LEMMA OthersKept ==
  ASSUME NEW x \in Contexts, UNCHANGED <<tohost, owner>>,
         \A y \in Contexts \ {x} : pc'[y] = pc[y] /\ cmd'[y] = cmd[y]
  PROVE  \A y \in Contexts \ {x} : CallOf(y)' = CallOf(y)
BY DEF CallOf

LEMMA ServiceInit == Init => Service!Init
<1>. SUFFICES ASSUME Init PROVE Service!Init
  OBVIOUS
<1>1. \A x \in Contexts : CallOf(x) = Service!Idle
  BY DEF Init, CallOf, NoCmd, Service!Idle
<1>2. Accepted = << >>
  BY DEF Init, Accepted
<1>3. typed = << >> /\ got = << >>
  BY DEF Init
<1>. HIDE DEF CallOf, Accepted
<1>. QED  BY <1>1, <1>2, <1>3 DEF Service!Init

\* htif_send: its store is invisible, for the host has not consumed it yet; its
\* return is that of the write, or invisible for a read.
LEMMA SendSimulated ==
  ASSUME AtMostOneUnlocked, IInv, Paths, NEW x \in Contexts,
         SendWait(x) \/ SendStore(x) \/ SendDone(x)
  PROVE  [Service!Next]_(Service!vars)
<1>t. /\ pc \in [Contexts -> Steps] /\ cmd \in [Contexts -> Commands \cup {NoCmd}]
      /\ tohost \in Commands \cup {NoCmd} /\ owner \in Contexts
  BY CallTypes
<1>1. CASE SendWait(x)
  <2>1. /\ UNCHANGED <<tohost, owner, shown, hpc, hcmd, typed, got>>
        /\ \A y \in Contexts \ {x} : pc'[y] = pc[y] /\ cmd'[y] = cmd[y]
    BY <1>t, <1>1 DEF SendWait
  <2>2. CallOf(x)' = CallOf(x)
    BY <1>t, <1>1 DEF SendWait, CallOf
  <2>. QED  BY <2>1, <2>2, Silent
<1>2. CASE SendStore(x)
  <2>1. tohost = NoCmd
    BY <1>2, StoreIsSafe DEF IInv
  <2>2. cmd[x] # NoCmd
    BY <1>2 DEF Paths, SendStore, SendSteps
  <2>3. ASSUME NEW y \in Contexts PROVE CallOf(y)' = CallOf(y)
    <3>1. CASE y = x
      BY <1>t, <1>2, <2>2, <3>1 DEF SendStore, CallOf
    <3>2. CASE y # x
      BY <1>t, <1>2, <2>1, <3>2 DEF SendStore, CallOf
    <3>. QED  BY <3>1, <3>2
  <2>4. Accepted' = Accepted /\ UNCHANGED <<typed, got>>
    BY <1>2 DEF SendStore, Accepted
  <2>. HIDE DEF CallOf, Accepted
  <2>. QED  BY <2>3, <2>4 DEF Service!vars
<1>3. CASE SendDone(x)
  <2>1. /\ UNCHANGED <<tohost, owner, shown, hpc, hcmd, typed, got>>
        /\ \A y \in Contexts \ {x} : pc'[y] = pc[y] /\ cmd'[y] = cmd[y]
    BY <1>t, <1>3 DEF SendDone
  <2>2. CallOf(x)' = Service!Idle
    BY <1>t, <1>3 DEF SendDone, CallOf, NoCmd, Service!Idle
  <2>3. CASE cmd[x].op = "write"
    <3>1. CallOf(x).st = "done"
      BY <1>3, <2>3 DEF SendDone, CallOf
    <3>2. \A y \in Contexts \ {x} : CallOf(y)' = CallOf(y)
      BY <2>1, OthersKept
    <3>3. [y \in Contexts |-> CallOf(y)]'
            = [[y \in Contexts |-> CallOf(y)] EXCEPT ![x] = Service!Idle]
      BY <2>2, <3>2, CallSet
    <3>4. Accepted' = Accepted
      BY <2>1 DEF Accepted
    <3>. HIDE DEF CallOf, Accepted
    <3>5. Service!Return(x)
      BY <2>1, <3>1, <3>3, <3>4 DEF Service!Return
    <3>. QED  BY <3>5 DEF Service!Next
  <2>4. CASE cmd[x].op # "write"
    <3>1. CallOf(x) = Service!Idle
      BY <2>4 DEF CallOf, Service!Idle
    <3>. QED  BY <2>1, <2>2, <3>1, Silent
  <2>. QED  BY <2>3, <2>4
<1>. QED  BY <1>1, <1>2, <1>3

\* consoleintr receives the next key typed, and calls a write if it echoes it.
LEMMA ReceiveSimulated ==
  ASSUME IInv, ReadInv, Delivered, NEW x \in Contexts, NEW e \in BOOLEAN,
         Consoleintr(x, e)
  PROVE  Service!Next
<1>t. /\ pc \in [Contexts -> Steps] /\ cmd \in [Contexts -> Commands \cup {NoCmd}]
      /\ fh \in [Contexts -> Replies \cup {NoReply}]
  BY DEF IInv, TypeInv, TypeOK, HartTypeOK
<1>1. pc[x] = "consoleintr" /\ x \in Pollers /\ Holding(x)
  <2>1. pc[x] = "consoleintr"
    BY <1>t DEF Consoleintr
  <2>. QED  BY <2>1 DEF ReadInv, Paths, Pollers, SendSteps, Holding
<1>2. cmd[x] = NoCmd /\ CallOf(x) = Service!Idle
  BY <1>1, IdleOutside DEF ReadInv, SendSteps
<1>3. Len(got) = read - 1 /\ fh[x].ch = typed[read]
  BY <1>1 DEF Delivered, Key
<1>4. Len(got) < Len(typed) /\ read = Len(got) + 1
  <2>1. read \in Nat /\ Len(got) \in Nat /\ Len(typed) \in Nat /\ read <= Len(typed)
    BY InputTypes
  <2>. QED  BY <1>3, <2>1
<1>5. got' = Append(got, typed[Len(got) + 1])
  BY <1>3, <1>4 DEF Consoleintr
<1>6. /\ UNCHANGED <<tohost, owner, shown, hpc, hcmd, typed>>
      /\ \A y \in Contexts \ {x} : pc'[y] = pc[y] /\ cmd'[y] = cmd[y]
  BY <1>t DEF Consoleintr, StartSend
<1>7. \A y \in Contexts \ {x} : CallOf(y)' = CallOf(y)
  BY <1>6, OthersKept
<1>8. Accepted' = Accepted
  BY <1>6 DEF Accepted
<1>9. CASE e
  <2>1. pc'[x] = "s_wait" /\ cmd'[x] = Write(fh[x].ch)
    BY <1>t, <1>9 DEF Consoleintr, StartSend
  <2>2. CallOf(x)' = [st |-> "called", ch |-> typed[Len(got) + 1]]
    BY <1>3, <1>4, <2>1 DEF CallOf, Write
  <2>3. [y \in Contexts |-> CallOf(y)]'
          = [[y \in Contexts |-> CallOf(y)]
               EXCEPT ![x] = [st |-> "called", ch |-> typed[Len(got) + 1]]]
    BY <1>7, <2>2, CallSet
  <2>. HIDE DEF CallOf, Accepted
  <2>4. Service!ReceiveAndEcho(x)
    BY <1>2, <1>4, <1>5, <1>6, <1>8, <2>3 DEF Service!ReceiveAndEcho
  <2>. QED  BY <2>4 DEF Service!Next
<1>10. CASE ~e
  <2>1. cmd'[x] = cmd[x]
    BY <1>10 DEF Consoleintr
  <2>2. CallOf(x)' = CallOf(x)
    BY <1>2, <2>1 DEF CallOf, NoCmd, Service!Idle
  <2>3. [y \in Contexts |-> CallOf(y)]' = [y \in Contexts |-> CallOf(y)]
    BY <1>7, <2>2
  <2>. HIDE DEF CallOf, Accepted
  <2>4. Service!Receive
    BY <1>4, <1>5, <1>6, <1>8, <2>3 DEF Service!Receive
  <2>. QED  BY <2>4 DEF Service!Next
<1>. QED  BY <1>9, <1>10

\* The output loops call a write for each character of the buffer.
LEMMA NextCharSimulated ==
  ASSUME IInv, ReadInv, NEW p \in Procs, NextChar(p)
  PROVE  Service!Next
<1>t. /\ pc \in [Contexts -> Steps] /\ cmd \in [Contexts -> Commands \cup {NoCmd}]
      /\ buf \in [Threads -> Seq(Chars)]
  BY CallTypes
<1>1. pc[p] = "b_next" /\ buf[p] # << >>
  BY DEF NextChar
<1>2. cmd[p] = NoCmd /\ CallOf(p) = Service!Idle
  BY <1>1, IdleOutside DEF ReadInv, SendSteps
<1>3. PICK c \in Chars : c = Head(buf[p])
  BY <1>t, <1>1
<1>4. pc'[p] = "s_wait" /\ cmd'[p] = Write(c)
  BY <1>t, <1>3 DEF NextChar, StartSend
<1>5. /\ UNCHANGED <<tohost, owner, shown, hpc, hcmd, typed, got>>
      /\ \A y \in Contexts \ {p} : pc'[y] = pc[y] /\ cmd'[y] = cmd[y]
  BY <1>t DEF NextChar, StartSend
<1>6. CallOf(p)' = [st |-> "called", ch |-> c]
  BY <1>4 DEF CallOf, Write
<1>7. \A y \in Contexts \ {p} : CallOf(y)' = CallOf(y)
  BY <1>5, OthersKept
<1>8. [y \in Contexts |-> CallOf(y)]'
        = [[y \in Contexts |-> CallOf(y)] EXCEPT ![p] = [st |-> "called", ch |-> c]]
  BY <1>6, <1>7, CallSet
<1>9. Accepted' = Accepted
  BY <1>5 DEF Accepted
<1>. HIDE DEF CallOf, Accepted
<1>10. Service!Call(p, c)
  BY <1>2, <1>5, <1>8, <1>9 DEF Service!Call
<1>. QED  BY <1>10 DEF Service!Next

\* A write takes effect when the host takes it out of tohost.
LEMMA AckSimulated ==
  ASSUME IInv, HostAck
  PROVE  [Service!Next]_(Service!vars)
<1>t. owner \in Contexts
  BY CallTypes
<1>1. /\ tohost # NoCmd /\ hcmd = tohost /\ hpc = "ack"
      /\ pc[owner] = "s_done" /\ tohost = cmd[owner]
  BY DEF HostAck, IInv, MailInv, AckInHand, StoredByOwner
<1>2. /\ tohost' = NoCmd /\ hpc' = "handle"
      /\ UNCHANGED <<pc, cmd, owner, hcmd, shown, typed, got>>
  BY DEF HostAck
<1>3. \A y \in Contexts \ {owner} : CallOf(y)' = CallOf(y)
  BY <1>2 DEF CallOf
<1>4. CASE hcmd.op = "write"
  <2>1. CallOf(owner) = [st |-> "called", ch |-> hcmd.ch]
    BY <1>1, <1>4 DEF CallOf
  <2>2. CallOf(owner)' = [st |-> "done", ch |-> hcmd.ch]
    BY <1>1, <1>2, <1>4 DEF CallOf
  <2>3. Accepted = shown /\ Accepted' = Append(shown, hcmd.ch)
    BY <1>1, <1>2, <1>4 DEF Accepted
  <2>4. PICK x \in Contexts : x = owner
    BY <1>t
  <2>5. [y \in Contexts |-> CallOf(y)]'
          = [[y \in Contexts |-> CallOf(y)] EXCEPT ![x] = [st |-> "done", ch |-> hcmd.ch]]
    <3>1. CallOf(x)' = [st |-> "done", ch |-> hcmd.ch]
      BY <1>2, <2>2, <2>4 DEF CallOf
    <3>. QED  BY <1>3, <2>4, <3>1, CallSet
  <2>6. [[y \in Contexts |-> CallOf(y)] EXCEPT ![x] = [st |-> "done", ch |-> hcmd.ch]]
          = [[y \in Contexts |-> CallOf(y)] EXCEPT ![x].st = "done"]
    <3>. HIDE DEF CallOf
    <3>1. CallOf(x) = [st |-> "called", ch |-> hcmd.ch]
      BY <2>1, <2>4
    <3>2. [CallOf(x) EXCEPT !.st = "done"] = [st |-> "done", ch |-> hcmd.ch]
      BY <3>1
    <3>. QED  BY <3>2
  <2>. HIDE DEF CallOf, Accepted
  <2>7. Service!Effect(x)
    BY <1>2, <2>1, <2>3, <2>4, <2>5, <2>6 DEF Service!Effect
  <2>. QED  BY <2>7 DEF Service!Next
<1>5. CASE hcmd.op # "write"
  <2>1. CallOf(owner)' = CallOf(owner)
    BY <1>1, <1>2, <1>5 DEF CallOf
  <2>2. Accepted' = Accepted /\ UNCHANGED <<typed, got>>
    BY <1>1, <1>2, <1>5 DEF Accepted
  <2>. HIDE DEF CallOf, Accepted
  <2>. QED  BY <1>2, <1>3, <2>1, <2>2 DEF Service!vars
<1>. QED  BY <1>4, <1>5

\* The host's other steps do not reach the service.
LEMMA HostSimulated ==
  ASSUME HostPoll \/ HostHandle \/ HostTick \/ HostReply
  PROVE  UNCHANGED Service!vars
<1>1. UNCHANGED <<tohost, pc, cmd, owner, typed, got>>
  BY DEF HostPoll, HostHandle, HostTick, HostReply
<1>2. \A y \in Contexts : CallOf(y)' = CallOf(y)
  BY <1>1 DEF CallOf
<1>3. Accepted' = Accepted
  BY DEF Accepted, HostPoll, HostHandle, HostTick, HostReply, NoCmd
<1>. HIDE DEF CallOf, Accepted
<1>. QED  BY <1>1, <1>2, <1>3 DEF Service!vars

LEMMA ServiceStep ==
  ASSUME AtMostOneUnlocked, IInv, ReadInv, Delivered, [Next]_vars
  PROVE  [Service!Next]_(Service!vars)
<1>t. /\ pc \in [Contexts -> Steps] /\ cmd \in [Contexts -> Commands \cup {NoCmd}]
  BY CallTypes
<1>p. Paths /\ ThreadState
  BY DEF ReadInv, IInv, ExclusionInv
\* A context that stays outside htif_send.
<1>0. ASSUME NEW x \in Contexts, pc[x] \notin SendSteps, cmd'[x].op # "write",
             \A y \in Contexts \ {x} : pc'[y] = pc[y] /\ cmd'[y] = cmd[y],
             UNCHANGED <<tohost, owner, shown, hpc, hcmd, typed, got>>
      PROVE  UNCHANGED Service!vars
  <2>1. CallOf(x) = Service!Idle
    BY <1>p, <1>0, IdleOutside
  <2>2. CallOf(x)' = Service!Idle
    BY <1>0 DEF CallOf, Service!Idle
  <2>. QED  BY <1>0, <2>1, <2>2, Silent
<1>1. ASSUME NEW x \in Contexts,
             \/ GetcLoad(x) \/ GetcClear(x) \/ GetcClearPending(x)
             \/ GetcCheck(x) \/ GetcSetPending(x)
      PROVE  UNCHANGED Service!vars
  <2>1. pc[x] \notin SendSteps
    BY <1>1 DEF GetcLoad, GetcClear, GetcClearPending, GetcCheck, GetcSetPending,
                SendSteps
  <2>2. cmd[x] = NoCmd
    BY <1>p, <2>1, IdleOutside
  <2>3. cmd'[x].op # "write"
    BY <1>t, <1>1, <2>2 DEF GetcLoad, GetcClear, GetcClearPending, GetcCheck,
       GetcSetPending, StartSend, NoCmd, ReadCmd
  <2>4. /\ UNCHANGED <<tohost, owner, shown, hpc, hcmd, typed, got>>
        /\ \A y \in Contexts \ {x} : pc'[y] = pc[y] /\ cmd'[y] = cmd[y]
    BY <1>t, <1>1 DEF GetcLoad, GetcClear, GetcClearPending, GetcCheck,
       GetcSetPending, StartSend
  <2>. QED  BY <1>0, <2>1, <2>3, <2>4
<1>2. CASE Tick \/ TickReturn
  <2>1. pc["tick"] \notin SendSteps
    BY <1>2 DEF Tick, TickReturn, SendSteps
  <2>2. cmd' = cmd /\ cmd["tick"] = NoCmd
    BY <1>p, <1>2, <2>1, IdleOutside DEF Tick, TickReturn
  <2>3. /\ UNCHANGED <<tohost, owner, shown, hpc, hcmd, typed, got>>
        /\ \A y \in Contexts \ {"tick"} : pc'[y] = pc[y] /\ cmd'[y] = cmd[y]
    BY <1>t, <1>2 DEF Tick, TickReturn
  <2>4. cmd'["tick"].op # "write"
    BY <2>2 DEF NoCmd
  <2>. QED  BY <1>0, <2>1, <2>3, <2>4
<1>3. CASE IdlePoll \/ IdleReturn
  <2>1. pc["sched"] \notin SendSteps
    BY <1>p, <1>3 DEF IdlePoll, IdleReturn, SendSteps, ThreadState
  <2>2. cmd' = cmd /\ cmd["sched"] = NoCmd
    BY <1>p, <1>3, <2>1, IdleOutside DEF IdlePoll, IdleReturn
  <2>3. /\ UNCHANGED <<tohost, owner, shown, hpc, hcmd, typed, got>>
        /\ \A y \in Contexts \ {"sched"} : pc'[y] = pc[y] /\ cmd'[y] = cmd[y]
    BY <1>t, <1>3 DEF IdlePoll, IdleReturn
  <2>4. cmd'["sched"].op # "write"
    BY <2>2 DEF NoCmd
  <2>. QED  BY <1>0, <2>1, <2>3, <2>4
<1>4. ASSUME NEW p \in Procs,
             \/ EndOutput(p)
             \/ \E b \in Buffers : \/ Uartwrite(p, b) \/ Printk(p, b)
                                   \/ \E on \in BOOLEAN : Panic(p, b, on)
      PROVE  UNCHANGED Service!vars
  <2>1. pc[p] \notin SendSteps
    BY <1>p, <1>4 DEF EndOutput, Uartwrite, Printk, Panic, Begin, SendSteps, ThreadState
  <2>2. cmd' = cmd /\ cmd[p] = NoCmd
    BY <1>p, <1>4, <2>1, IdleOutside DEF EndOutput, Uartwrite, Printk, Panic
  <2>3. /\ UNCHANGED <<tohost, owner, shown, hpc, hcmd, typed, got>>
        /\ \A y \in Contexts \ {p} : pc'[y] = pc[y] /\ cmd'[y] = cmd[y]
    BY <1>t, <1>4 DEF EndOutput, Uartwrite, Printk, Panic, Begin
  <2>4. cmd'[p].op # "write"
    BY <2>2 DEF NoCmd
  <2>. QED  BY <1>0, <2>1, <2>3, <2>4
<1>5. ASSUME \/ UNCHANGED vars
             \/ \E p \in Procs : Dispatch(p) \/ Sleep(p) \/ Spin(p)
      PROVE  UNCHANGED Service!vars
  <2>1. UNCHANGED <<tohost, pc, cmd, owner, shown, hpc, hcmd, typed, got>>
    BY <1>5 DEF vars, Dispatch, Sleep, Spin
  <2>2. \A y \in Contexts : CallOf(y)' = CallOf(y)
    BY <2>1 DEF CallOf
  <2>3. Accepted' = Accepted
    BY <2>1 DEF Accepted
  <2>. HIDE DEF CallOf, Accepted
  <2>. QED  BY <2>1, <2>2, <2>3 DEF Service!vars
<1>6. ASSUME NEW c \in Chars, UserTypes(c) PROVE Service!Next
  <2>1. /\ UNCHANGED <<tohost, pc, cmd, owner, shown, hpc, hcmd, got>>
        /\ typed' = Append(typed, c)
    BY <1>6 DEF UserTypes
  <2>2. \A y \in Contexts : CallOf(y)' = CallOf(y)
    BY <2>1 DEF CallOf
  <2>3. Accepted' = Accepted
    BY <2>1 DEF Accepted
  <2>. HIDE DEF CallOf, Accepted
  <2>4. Service!TypeKey(c)
    BY <2>1, <2>2, <2>3 DEF Service!TypeKey
  <2>. QED  BY <2>4 DEF Service!Next
<1>. QED
  BY StepCases, SendSimulated, ReceiveSimulated, NextCharSimulated, AckSimulated,
     HostSimulated, <1>p, <1>1, <1>2, <1>3, <1>4, <1>5, <1>6

\* The driver implements the console service: every character written is
\* accepted by the host exactly once, between the call of its htif_send and its
\* return, and consoleintr receives exactly the keys typed, in order.
THEOREM ImplementsTheConsole ==
  ASSUME AtMostOneUnlocked PROVE Spec => ServiceImplemented
<1>1. IInv /\ ReadInv /\ Delivered /\ [Next]_vars => (IInv /\ ReadInv /\ Delivered)'
  BY IInvStep, ReadStep, DeliveredStep
<1>2. Init => IInv /\ ReadInv /\ Delivered
  BY IInvInit, ReadInit, DeliveredInit
<1>3. IInv /\ ReadInv /\ Delivered /\ [Next]_vars => [Service!Next]_(Service!vars)
  BY ServiceStep
<1>. QED  BY <1>1, <1>2, <1>3, ServiceInit, PTL DEF Spec, Service!Spec, ServiceImplemented
=============================================================================
