----------------------------- MODULE HtifConsole -----------------------------
(***************************************************************************)
(* The HTIF console driver of src/xv6/htif.c on its one Rocket hart, with  *)
(* the host program (fesvr, external) at the other end of the two mailbox  *)
(* words tohost and fromhost.                                              *)
(*                                                                         *)
(* Every load and store of tohost, fromhost and read_pending is a step.    *)
(* The hart runs one context at a time: the thread cur (a process or the   *)
(* scheduler) or, on top of it, the handler of the timer tick.  A tick is  *)
(* taken wherever interrupts are enabled, also in the middle of htif_send, *)
(* and may end in a switch to another process (kerneltrap's yield).        *)
(*                                                                         *)
(* The callers of the driver (console.c, printk.c, proc.c, trap.c of the   *)
(* upstream kernel) are not in the repository.  What is taken from them is *)
(* which locks they hold, hence whether interrupts are enabled:            *)
(*   - acquire disables interrupts until the matching release, so          *)
(*     uartwrite, printk and consoleintr cannot be interrupted;            *)
(*   - once a panic has begun (panicking) printk takes no lock, and panic  *)
(*     itself leaves interrupts as they were;                              *)
(*   - the scheduler polls the console with interrupts disabled, and only  *)
(*     when no process is runnable.                                        *)
(***************************************************************************)
EXTENDS Naturals, Sequences, FiniteSets

CONSTANTS
  Procs,      \* processes
  Unlocked,   \* processes that may print with interrupts enabled (see above)
  Chars,      \* characters
  MaxCalls,   \* bound on the output calls made by the threads
  Buffers,    \* what one output call may write
  MaxTyped    \* bound on the characters typed

ASSUME ConsoleAssumption ==
  /\ "sched" \notin Procs /\ "tick" \notin Procs
  /\ Unlocked \subseteq Procs
  /\ Buffers \subseteq Seq(Chars)
  /\ MaxCalls \in Nat /\ MaxTyped \in Nat
  /\ "-" \notin Chars

VARIABLES
  tohost, fromhost, read_pending,    \* the globals of htif.c
  htif_tx_lock,                      \* htif_tx_lock is held
  panicking,                         \* printk.c: a panic has begun
  cur,       \* the thread the hart runs
  intr,      \* interrupts are enabled on the hart
  pc,        \* where each context is
  act,       \* what each thread is doing
  cmd,       \* the command each context is sending (htif_send's arguments)
  fh,        \* htif_getc's local copy of fromhost
  buf,       \* what is left of the buffer each thread is printing
  owner,     \* the context that last stored a command (history)
  hpc, hcmd, \* the host's loop, and the command it has in hand
  hreads,    \* the host's console reads that wait for a key
  hreplies,  \* the host's replies that wait for fromhost
  shown,     \* the terminal
  typed,     \* the keys typed (history)
  read,      \* how many of them the host has read
  got,       \* what consoleintr received (history)
  calls      \* output calls made so far (bounded by MaxCalls)

mail   == <<tohost, fromhost, read_pending>>
target == <<htif_tx_lock, panicking, cur, intr, act, buf>>
local  == <<pc, cmd, fh>>
host   == <<hpc, hcmd, hreads, hreplies, shown, typed, read>>
vars   == <<tohost, fromhost, read_pending, htif_tx_lock, panicking, cur, intr,
            pc, act, cmd, fh, buf, owner, hpc, hcmd, hreads, hreplies, shown,
            typed, read, got, calls>>

Threads  == Procs \cup {"sched"}
Contexts == Threads \cup {"tick"}

NoCmd    == [op |-> "none", ch |-> "-"]
ReadCmd  == [op |-> "read", ch |-> "-"]
Write(c) == [op |-> "write", ch |-> c]
Commands == {ReadCmd} \cup [op : {"write"}, ch : Chars]

\* fromhost: 0, or a reply; mark is the bit 0x100 of a character.
NoReply == [mark |-> 0, ch |-> "-"]
Replies == [mark : {0, 1}, ch : Chars]

SendSteps == {"s_wait", "s_store", "s_done"}
GetcSteps == {"g_load", "g_clear", "g_clearpend", "g_check", "g_setpend",
              "consoleintr", "u_ret"}
Steps     == {"run", "off", "b_next"} \cup SendSteps \cup GetcSteps

Running == IF pc["tick"] # "off" THEN "tick" ELSE cur

-----------------------------------------------------------------------------
Init ==
  /\ tohost = NoCmd /\ fromhost = NoReply /\ read_pending = FALSE
  /\ htif_tx_lock = FALSE /\ panicking = FALSE
  /\ cur = "sched" /\ intr = TRUE
  /\ pc = [x \in Contexts |-> IF x = "tick" THEN "off" ELSE "run"]
  /\ act = [t \in Threads |-> "run"]
  /\ cmd = [x \in Contexts |-> NoCmd]
  /\ fh = [x \in Contexts |-> NoReply]
  /\ buf = [t \in Threads |-> << >>]
  /\ owner = "sched"
  /\ hpc = "poll" /\ hcmd = NoCmd /\ hreads = 0 /\ hreplies = << >>
  /\ shown = << >> /\ typed = << >> /\ read = 0
  /\ got = << >> /\ calls = 0

Goto(x, l) == pc' = [pc EXCEPT ![x] = l]

-----------------------------------------------------------------------------
(* htif_send.  A spin on tohost is a step that waits for tohost = 0.       *)

\* The call: its arguments are bound and control is at the first loop.
StartSend(x, c) ==
  /\ cmd' = [cmd EXCEPT ![x] = c]
  /\ Goto(x, "s_wait")

\* Mutant: htif_send without its first loop.
SendWaitNoSpin(x) ==
  /\ Running = x /\ pc[x] = "s_wait"
  /\ Goto(x, "s_store")
  /\ UNCHANGED <<mail, target, cmd, fh, owner, host, got, calls>>

SendWait(x) ==
  /\ Running = x /\ pc[x] = "s_wait"
  /\ tohost = NoCmd
  /\ Goto(x, "s_store")
  /\ UNCHANGED <<mail, target, cmd, fh, owner, host, got, calls>>

SendStore(x) ==
  /\ Running = x /\ pc[x] = "s_store"
  /\ tohost' = cmd[x] /\ owner' = x
  /\ Goto(x, "s_done")
  /\ UNCHANGED <<fromhost, read_pending, target, cmd, fh, host, got, calls>>

\* Where htif_send returns to: htif_getc, the loop of uartintr (echo), or
\* the loop over the buffer of uartwrite and printk.
ReturnStep(x) ==
  IF cmd[x].op = "read" THEN "g_setpend"
  ELSE IF x = "tick" \/ x = "sched" THEN "g_load" ELSE "b_next"

\* Mutant: the sender waits for an answer in fromhost instead ("Waiting on
\* fromhost after a putc would hang forever").
SendDoneOnReply(x) ==
  /\ Running = x /\ pc[x] = "s_done"
  /\ fromhost # NoReply
  /\ Goto(x, ReturnStep(x))
  /\ cmd' = [cmd EXCEPT ![x] = NoCmd]
  /\ UNCHANGED <<mail, target, fh, owner, host, got, calls>>

SendDone(x) ==
  /\ Running = x /\ pc[x] = "s_done"
  /\ tohost = NoCmd
  /\ Goto(x, ReturnStep(x))
  /\ cmd' = [cmd EXCEPT ![x] = NoCmd]
  /\ UNCHANGED <<mail, target, fh, owner, host, got, calls>>

-----------------------------------------------------------------------------
(* uartintr: while ((c = htif_getc()) != -1) consoleintr(c).               *)

GetcLoad(x) ==
  /\ Running = x /\ pc[x] = "g_load"
  /\ fh' = [fh EXCEPT ![x] = fromhost]
  /\ Goto(x, IF fromhost # NoReply THEN "g_clear" ELSE "g_check")
  /\ UNCHANGED <<mail, target, cmd, owner, host, got, calls>>

\* "let the host queue the next reply"
GetcClear(x) ==
  /\ Running = x /\ pc[x] = "g_clear"
  /\ fromhost' = NoReply
  /\ Goto(x, "g_clearpend")
  /\ UNCHANGED <<tohost, read_pending, target, cmd, fh, owner, host, got, calls>>

\* Mutant: read_pending is left set when the reply is consumed.
GetcKeepPending(x) ==
  /\ Running = x /\ pc[x] = "g_clearpend"
  /\ Goto(x, IF fh[x].mark = 1 THEN "consoleintr" ELSE "u_ret")
  /\ UNCHANGED <<mail, target, cmd, fh, owner, host, got, calls>>

\* A reply without the mark 0x100 is not a character: htif_getc returns -1.
GetcClearPending(x) ==
  /\ Running = x /\ pc[x] = "g_clearpend"
  /\ read_pending' = FALSE
  /\ Goto(x, IF fh[x].mark = 1 THEN "consoleintr" ELSE "u_ret")
  /\ UNCHANGED <<tohost, fromhost, target, cmd, fh, owner, host, got, calls>>

\* Mutant: "return 0" for "return -1", so the caller takes a character.
GetcReturnZero(x) ==
  /\ Running = x /\ pc[x] = "g_check"
  /\ IF read_pending THEN Goto(x, "consoleintr") /\ cmd' = cmd
                     ELSE StartSend(x, ReadCmd)
  /\ UNCHANGED <<mail, target, fh, owner, host, got, calls>>

GetcCheck(x) ==
  /\ Running = x /\ pc[x] = "g_check"
  /\ IF read_pending THEN Goto(x, "u_ret") /\ cmd' = cmd
                     ELSE StartSend(x, ReadCmd)
  /\ UNCHANGED <<mail, target, fh, owner, host, got, calls>>

\* Mutant: the read is sent and not recorded.
GetcForgetPending(x) ==
  /\ Running = x /\ pc[x] = "g_setpend"
  /\ Goto(x, "u_ret")
  /\ UNCHANGED <<mail, target, cmd, fh, owner, host, got, calls>>

GetcSetPending(x) ==
  /\ Running = x /\ pc[x] = "g_setpend"
  /\ read_pending' = TRUE
  /\ Goto(x, "u_ret")
  /\ UNCHANGED <<tohost, fromhost, target, cmd, fh, owner, host, got, calls>>

\* consoleintr takes the character and may echo it with uartputc_sync (a
\* control character or a full input buffer is not echoed).
Consoleintr(x, echo) ==
  /\ Running = x /\ pc[x] = "consoleintr"
  /\ got' = Append(got, fh[x].ch)
  /\ fh' = [fh EXCEPT ![x] = NoReply]
  /\ IF echo THEN StartSend(x, Write(fh[x].ch))
             ELSE Goto(x, "g_load") /\ cmd' = cmd
  /\ UNCHANGED <<mail, target, owner, host, calls>>

-----------------------------------------------------------------------------
(* Who calls uartintr: the timer tick and the idle loop of the scheduler.  *)

\* clockintr calls uartintr; the trap has disabled interrupts.
Tick ==
  /\ intr /\ pc["tick"] = "off"
  /\ intr' = FALSE
  /\ Goto("tick", "g_load")
  /\ UNCHANGED <<mail, htif_tx_lock, panicking, cur, act, buf, cmd, fh, owner,
                 host, got, calls>>

\* The end of the tick.  A tick taken while a process runs yields the hart.
TickReturn ==
  /\ pc["tick"] = "u_ret"
  /\ intr' = TRUE
  /\ cur' = "sched"
  /\ Goto("tick", "off")
  /\ UNCHANGED <<mail, htif_tx_lock, panicking, act, buf, cmd, fh, owner, host,
                 got, calls>>

\* Mutant: the idle loop polls with interrupts enabled.
IdlePollInterruptible ==
  /\ Running = "sched" /\ act["sched"] = "run"
  /\ \A p \in Procs : act[p] = "run"
  /\ act' = [act EXCEPT !["sched"] = "idle"]
  /\ Goto("sched", "g_load")
  /\ UNCHANGED <<mail, htif_tx_lock, panicking, cur, intr, buf, cmd, fh, owner,
                 host, got, calls>>

\* intr_off at the top of the scheduler's loop; no process was runnable.  A
\* process in the middle of an output call, or spinning in panic, is runnable.
IdlePoll ==
  /\ Running = "sched" /\ act["sched"] = "run"
  /\ \A p \in Procs : act[p] = "run"
  /\ intr' = FALSE
  /\ act' = [act EXCEPT !["sched"] = "idle"]
  /\ Goto("sched", "g_load")
  /\ UNCHANGED <<mail, htif_tx_lock, panicking, cur, buf, cmd, fh, owner, host,
                 got, calls>>

\* The next round of the scheduler's loop begins with intr_on.
IdleReturn ==
  /\ Running = "sched" /\ pc["sched"] = "u_ret"
  /\ intr' = TRUE
  /\ act' = [act EXCEPT !["sched"] = "run"]
  /\ Goto("sched", "run")
  /\ UNCHANGED <<mail, htif_tx_lock, panicking, cur, buf, cmd, fh, owner, host,
                 got, calls>>

\* The scheduler runs a process, and a process sleeps.
Dispatch(p) ==
  /\ Running = "sched" /\ act["sched"] = "run"
  /\ cur' = p
  /\ UNCHANGED <<mail, htif_tx_lock, panicking, intr, act, buf, local, owner,
                 host, got, calls>>

Sleep(p) ==
  /\ Running = p /\ act[p] = "run"
  /\ cur' = "sched"
  /\ UNCHANGED <<mail, htif_tx_lock, panicking, intr, act, buf, local, owner,
                 host, got, calls>>

-----------------------------------------------------------------------------
(* Output by a process.                                                    *)

Begin(p, a, b) ==
  /\ Running = p /\ act[p] = "run" /\ calls < MaxCalls
  /\ calls' = calls + 1
  /\ act' = [act EXCEPT ![p] = a]
  /\ buf' = [buf EXCEPT ![p] = b]
  /\ Goto(p, "b_next")

\* Mutant: the lock is taken with interrupts left enabled.
UartwriteInterruptible(p, b) ==
  /\ Begin(p, "write", b)
  /\ ~htif_tx_lock
  /\ htif_tx_lock' = TRUE
  /\ UNCHANGED <<mail, panicking, cur, intr, cmd, fh, owner, host, got>>

\* uartwrite up to its loop: acquire disables interrupts, then takes the lock.
Uartwrite(p, b) ==
  /\ Begin(p, "write", b)
  /\ ~htif_tx_lock
  /\ intr' = FALSE /\ htif_tx_lock' = TRUE
  /\ UNCHANGED <<mail, panicking, cur, cmd, fh, owner, host, got>>

\* printk: pr.lock is taken, interrupts disabled, unless a panic has begun.
Printk(p, b) ==
  /\ Begin(p, "printk", b)
  /\ panicking => p \in Unlocked
  /\ intr' = panicking
  /\ UNCHANGED <<mail, htif_tx_lock, panicking, cur, cmd, fh, owner, host, got>>

\* panic, with interrupts as the caller had them (on) or off (locks held).
Panic(p, b, on) ==
  /\ Begin(p, "panic", b)
  /\ on => p \in Unlocked
  /\ intr' = on /\ panicking' = TRUE
  /\ UNCHANGED <<mail, htif_tx_lock, cur, cmd, fh, owner, host, got>>

\* The next character of the buffer: uartputc_sync, or uartwrite's loop.
NextChar(p) ==
  /\ Running = p /\ pc[p] = "b_next" /\ buf[p] # << >>
  /\ StartSend(p, Write(Head(buf[p])))
  /\ buf' = [buf EXCEPT ![p] = Tail(@)]
  /\ UNCHANGED <<mail, htif_tx_lock, panicking, cur, intr, act, fh, owner, host,
                 got, calls>>

\* The end of uartwrite or printk (release enables interrupts), or of panic,
\* which spins for ever.
EndOutput(p) ==
  /\ Running = p /\ pc[p] = "b_next" /\ buf[p] = << >>
  /\ act' = [act EXCEPT ![p] = IF @ = "panic" THEN "halted" ELSE "run"]
  /\ intr' = (intr \/ act[p] # "panic")
  /\ htif_tx_lock' = (htif_tx_lock /\ act[p] # "write")
  /\ Goto(p, "run")
  /\ UNCHANGED <<mail, panicking, cur, buf, cmd, fh, owner, host, got, calls>>

\* panic's for(;;)
Spin(p) ==
  /\ Running = p /\ act[p] = "halted"
  /\ UNCHANGED vars

-----------------------------------------------------------------------------
(* The host (fesvr, external): one thread that loops over its devices.     *)

HostPoll ==
  /\ hpc = "poll"
  /\ hcmd' = tohost
  /\ hpc' = IF tohost = NoCmd THEN "tick" ELSE "ack"
  /\ UNCHANGED <<mail, target, local, owner, hreads, hreplies, shown, typed,
                 read, got, calls>>

HostAck ==
  /\ hpc = "ack"
  /\ tohost' = NoCmd
  /\ hpc' = "handle"
  /\ UNCHANGED <<fromhost, read_pending, target, local, owner, hcmd, hreads,
                 hreplies, shown, typed, read, got, calls>>

\* A write goes to the terminal and is never answered; a read is queued.
HostHandle ==
  /\ hpc = "handle"
  /\ shown' = IF hcmd.op = "write" THEN Append(shown, hcmd.ch) ELSE shown
  /\ hreads' = IF hcmd.op = "read" THEN hreads + 1 ELSE hreads
  /\ hcmd' = NoCmd /\ hpc' = "tick"
  /\ UNCHANGED <<mail, target, local, owner, hreplies, typed, read, got, calls>>

\* A queued read is answered when a key is there.
HostTick ==
  /\ hpc = "tick"
  /\ IF hreads > 0 /\ read < Len(typed)
     THEN /\ hreplies' = Append(hreplies, [mark |-> 1, ch |-> typed[read + 1]])
          /\ hreads' = hreads - 1 /\ read' = read + 1
     ELSE UNCHANGED <<hreplies, hreads, read>>
  /\ hpc' = "reply"
  /\ UNCHANGED <<mail, target, local, owner, hcmd, shown, typed, got, calls>>

\* "The host writes fromhost only when it reads as 0."
HostReply ==
  /\ hpc = "reply"
  /\ IF hreplies # << >> /\ fromhost = NoReply
     THEN fromhost' = Head(hreplies) /\ hreplies' = Tail(hreplies)
     ELSE UNCHANGED <<fromhost, hreplies>>
  /\ hpc' = "poll"
  /\ UNCHANGED <<tohost, read_pending, target, local, owner, hcmd, hreads,
                 shown, typed, read, got, calls>>

UserTypes(c) ==
  /\ Len(typed) < MaxTyped
  /\ typed' = Append(typed, c)
  /\ UNCHANGED <<mail, target, local, owner, hpc, hcmd, hreads, hreplies, shown,
                 read, got, calls>>

-----------------------------------------------------------------------------
Send(x) == SendWait(x) \/ SendStore(x) \/ SendDone(x)

Uartintr(x) ==
  \/ GetcLoad(x) \/ GetcClear(x) \/ GetcClearPending(x) \/ GetcCheck(x)
  \/ GetcSetPending(x)
  \/ \E echo \in BOOLEAN : Consoleintr(x, echo)

Output(p) ==
  \/ \E b \in Buffers : \/ Uartwrite(p, b)
                        \/ Printk(p, b)
                        \/ \E on \in BOOLEAN : Panic(p, b, on)
  \/ NextChar(p) \/ EndOutput(p) \/ Spin(p)

TickStep   == Tick \/ TickReturn \/ Send("tick") \/ Uartintr("tick")
SchedStep  == \/ IdlePoll \/ IdleReturn \/ Send("sched") \/ Uartintr("sched")
              \/ \E p \in Procs : Dispatch(p)
ProcStep(p) == Output(p) \/ Send(p) \/ Sleep(p)
HostStep   == HostPoll \/ HostAck \/ HostHandle \/ HostTick \/ HostReply

Next ==
  \/ TickStep \/ SchedStep \/ HostStep
  \/ \E p \in Procs : ProcStep(p)
  \/ \E c \in Chars : UserTypes(c)

Spec == Init /\ [][Next]_vars

(***************************************************************************)
(* Fairness.  The host loops for ever.  The hart always executes: code     *)
(* with interrupts disabled runs on (weak fairness); code that a tick may  *)
(* interrupt, and a process that must be dispatched again, make progress   *)
(* because the handler is shorter than the tick's period and the scheduler *)
(* is round-robin, and a tick that is pending is taken at the next         *)
(* instruction with interrupts enabled (strong fairness).                  *)
(***************************************************************************)
Fairness ==
  /\ WF_vars(HostStep)
  /\ SF_vars(Tick)
  /\ WF_vars(TickReturn \/ Send("tick") \/ Uartintr("tick"))
  /\ WF_vars(IdleReturn \/ Send("sched") \/ Uartintr("sched"))
  /\ \A p \in Procs : /\ SF_vars(Dispatch(p))
                      /\ SF_vars(Send(p) \/ NextChar(p) \/ EndOutput(p))

FairSpec == Spec /\ Fairness

-----------------------------------------------------------------------------
(* Properties.                                                             *)

MailTypeOK ==
  /\ tohost \in Commands \cup {NoCmd}
  /\ fromhost \in Replies \cup {NoReply}
  /\ read_pending \in BOOLEAN

HartTypeOK ==
  /\ htif_tx_lock \in BOOLEAN /\ panicking \in BOOLEAN
  /\ cur \in Threads /\ intr \in BOOLEAN
  /\ pc \in [Contexts -> Steps]
  /\ act \in [Threads -> {"run", "idle", "write", "printk", "panic", "halted"}]
  /\ cmd \in [Contexts -> Commands \cup {NoCmd}]
  /\ fh \in [Contexts -> Replies \cup {NoReply}]
  /\ buf \in [Threads -> Seq(Chars)]
  /\ owner \in Contexts
  /\ got \in Seq(Chars) /\ calls \in Nat

HostTypeOK ==
  /\ hpc \in {"poll", "ack", "handle", "tick", "reply"}
  /\ hcmd \in Commands \cup {NoCmd}
  /\ hreads \in Nat /\ hreplies \in Seq(Replies)
  /\ shown \in Seq(Chars) /\ typed \in Seq(Chars)
  /\ read \in Nat

\* Types of the driver's globals, the hart and the host.
TypeOK == MailTypeOK /\ HartTypeOK /\ HostTypeOK

\* A command stored in tohost stays there until the host, which has read this
\* very command, acknowledges it: no context overwrites a command that is not
\* consumed, and the acknowledgement of one command never erases another
\* (htif_send's two loops, although a tick re-enters it half-way).
CommandsSurvive ==
  [][tohost # NoCmd /\ tohost' # tohost
       => tohost' = NoCmd /\ hpc = "ack" /\ hcmd = tohost]_vars

\* Console reads on their way: in tohost, in the host's hands, queued for a
\* key, answered and queued for fromhost, or in fromhost.
ReadsInFlight ==
  (IF tohost = ReadCmd THEN 1 ELSE 0)
  + (IF hpc = "handle" /\ hcmd = ReadCmd THEN 1 ELSE 0)
  + hreads + Len(hreplies)
  + (IF fromhost # NoReply THEN 1 ELSE 0)

\* The driver is between the store of a read and read_pending = 1, or between
\* fromhost = 0 and read_pending = 0.
SettingPending ==
  \E x \in Contexts : \/ pc[x] = "g_setpend"
                      \/ pc[x] = "s_done" /\ cmd[x] = ReadCmd
ClearingPending == \E x \in Contexts : pc[x] = "g_clearpend"

\* At most one console read is in flight, and read_pending tells exactly
\* whether one is (outside the two windows where the driver updates it): a
\* stale 1 would silence the keyboard for ever, a stale 0 would queue a second
\* read ("Only one HTIF command may be in flight at a time").
OneReadOutstanding ==
  ReadsInFlight =
    IF SettingPending \/ (read_pending /\ ~ClearingPending) THEN 1 ELSE 0

\* While a process is inside uartwrite nobody else sends a command: the buffer
\* reaches the terminal in one piece.
BufferUnbroken ==
  [][\A p \in Procs :
       act[p] = "write" /\ tohost' # tohost /\ tohost' # NoCmd => owner' = p]_vars

\* The system has stopped: a panic with interrupts disabled spins for ever.
Stopped == act[cur] = "halted" /\ ~intr

\* Every htif_send returns: the host consumes each command and the sender sees
\* it, although writes are never answered in fromhost.
SendsReturn ==
  \A x \in Contexts :
    pc[x] \in SendSteps ~> (pc[x] \notin SendSteps \/ Stopped)

\* Every key typed reaches consoleintr, by the tick or by the idle loop, also
\* when a panic with interrupts enabled has stopped a process: however often
\* keys are behind (got is a prefix of typed), the driver catches up with them.
KeysReceived ==
  []<>(Len(got) = Len(typed) \/ Stopped)

\* The abstract state: a write has taken effect once the host has taken it out
\* of tohost.
CallOf(x) ==
  IF cmd[x].op # "write" THEN [st |-> "idle", ch |-> "-"]
  ELSE [st |-> IF pc[x] = "s_done" /\ (owner # x \/ tohost = NoCmd)
               THEN "done" ELSE "called",
        ch |-> cmd[x].ch]
Accepted ==
  IF hpc = "handle" /\ hcmd.op = "write" THEN Append(shown, hcmd.ch) ELSE shown

Service == INSTANCE ConsoleService WITH
  Callers <- Contexts,
  call <- [x \in Contexts |-> CallOf(x)],
  out <- Accepted

\* The driver, on one hart, implements the console service: every character
\* written is accepted exactly once between the call and the return of its
\* htif_send, and input is delivered exactly once and in order.
ServiceImplemented == Service!Spec
=============================================================================
