----------------------------- MODULE HtifSyscall -----------------------------
(***************************************************************************)
(* The bare-metal test of src/riscv-test (crt.S, hello.c) on one Rocket    *)
(* hart, and the host program that runs it (fesvr, external): the system   *)
(* call form of HTIF, in which the target leaves a request of eight words  *)
(* in memory, and its address in tohost, and waits for fromhost.           *)
(*                                                                         *)
(* The hart's stores become visible to the host one at a time and in any   *)
(* order, except that a fence waits for those before it (RISC-V's memory   *)
(* model).  The host reaches the target's memory through TSI, whose        *)
(* answers wait in the FIFO TSI_OUT of the adapter for it to pop them.     *)
(***************************************************************************)
EXTENDS Naturals, Sequences

CONSTANT Faults   \* what the datapath may get wrong, a subset of AllFaults

AllFaults == {"none", "sum", "shift"}

ASSUME SyscallAssumption == Faults \subseteq AllFaults

\* Memory the host reads or writes: syscall_buf, of whose words 4 stands for the
\* four that are always zero, and two words more.
LastWord == 4
Words    == 0..LastWord
TOHOST   == 8
FROMHOST == 9
Locs     == Words \cup {TOHOST, FROMHOST}

Buf == 16   \* the address of syscall_buf, a multiple of 8

VARIABLES
  fault,      \* what the datapath gets wrong; never changes
  pc, i,      \* where the program is, and the index of its loops
  printed,    \* calls of print so far
  stores,     \* stores that are not visible yet, pairs of a location and a value
  mem,        \* memory as the host sees it
  tsi_out,    \* words of TSI that wait for the host
  hpc, hcmd, hbuf, hidx, replies, exitcode,   \* the host
  out         \* the terminal: pointer and length of each write

program == <<fault, pc, i, printed>>
host    == <<hpc, hcmd, hbuf, hidx, replies, exitcode, out>>
vars    == <<program, stores, mem, tsi_out, host>>

Init ==
  /\ fault \in Faults
  /\ pc = "start" /\ i = 0 /\ printed = 0
  /\ stores = {}
  /\ \E junk \in {0, 7} : mem = [l \in Locs |-> IF l \in Words THEN junk ELSE 0]
  /\ tsi_out = << >>
  /\ hpc = "poll" /\ hcmd = 0 /\ hbuf = [w \in Words |-> 0] /\ hidx = 0
  /\ replies = 0 /\ exitcode = 0
  /\ out = << >>

-----------------------------------------------------------------------------
(* The hart's memory.                                                      *)

Store(l, v) == stores' = {s \in stores : s[1] # l} \cup {<<l, v>>}
Load(l)     == IF \E s \in stores : s[1] = l
               THEN (CHOOSE s \in stores : s[1] = l)[2] ELSE mem[l]

Visible ==
  /\ \E s \in stores : mem' = [mem EXCEPT ![s[1]] = s[2]] /\ stores' = stores \ {s}
  /\ UNCHANGED <<program, tsi_out, host>>

-----------------------------------------------------------------------------
(* crt.S and main.                                                         *)

\* What main prints, and its exit code.  A message is its address; the two
\* checks of the datapath each have a message for when they fail.
Messages == CASE fault = "none"  -> <<1, 2, 3, 4>>
              [] fault = "sum"   -> <<1, 5>>
              [] fault = "shift" -> <<1, 2, 6>>
Code == IF fault = "none" THEN 0 ELSE 1

\* htif_syscall(SYS_write, 1, s, len), each message with a length of its own.
SYS_write == 64
Request(s) == [w \in Words |-> CASE w = 0 -> SYS_write [] w = 1 -> 1 [] w = 2 -> s
                                 [] w = 3 -> 10 + s [] OTHER -> 0]

Stay == UNCHANGED <<mem, tsi_out, host>>

\* _start clears .bss, which is syscall_buf.
ZeroBss ==
  /\ pc = "start"
  /\ Store(i, 0)
  /\ i' = (i + 1) % (LastWord + 1)
  /\ pc' = IF i = LastWord THEN "main" ELSE "start"
  /\ UNCHANGED <<fault, printed>> /\ Stay

\* Mutant: one print too many.
MainOver ==
  /\ pc = "main"
  /\ IF printed <= Len(Messages) THEN pc' = "fill" /\ printed' = printed + 1
                                 ELSE pc' = "exitfence" /\ printed' = printed
  /\ UNCHANGED <<fault, i, stores>> /\ Stay

\* main: the next print, or the exit.
Main ==
  /\ pc = "main"
  /\ IF printed < Len(Messages) THEN pc' = "fill" /\ printed' = printed + 1
                                ELSE pc' = "exitfence" /\ printed' = printed
  /\ UNCHANGED <<fault, i, stores>> /\ Stay

-----------------------------------------------------------------------------
(* htif_syscall and htif_exit.                                             *)

Fill ==
  /\ pc = "fill"
  /\ Store(i, Request(Messages[printed])[i])
  /\ i' = (i + 1) % (LastWord + 1)
  /\ pc' = IF i = LastWord THEN "fence" ELSE "fill"
  /\ UNCHANGED <<fault, printed>> /\ Stay

\* Mutant: no fence.
NoFence(from, to) ==
  /\ pc = from /\ pc' = to
  /\ UNCHANGED <<fault, i, printed, stores>> /\ Stay

Fence(from, to) ==
  /\ pc = from /\ stores = {} /\ pc' = to
  /\ UNCHANGED <<fault, i, printed, stores>> /\ Stay

StoreTohost ==
  /\ pc = "tohost" /\ pc' = "wait"
  /\ Store(TOHOST, Buf)
  /\ UNCHANGED <<fault, i, printed>> /\ Stay

\* Mutant: the program goes on as soon as the host has taken the request.
WaitTohost ==
  /\ pc = "wait" /\ Load(TOHOST) = 0 /\ pc' = "ack"
  /\ UNCHANGED <<fault, i, printed, stores>> /\ Stay

WaitFromhost ==
  /\ pc = "wait" /\ Load(FROMHOST) # 0 /\ pc' = "ack"
  /\ UNCHANGED <<fault, i, printed, stores>> /\ Stay

\* Mutant: the answer is not acknowledged.
ClearNothing ==
  /\ pc = "ack" /\ pc' = "main"
  /\ UNCHANGED <<fault, i, printed, stores>> /\ Stay

ClearFromhost ==
  /\ pc = "ack" /\ pc' = "main"
  /\ Store(FROMHOST, 0)
  /\ UNCHANGED <<fault, i, printed>> /\ Stay

\* Mutant: the exit code without the mark.
PlainValue(code) == 2 * code

ExitValue(code) == 2 * code + 1

Exit ==
  /\ pc = "exit" /\ pc' = "exited"
  /\ Store(TOHOST, ExitValue(Code))
  /\ UNCHANGED <<fault, i, printed>> /\ Stay

-----------------------------------------------------------------------------
(* The host (external).  A read is a request, which the adapter answers    *)
(* with the word as it then is, and a pop of the answer.                   *)

Ask(l) == tsi_out' = Append(tsi_out, mem[l])

Answered(v) ==
  /\ tsi_out # << >>
  /\ v = Head(tsi_out) /\ tsi_out' = Tail(tsi_out)

HostAsk ==
  /\ \/ hpc = "poll" /\ Ask(TOHOST) /\ hpc' = "polled"
     \/ hpc = "fetch" /\ Ask(hidx) /\ hpc' = "fetched"
     \/ hpc = "reply" /\ replies > 0 /\ Ask(FROMHOST) /\ hpc' = "asked"
     \/ hpc = "reply" /\ replies = 0 /\ hpc' = "poll" /\ UNCHANGED tsi_out
  /\ UNCHANGED <<program, stores, mem, hcmd, hbuf, hidx, replies, exitcode, out>>

HostPoll ==
  /\ hpc = "polled"
  /\ \E v \in {0, Buf, 1, 3} : Answered(v) /\ hcmd' = v
                              /\ hpc' = IF v = 0 THEN "reply" ELSE "take"
  /\ UNCHANGED <<program, stores, mem, hbuf, hidx, replies, exitcode, out>>

\* The command is acknowledged; one with the lowest bit set is an exit.
HostTake ==
  /\ hpc = "take"
  /\ mem' = [mem EXCEPT ![TOHOST] = 0]
  /\ IF hcmd % 2 = 1 THEN exitcode' = hcmd /\ hpc' = "done"
                     ELSE exitcode' = exitcode /\ hpc' = "fetch"
  /\ hidx' = 0
  /\ UNCHANGED <<program, stores, tsi_out, hcmd, hbuf, replies, out>>

HostFetch ==
  /\ hpc = "fetched"
  /\ \E v \in 0..SYS_write : Answered(v) /\ hbuf' = [hbuf EXCEPT ![hidx] = v]
  /\ hidx' = (hidx + 1) % (LastWord + 1)
  /\ hpc' = IF hidx = LastWord THEN "serve" ELSE "fetch"
  /\ UNCHANGED <<program, stores, mem, hcmd, replies, exitcode, out>>

\* The write is done, its result put into the first word and the whole buffer
\* written back, and an answer queued.
HostServe ==
  /\ hpc = "serve" /\ hbuf[0] = SYS_write
  /\ out' = Append(out, <<hbuf[2], hbuf[3]>>)
  /\ mem' = [l \in Locs |-> IF l = 0 THEN hbuf[3]
                            ELSE IF l \in Words THEN hbuf[l] ELSE mem[l]]
  /\ replies' = replies + 1
  /\ hpc' = "reply"
  /\ UNCHANGED <<program, stores, tsi_out, hcmd, hbuf, hidx, exitcode>>

\* fromhost is written only when it is 0.
HostReply ==
  /\ hpc = "asked"
  /\ \E v \in {0, 1} :
       /\ Answered(v)
       /\ IF v = 0 THEN mem' = [mem EXCEPT ![FROMHOST] = 1] /\ replies' = replies - 1
                   ELSE UNCHANGED <<mem, replies>>
  /\ hpc' = "poll"
  /\ UNCHANGED <<program, stores, hcmd, hbuf, hidx, exitcode, out>>

-----------------------------------------------------------------------------
Program ==
  \/ ZeroBss \/ Main \/ Fill \/ StoreTohost \/ WaitFromhost \/ ClearFromhost \/ Exit
  \/ Fence("fence", "tohost") \/ Fence("exitfence", "exit")

Host == HostAsk \/ HostPoll \/ HostTake \/ HostFetch \/ HostServe \/ HostReply

Next == Program \/ Visible \/ Host

\* The hart executes, a store becomes visible in the end, the host loops.
Fairness == WF_vars(Program) /\ WF_vars(Visible) /\ WF_vars(Host)

Spec == Init /\ [][Next]_vars /\ Fairness

-----------------------------------------------------------------------------
(* Properties.                                                             *)

TypeOK ==
  /\ pc \in {"start", "main", "fill", "fence", "tohost", "wait", "ack", "exitfence",
             "exit", "exited"}
  /\ i \in Words /\ printed \in 0..Len(Messages)
  /\ stores \subseteq Locs \X (0..SYS_write)
  /\ mem \in [Locs -> 0..SYS_write]
  /\ tsi_out \in Seq(0..SYS_write)
  /\ hpc \in {"poll", "polled", "take", "fetch", "fetched", "serve", "reply",
              "asked", "done"}
  /\ hcmd \in {0, Buf, 1, 3} /\ hbuf \in [Words -> 0..SYS_write] /\ hidx \in Words
  /\ replies \in Nat /\ exitcode \in {0, 1, 3}
  /\ out \in Seq((0..SYS_write) \X (0..SYS_write))

\* While the host has a request in hand the program waits, and every word that
\* the host has fetched is the request's: neither a word of the call before,
\* which was not visible yet, nor one of the next.
RequestWhole ==
  hpc \in {"fetch", "fetched", "serve"} =>
    /\ pc = "wait"
    /\ \A w \in Words : w < hidx \/ hpc = "serve"
         => hbuf[w] = Request(Messages[printed])[w]

\* Answers on their way to the program: queued, written, or written and not yet
\* seen cleared.
Answers == replies + mem[FROMHOST]

\* An answer is on its way only while the program waits for it or is clearing
\* it: none is left over for the next call, which would return at once, and
\* none is wiped out by the clearing of the one before.
AnswersMatched ==
  /\ Answers <= 1
  /\ Answers = 1 /\ pc \notin {"wait", "ack"} => <<FROMHOST, 0>> \in stores
  /\ <<FROMHOST, 0>> \in stores => pc \in {"main", "fill", "fence", "exitfence"}

\* The handshake of request, tohost, fromhost and acknowledgement: at every
\* moment program and host agree whose turn it is and on which call.
Handshake == TypeOK /\ RequestWhole /\ AnswersMatched

\* The terminal shows what main printed, in order, each message once and whole,
\* and an exit reaches the host after all of it and with main's exit code.
OutputRight ==
  /\ Len(out) <= Len(Messages)
  /\ \A k \in 1..Len(out) : out[k] = <<Messages[k], 10 + Messages[k]>>
  /\ exitcode # 0 => Len(out) = Len(Messages) /\ exitcode \div 2 = Code

\* The run ends: the host gets the exit code, a success (0) like a failure.
ExitReaches == <>(hpc = "done")
=============================================================================
