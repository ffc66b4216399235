-------------------------- MODULE ProbedTest_proofs --------------------------
(***************************************************************************)
(* Proofs about the bare-metal test, its host and a probe of the adapter   *)
(* they use (ProbedTest over HtifSyscall and PlProbe): the handshake of    *)
(* request, tohost, fromhost and acknowledgement with stores that become   *)
(* visible in any order, what the terminal shows, and the probe's verdict. *)
(***************************************************************************)
EXTENDS ProbedTest, TLAPS

Values == 0..SYS_write

Call == Request(Messages[printed])

\* The host has nothing to do: it polls tohost, which is 0 for it.
Quiet ==
  /\ hpc \in {"poll", "polled", "reply"} /\ replies = 0 /\ mem[TOHOST] = 0

\* The whole request can be read.
Readable == \A w \in Words : mem[w] = Call[w]

\* A word of the request is written, visible or not.
Written(w) ==
  \/ <<w, Call[w]>> \in stores
  \/ mem[w] = Call[w] /\ \A s \in stores : s[1] # w

-----------------------------------------------------------------------------
(* A call, from the store to tohost to the answer.                         *)

Posting(v) == stores = {<<TOHOST, v>>} /\ Quiet

Posted(v) ==
  /\ stores = {} /\ mem[TOHOST] = v
  /\ hpc \in {"poll", "polled", "reply", "take"} /\ replies = 0

Serving ==
  /\ stores = {} /\ mem[TOHOST] = 0
  /\ hpc \in {"fetch", "fetched", "serve"} /\ replies = 0
  /\ \A w \in Words : w < hidx \/ hpc = "serve" => hbuf[w] = Call[w]

Replying == stores = {} /\ mem[TOHOST] = 0 /\ hpc \in {"reply", "asked"} /\ replies = 1

Replied == stores = {} /\ Quiet /\ mem[FROMHOST] = 1

\* Whose turn it is, by where the program is.
Turn ==
  /\ pc = "start" => Quiet /\ mem[FROMHOST] = 0 /\ stores \subseteq Words \X {0}
  /\ pc \in {"main", "fill", "fence", "exitfence"} =>
       /\ Quiet /\ mem[FROMHOST] \in {0, 1}
       /\ mem[FROMHOST] = 1 => <<FROMHOST, 0>> \in stores
       /\ stores \subseteq (Words \X Values) \cup {<<FROMHOST, 0>>}
  /\ pc = "fill" => \A w \in Words : w < i => Written(w)
  /\ pc = "fence" => \A w \in Words : Written(w)
  /\ pc \in {"tohost", "exit"} => Quiet /\ mem[FROMHOST] = 0 /\ stores = {}
  /\ pc = "tohost" => Readable
  /\ pc = "wait" =>
       \/ (Posting(Buf) \/ Posted(Buf) \/ Serving) /\ mem[FROMHOST] = 0 /\ Readable
       \/ Replying /\ mem[FROMHOST] = 0
       \/ Replied
  /\ pc = "ack" => Replied
  /\ pc = "exited" =>
       /\ mem[FROMHOST] = 0 /\ replies = 0
       /\ \/ Posting(ExitValue(Code)) \/ Posted(ExitValue(Code))
          \/ stores = {} /\ mem[TOHOST] = 0 /\ hpc = "done"
  /\ hpc = "done" => pc = "exited"

\* What TSI_OUT holds is the word asked for, which is still what the memory holds
\* but for a poll that was too early.
Fifo ==
  /\ hpc = "polled" => tsi_out = <<0>> \/ tsi_out = <<mem[TOHOST]>>
  /\ hpc = "fetched" => tsi_out = <<mem[hidx]>>
  /\ hpc = "asked" => tsi_out = <<0>>
  /\ hpc \notin {"polled", "fetched", "asked"} => tsi_out = << >>
  /\ hpc = "take" => hcmd = mem[TOHOST]

Unserved ==
  \/ pc \in {"fill", "fence", "tohost"}
  \/ pc = "wait" /\ replies = 0 /\ mem[FROMHOST] = 0

\* What has been printed: the call under way is on the terminal once served.
Output ==
  /\ \A k \in 1..Len(out) : out[k] = <<Messages[k], 10 + Messages[k]>>
  /\ pc = "start" => printed = 0
  /\ pc \in {"fill", "fence", "tohost", "wait", "ack"} => printed # 0
  /\ pc \in {"exitfence", "exit", "exited"} => printed = Len(Messages)
  /\ Len(out) = IF Unserved THEN printed - 1 ELSE printed
  /\ exitcode = IF hpc = "done" THEN ExitValue(Code) ELSE 0

Typed ==
  /\ TypeOK /\ fault \in AllFaults
  /\ pc \notin {"start", "fill"} => i = 0
  /\ \A s, t \in stores : s[1] = t[1] => s = t

TestInv == Typed /\ Turn /\ Fifo /\ Output

-----------------------------------------------------------------------------
(* Places, messages and requests.                                          *)

LEMMA Places ==
  /\ TOHOST \in Locs /\ FROMHOST \in Locs /\ Words \subseteq Locs
  /\ TOHOST \notin Words /\ FROMHOST \notin Words /\ TOHOST # FROMHOST
  /\ 0 \in Words /\ LastWord \in Words /\ Words = 0..LastWord /\ LastWord \in Nat
BY DEF TOHOST, FROMHOST, Locs, Words, LastWord

LEMMA MessagesAre ==
  ASSUME fault \in AllFaults
  PROVE  /\ Len(Messages) \in Nat
         /\ \A k \in 1..Len(Messages) : Messages[k] \in 1..6
         /\ Code \in {0, 1} /\ ExitValue(Code) \in {1, 3} /\ ExitValue(Code) \div 2 = Code
<1>1. CASE fault = "none"
  BY <1>1 DEF Messages, Code, ExitValue
<1>2. CASE fault = "sum"
  BY <1>2 DEF Messages, Code, ExitValue
<1>3. CASE fault = "shift"
  BY <1>3 DEF Messages, Code, ExitValue
<1>. QED  BY <1>1, <1>2, <1>3 DEF AllFaults

LEMMA CallIs ==
  ASSUME Typed, printed # 0
  PROVE  /\ Messages[printed] \in 1..6 /\ printed \in 1..Len(Messages)
         /\ Call \in [Words -> Values]
         /\ Call[0] = SYS_write /\ Call[2] = Messages[printed]
         /\ Call[3] = 10 + Messages[printed]
<1>1. Messages[printed] \in 1..6 /\ printed \in 1..Len(Messages)
  BY MessagesAre DEF Typed, TypeOK
<1>. DEFINE m == Messages[printed]
<1>. HIDE DEF m
<1>2. m \in 1..6
  BY <1>1 DEF m
<1>3. /\ Request(m) \in [Words -> Values]
      /\ Request(m)[0] = SYS_write /\ Request(m)[2] = m /\ Request(m)[3] = 10 + m
  BY <1>2 DEF Request, Words, LastWord, Values, SYS_write
<1>. QED  BY <1>1, <1>3 DEF Call, m

\* What does not change with the calls and the fault.
LEMMA SameCall ==
  ASSUME UNCHANGED <<fault, printed>>
  PROVE  Call' = Call /\ Messages' = Messages /\ Code' = Code
BY DEF Call, Request, Messages, Code

LEMMA TestInit == Init => TestInv
<1>. SUFFICES ASSUME Init PROVE TestInv
  OBVIOUS
<1>. USE SyscallAssumption, Places DEF Init
<1>0. fault \in AllFaults
  OBVIOUS
<1>1. Typed
  <2>1. mem \in [Locs -> 0..SYS_write]
    BY DEF SYS_write
  <2>2. hbuf \in [Words -> 0..SYS_write] /\ 0 \in 0..Len(Messages)
    BY <1>0, MessagesAre DEF SYS_write
  <2>. QED  BY <1>0, <2>1, <2>2 DEF Typed, TypeOK
<1>2. Turn
  BY DEF Turn, Quiet
<1>3. Fifo /\ Output
  BY DEF Fifo, Output, Unserved
<1>. QED  BY <1>1, <1>2, <1>3 DEF TestInv

-----------------------------------------------------------------------------
(* The program.                                                            *)

LEMMA TypedStep == ASSUME TestInv, [Next]_vars PROVE Typed'
<1>. USE DEF TestInv
<1>0. fault \in AllFaults /\ Len(Messages) \in Nat /\ ExitValue(Code) \in {1, 3}
      /\ Buf \in {16} /\ SYS_write = 64
  BY MessagesAre DEF Typed, Buf, SYS_write
<1>1. ASSUME NEW l \in Locs, NEW v \in Values, Store(l, v)
      PROVE  /\ stores' \subseteq Locs \X (0..SYS_write)
             /\ \A s, t \in stores' : s[1] = t[1] => s = t
  <2>1. stores' = {s \in stores : s[1] # l} \cup {<<l, v>>}
    BY <1>1 DEF Store
  <2>2. stores \subseteq Locs \X (0..SYS_write)
    BY DEF Typed, TypeOK
  <2>3. \A s, t \in stores : s[1] = t[1] => s = t
    BY DEF Typed
  <2>4. <<l, v>> \in Locs \X (0..SYS_write) /\ <<l, v>>[1] = l
    BY DEF Values
  <2>5. stores' \subseteq Locs \X (0..SYS_write)
    BY <2>1, <2>2, <2>4
  <2>6. ASSUME NEW s \in stores' PROVE s = <<l, v>> \/ (s \in stores /\ s[1] # l)
    BY <2>1, <2>6
  <2>. QED  BY <2>3, <2>4, <2>5, <2>6
<1>2. ASSUME Stay, fault' = fault, printed' \in 0..Len(Messages), i' \in Words,
             pc' \in {"start", "main", "fill", "fence", "tohost", "wait", "ack", "exitfence",
                      "exit", "exited"},
             pc' \notin {"start", "fill"} => i' = 0,
             stores' \subseteq Locs \X (0..SYS_write),
             \A s, t \in stores' : s[1] = t[1] => s = t
      PROVE  Typed'
  <2>1. Messages' = Messages
    BY <1>2 DEF Messages
  <2>. QED  BY <1>2, <2>1 DEF Stay, host, Typed, TypeOK
<1>3. i \in Words => /\ i \in Nat /\ (i # LastWord => i + 1 \in Words)
                     /\ (i + 1) % (LastWord + 1) \in Words
                     /\ i = LastWord => (i + 1) % (LastWord + 1) = 0
  BY DEF Words, LastWord
<1>4. CASE ZeroBss
  <2>1. Store(i, 0) /\ i \in Locs /\ 0 \in Values
    BY <1>4, Places DEF ZeroBss, Typed, TypeOK, Values, SYS_write
  <2>. QED  BY <1>1, <1>2, <1>3, <1>4, <2>1 DEF ZeroBss, Typed, TypeOK
<1>5. CASE Main
  <2>1. printed \in Nat /\ printed <= Len(Messages)
    BY <1>0 DEF Typed, TypeOK
  <2>2. printed' \in 0..Len(Messages)
    BY <1>0, <1>5, <2>1 DEF Main
  <2>3. pc' \in {"fill", "exitfence"} /\ i' = 0 /\ 0 \in Words
    BY <1>5, Places DEF Main, Typed
  <2>4. Stay /\ fault' = fault /\ stores' = stores
    BY <1>5 DEF Main
  <2>. QED  BY <1>2, <2>2, <2>3, <2>4 DEF Typed, TypeOK
<1>6. CASE Fill
  <2>1. i \in Locs /\ i \in Words /\ Call[i] \in Values /\ Store(i, Call[i])
    BY <1>6, Places, CallIs DEF Fill, Typed, TypeOK, Output, Call
  <2>. QED  BY <1>1, <1>2, <1>3, <1>6, <2>1 DEF Fill, Typed, TypeOK
<1>7. CASE Fence("fence", "tohost") \/ Fence("exitfence", "exit") \/ WaitFromhost
  BY <1>2, <1>7 DEF Fence, WaitFromhost, Typed, TypeOK
<1>8. CASE StoreTohost
  <2>1. Store(TOHOST, Buf) /\ TOHOST \in Locs /\ Buf \in Values
    BY <1>0, <1>8, Places DEF StoreTohost, Values
  <2>. QED  BY <1>1, <1>2, <1>8, <2>1 DEF StoreTohost, Typed, TypeOK
<1>9. CASE ClearFromhost
  <2>1. Store(FROMHOST, 0) /\ FROMHOST \in Locs /\ 0 \in Values
    BY <1>0, <1>9, Places DEF ClearFromhost, Values
  <2>. QED  BY <1>1, <1>2, <1>9, <2>1 DEF ClearFromhost, Typed, TypeOK
<1>10. CASE Exit
  <2>1. Store(TOHOST, ExitValue(Code)) /\ TOHOST \in Locs /\ ExitValue(Code) \in Values
    BY <1>0, <1>10, Places DEF Exit, Values
  <2>. QED  BY <1>1, <1>2, <1>10, <2>1 DEF Exit, Typed, TypeOK
<1>11. ASSUME UNCHANGED <<program, hcmd, hbuf, hidx, replies, exitcode, out, hpc, tsi_out>>,
              mem' \in [Locs -> 0..SYS_write], stores' \subseteq stores
       PROVE  Typed'
  BY <1>11, SameCall DEF program, Typed, TypeOK
<1>12. CASE Visible
  <2>1. PICK s \in stores : mem' = [mem EXCEPT ![s[1]] = s[2]] /\ stores' = stores \ {s}
    BY <1>12 DEF Visible
  <2>2. s[2] \in 0..SYS_write
    BY DEF Typed, TypeOK
  <2>3. mem' \in [Locs -> 0..SYS_write]
    BY <2>1, <2>2 DEF Typed, TypeOK
  <2>. QED  BY <1>11, <1>12, <2>1, <2>3 DEF Visible, host
<1>13. ASSUME UNCHANGED <<program, stores>>, mem' \in [Locs -> 0..SYS_write],
              tsi_out' \in Seq(0..SYS_write), hidx' \in Words, hcmd' \in {0, Buf, 1, 3},
              hbuf' \in [Words -> 0..SYS_write],
              replies' \in Nat, exitcode' \in {0, 1, 3},
              out' \in Seq((0..SYS_write) \X (0..SYS_write)),
              hpc' \in {"poll", "polled", "take", "fetch", "fetched", "serve", "reply",
                        "asked", "done"}
       PROVE  Typed'
  BY <1>13, SameCall DEF program, Typed, TypeOK
<1>14. CASE HostAsk
  <2>1. \A l \in Locs : Ask(l) => tsi_out' \in Seq(0..SYS_write)
    BY DEF Ask, Typed, TypeOK
  <2>2. tsi_out' \in Seq(0..SYS_write)
    BY <1>14, <2>1, Places DEF HostAsk, Typed, TypeOK
  <2>3. hpc' \in {"poll", "polled", "fetched", "asked"}
    BY <1>14 DEF HostAsk
  <2>. QED  BY <1>13, <1>14, <2>2, <2>3 DEF HostAsk, Typed, TypeOK
<1>15. \A v : Answered(v) => tsi_out' \in Seq(0..SYS_write)
  BY DEF Answered, Typed, TypeOK
<1>16. CASE HostPoll
  <2>1. tsi_out' \in Seq(0..SYS_write) /\ hpc' \in {"reply", "take"} /\ hcmd' \in {0, Buf, 1, 3}
    BY <1>15, <1>16 DEF HostPoll
  <2>. QED  BY <1>13, <1>16, <2>1 DEF HostPoll, Typed, TypeOK
<1>17. CASE HostTake
  <2>1. mem' \in [Locs -> 0..SYS_write]
    <3>1. 0 \in 0..SYS_write /\ mem' = [mem EXCEPT ![TOHOST] = 0]
      BY <1>0, <1>17 DEF HostTake
    <3>. QED  BY <3>1 DEF Typed, TypeOK
  <2>2. hcmd % 2 = 1 => hcmd \in {1, 3}
    <3>1. hcmd \in {0, 16, 1, 3}
      BY <1>0 DEF Typed, TypeOK
    <3>. QED  BY <3>1
  <2>. QED  BY <1>13, <1>17, <2>1, <2>2, Places DEF HostTake, Typed, TypeOK
<1>18. CASE HostFetch
  <2>1. tsi_out' \in Seq(0..SYS_write) /\ hbuf' \in [Words -> 0..SYS_write]
    BY <1>15, <1>18 DEF HostFetch, Typed, TypeOK
  <2>2. hidx' \in Words
    BY <1>18 DEF HostFetch, Typed, TypeOK, Words, LastWord
  <2>. QED  BY <1>13, <1>18, <2>1, <2>2 DEF HostFetch, Typed, TypeOK
<1>19. CASE HostServe
  <2>1. mem' \in [Locs -> 0..SYS_write]
    BY <1>19 DEF HostServe, Typed, TypeOK, Words, LastWord
  <2>2. <<hbuf[2], hbuf[3]>> \in (0..SYS_write) \X (0..SYS_write)
    BY DEF Typed, TypeOK, Words, LastWord
  <2>3. out' \in Seq((0..SYS_write) \X (0..SYS_write))
    BY <1>19, <2>2 DEF HostServe, Typed, TypeOK
  <2>. QED  BY <1>13, <1>19, <2>1, <2>3 DEF HostServe, Typed, TypeOK
<1>20. CASE HostReply
  <2>1. tsi_out' \in Seq(0..SYS_write)
    BY <1>15, <1>20 DEF HostReply
  <2>2. mem' \in [Locs -> 0..SYS_write]
    <3>1. mem' = mem \/ mem' = [mem EXCEPT ![FROMHOST] = 1]
      BY <1>20 DEF HostReply
    <3>2. 1 \in 0..SYS_write
      BY <1>0
    <3>. QED  BY <3>1, <3>2 DEF Typed, TypeOK
  <2>3. replies' \in Nat
    <3>1. replies = 1
      BY <1>20 DEF HostReply, Turn, Quiet, Posting, Posted, Serving, Replying, Replied,
                   Typed, TypeOK
    <3>. QED  BY <1>20, <3>1 DEF HostReply
  <2>. QED  BY <1>13, <1>20, <2>1, <2>2, <2>3 DEF HostReply, Typed, TypeOK
<1>21. CASE UNCHANGED vars
  BY <1>13, <1>21 DEF vars, host, Typed, TypeOK
<1>. QED
  BY <1>4, <1>5, <1>6, <1>7, <1>8, <1>9, <1>10, <1>12, <1>14, <1>16, <1>17, <1>18, <1>19,
     <1>20, <1>21 DEF Next, Program, Host

\* A store of a word of the request leaves the words before it written.
LEMMA StoreWord ==
  ASSUME TestInv, pc = "fill", Fill
  PROVE  /\ stores' = {s \in stores : s[1] # i} \cup {<<i, Call[i]>>}
         /\ i \in Words /\ Call' = Call /\ Call[i] \in Values
         /\ \A w \in Words : w < i \/ w = i => Written(w)'
<1>1. /\ stores' = {s \in stores : s[1] # i} \cup {<<i, Call[i]>>}
      /\ i \in Words /\ Call' = Call /\ Call[i] \in Values /\ mem' = mem
  BY SameCall, CallIs DEF Fill, Store, Stay, Call, TestInv, Output, Typed, TypeOK
<1>2. ASSUME NEW w \in Words, w < i \/ w = i PROVE Written(w)'
  <2>1. CASE w = i
    BY <1>1, <2>1 DEF Written
  <2>2. CASE w # i
    <3>1. Written(w)
      BY <1>2, <2>2 DEF TestInv, Turn
    <3>2. CASE <<w, Call[w]>> \in stores
      <4>1. <<w, Call[w]>>[1] = w
        OBVIOUS
      <4>2. <<w, Call[w]>> \in stores'
        BY <1>1, <2>2, <3>2, <4>1
      <4>. QED  BY <1>1, <4>2 DEF Written
    <3>3. CASE mem[w] = Call[w] /\ \A s \in stores : s[1] # w
      <4>1. ASSUME NEW s \in stores' PROVE s[1] # w
        BY <1>1, <2>2, <3>3, <4>1
      <4>. QED  BY <1>1, <3>3, <4>1 DEF Written
    <3>. QED  BY <3>1, <3>2, <3>3 DEF Written
  <2>. QED  BY <2>1, <2>2
<1>. QED  BY <1>1, <1>2

LEMMA ProgramStep == ASSUME TestInv, Program PROVE Turn' /\ Fifo' /\ Output'
<1>. USE DEF TestInv
<1>0. Stay /\ fault' = fault
  BY DEF Program, ZeroBss, Main, Fill, StoreTohost, WaitFromhost, ClearFromhost, Exit, Fence
<1>1. /\ mem' = mem /\ tsi_out' = tsi_out /\ hpc' = hpc /\ hcmd' = hcmd /\ hbuf' = hbuf
      /\ hidx' = hidx /\ replies' = replies /\ exitcode' = exitcode /\ out' = out
      /\ Messages' = Messages /\ Code' = Code
  BY <1>0 DEF Stay, host, Messages, Code
<1>2. Fifo'
  BY <1>1 DEF Fifo
<1>3. ASSUME NEW l, NEW v, Store(l, v) PROVE stores' = {s \in stores : s[1] # l} \cup {<<l, v>>}
  BY <1>3 DEF Store
<1>4. CASE ZeroBss
  <2>1. /\ pc = "start" /\ pc' \in {"start", "main"} /\ printed' = printed
        /\ stores' = {s \in stores : s[1] # i} \cup {<<i, 0>>} /\ i \in Words
    BY <1>3, <1>4 DEF ZeroBss, Typed, TypeOK
  <2>2. stores' \subseteq Words \X {0}
    BY <2>1 DEF Turn
  <2>3. stores' \subseteq Words \X Values
    BY <2>2 DEF Values, SYS_write
  <2>4. Turn'
    BY <1>1, <2>1, <2>2, <2>3 DEF Turn, Quiet
  <2>5. Output'
    BY <1>1, <2>1 DEF Output, Unserved, Turn, Quiet
  <2>. QED  BY <1>2, <2>4, <2>5
<1>5. CASE Main
  <2>1. /\ pc = "main" /\ stores' = stores /\ i' = 0
        /\ \/ pc' = "fill" /\ printed' = printed + 1 /\ printed < Len(Messages)
           \/ pc' = "exitfence" /\ printed' = printed /\ ~(printed < Len(Messages))
    BY <1>5 DEF Main, Typed
  <2>2. Turn'
    BY <1>1, <2>1 DEF Turn, Quiet, Words
  <2>3. Output'
    <3>1. Len(Messages) \in Nat /\ printed \in 0..Len(Messages)
      BY MessagesAre DEF Typed, TypeOK
    <3>2. \/ pc' = "fill" /\ printed' - 1 = printed /\ printed' # 0
          \/ pc' = "exitfence" /\ printed' = printed /\ printed = Len(Messages)
      BY <2>1, <3>1
    <3>. HIDE <2>1
    <3>3. pc = "main" /\ pc' \in {"fill", "exitfence"}
      BY <2>1
    <3>. QED  BY <1>1, <3>2, <3>3 DEF Output, Unserved
  <2>. QED  BY <1>2, <2>2, <2>3
<1>6. CASE Fill
  <2>1. /\ pc = "fill" /\ pc' \in {"fill", "fence"} /\ printed' = printed
        /\ pc' = "fence" => i = LastWord
        /\ pc' = "fill" => i' = i + 1 /\ i # LastWord
    <3>1. i \in 0..4 /\ LastWord = 4 /\ (i # 4 => (i + 1) % (4 + 1) = i + 1)
      BY SMTT(30) DEF Typed, TypeOK, Words, LastWord
    <3>. QED  BY <1>6, <3>1 DEF Fill
  <2>2. /\ stores' = {s \in stores : s[1] # i} \cup {<<i, Call[i]>>}
        /\ i \in Words /\ Call[i] \in Values
        /\ \A w \in Words : w < i \/ w = i => Written(w)'
    BY <1>6, <2>1, StoreWord
  <2>3. \A s \in stores' : s \in stores \/ s = <<i, Call[i]>>
    BY <2>2
  <2>4. stores' \subseteq (Words \X Values) \cup {<<FROMHOST, 0>>}
    BY <2>1, <2>2, <2>3 DEF Turn
  <2>5. mem[FROMHOST] = 1 => <<FROMHOST, 0>> \in stores'
    <3>1. <<FROMHOST, 0>>[1] = FROMHOST /\ FROMHOST # i
      BY <2>2, Places
    <3>. QED  BY <2>1, <2>2, <3>1 DEF Turn
  <2>6. /\ pc' = "fence" => \A w \in Words : Written(w)'
        /\ pc' = "fill" => \A w \in Words : w < i' => Written(w)'
    BY <2>1, <2>2 DEF Words, LastWord
  <2>7. Turn'
    BY <1>1, <2>1, <2>4, <2>5, <2>6 DEF Turn, Quiet
  <2>8. Output'
    BY <1>1, <2>1 DEF Output, Unserved
  <2>. QED  BY <1>2, <2>7, <2>8
<1>7. CASE Fence("fence", "tohost")
  <2>1. /\ pc = "fence" /\ pc' = "tohost" /\ stores = {} /\ stores' = {}
        /\ printed' = printed /\ Call' = Call
    BY <1>0, <1>7, SameCall DEF Fence
  <2>2. Readable
    BY <2>1 DEF Turn, Readable, Written
  <2>3. Turn'
    BY <1>1, <2>1, <2>2 DEF Turn, Quiet, Readable
  <2>4. Output'
    BY <1>1, <2>1 DEF Output, Unserved
  <2>. QED  BY <1>2, <2>3, <2>4
<1>8. CASE Fence("exitfence", "exit")
  <2>1. /\ pc = "exitfence" /\ pc' = "exit" /\ stores = {} /\ stores' = {}
        /\ printed' = printed
    BY <1>8 DEF Fence
  <2>2. Turn'
    BY <1>1, <2>1 DEF Turn, Quiet
  <2>3. Output'
    BY <1>1, <2>1 DEF Output, Unserved
  <2>. QED  BY <1>2, <2>2, <2>3
<1>9. CASE StoreTohost
  <2>1. /\ pc = "tohost" /\ pc' = "wait" /\ stores = {} /\ stores' = {<<TOHOST, Buf>>}
        /\ printed' = printed /\ Call' = Call
    BY <1>0, <1>3, <1>9, SameCall DEF StoreTohost, Turn
  <2>2. Turn'
    BY <1>1, <2>1 DEF Turn, Quiet, Readable, Posting
  <2>3. Output'
    BY <1>1, <2>1 DEF Output, Unserved, Turn, Quiet
  <2>. QED  BY <1>2, <2>2, <2>3
<1>10. CASE WaitFromhost
  <2>1. /\ pc = "wait" /\ pc' = "ack" /\ stores' = stores /\ printed' = printed
        /\ Load(FROMHOST) # 0
    BY <1>10 DEF WaitFromhost
  <2>2. mem[FROMHOST] # 0
    <3>1. \A s \in stores : s[1] # FROMHOST
      BY <2>1, Places DEF Turn, Posting, Posted, Serving, Replying, Replied
    <3>. QED  BY <2>1, <3>1 DEF Load
  <2>3. Replied
    BY <2>1, <2>2 DEF Turn
  <2>4. Turn'
    BY <1>1, <2>1, <2>3 DEF Turn, Replied, Quiet
  <2>5. Output'
    BY <1>1, <2>1, <2>3 DEF Output, Unserved, Replied
  <2>. QED  BY <1>2, <2>4, <2>5
<1>11. CASE ClearFromhost
  <2>1. /\ pc = "ack" /\ pc' = "main" /\ printed' = printed
        /\ stores' = {s \in stores : s[1] # FROMHOST} \cup {<<FROMHOST, 0>>}
    BY <1>3, <1>11 DEF ClearFromhost
  <2>2. stores' = {<<FROMHOST, 0>>}
    BY <2>1 DEF Turn, Replied
  <2>3. Turn'
    BY <1>1, <2>1, <2>2 DEF Turn, Replied, Quiet
  <2>4. Output'
    BY <1>1, <2>1 DEF Output, Unserved
  <2>. QED  BY <1>2, <2>3, <2>4
<1>12. CASE Exit
  <2>1. /\ pc = "exit" /\ pc' = "exited" /\ printed' = printed
        /\ stores' = {<<TOHOST, ExitValue(Code)>>}
    BY <1>3, <1>12 DEF Exit, Turn
  <2>2. ExitValue(Code)' = ExitValue(Code)
    BY <1>1 DEF ExitValue
  <2>3. Turn'
    BY <1>1, <2>1, <2>2 DEF Turn, Posting, Quiet
  <2>4. Output'
    BY <1>1, <2>1 DEF Output, Unserved, Turn, Quiet
  <2>. QED  BY <1>2, <2>3, <2>4
<1>. QED
  BY <1>4, <1>5, <1>6, <1>7, <1>8, <1>9, <1>10, <1>11, <1>12 DEF Program

-----------------------------------------------------------------------------
(* Stores that become visible.                                             *)

LEMMA VisibleStep == ASSUME TestInv, Visible PROVE Turn' /\ Fifo' /\ Output'
<1>. USE DEF TestInv
<1>1. PICK s \in stores : mem' = [mem EXCEPT ![s[1]] = s[2]] /\ stores' = stores \ {s}
  BY DEF Visible
<1>2. /\ pc' = pc /\ i' = i /\ printed' = printed /\ tsi_out' = tsi_out /\ hpc' = hpc
      /\ hcmd' = hcmd /\ hbuf' = hbuf /\ hidx' = hidx /\ replies' = replies
      /\ exitcode' = exitcode /\ out' = out
      /\ Messages' = Messages /\ Code' = Code /\ Call' = Call
  BY SameCall DEF Visible, program, host
<1>3. /\ s[1] \in Locs /\ s[2] \in Values /\ s = <<s[1], s[2]>>
      /\ mem'[s[1]] = s[2] /\ \A l \in Locs \ {s[1]} : mem'[l] = mem[l]
  BY <1>1 DEF Typed, TypeOK, Values
<1>4. CASE pc \in {"start", "main", "fill", "fence", "exitfence"}
  <2>1. s \in Words \X Values \/ s = <<FROMHOST, 0>>
    BY <1>4 DEF Turn, Values, SYS_write
  <2>2. s[1] # TOHOST /\ (s[1] = FROMHOST => s[2] = 0 /\ s = <<FROMHOST, 0>>)
    BY <2>1, Places
  <2>3. Quiet'
    BY <1>2, <1>3, <1>4, <2>2, Places DEF Turn, Quiet
  <2>4. (mem'[FROMHOST] = mem[FROMHOST] /\ s[1] # FROMHOST) \/ mem'[FROMHOST] = 0
    BY <1>3, <2>2, Places
  <2>5. /\ mem'[FROMHOST] \in {0, 1}
        /\ pc = "start" => mem'[FROMHOST] = 0
        /\ pc # "start" /\ mem'[FROMHOST] = 1 => <<FROMHOST, 0>> \in stores'
    <3>1. s = <<FROMHOST, 0>> => mem'[FROMHOST] = 0
      BY <1>3
    <3>. QED  BY <1>1, <1>4, <2>4, <3>1 DEF Turn
  <2>6. ASSUME NEW w \in Words, Written(w) PROVE Written(w)'
    <3>1. CASE s = <<w, Call[w]>>
      <4>1. s[1] = w /\ s[2] = Call[w]
        BY <3>1
      <4>2. \A t \in stores' : t[1] # w
        BY <1>1, <4>1 DEF Typed
      <4>. QED  BY <1>2, <1>3, <4>1, <4>2 DEF Written
    <3>2. CASE s # <<w, Call[w]>> /\ <<w, Call[w]>> \in stores
      BY <1>1, <1>2, <3>2 DEF Written
    <3>3. CASE mem[w] = Call[w] /\ \A t \in stores : t[1] # w
      BY <1>1, <1>2, <1>3, <3>3, Places DEF Written
    <3>. QED  BY <2>6, <3>1, <3>2, <3>3 DEF Written
  <2>7. Turn'
    <3>1. stores' \subseteq stores
      BY <1>1
    <3>. QED  BY <1>2, <1>4, <2>3, <2>5, <2>6, <3>1 DEF Turn
  <2>8. Fifo'
    <3>1. hpc \in {"poll", "polled", "reply"} /\ mem[TOHOST] = 0 /\ mem'[TOHOST] = 0
      BY <1>4, <2>3 DEF Turn, Quiet
    <3>. QED  BY <1>2, <3>1 DEF Fifo
  <2>9. Output'
    BY <1>2, <1>4 DEF Output, Unserved
  <2>. QED  BY <2>7, <2>8, <2>9
<1>5. CASE pc \in {"wait", "exited"}
  <2>. DEFINE v == s[2]
  <2>1. /\ stores = {s} /\ stores' = {} /\ s = <<TOHOST, v>> /\ Quiet
        /\ v = IF pc = "wait" THEN Buf ELSE ExitValue(Code)
    BY <1>1, <1>5 DEF Turn, Posting, Posted, Serving, Replying, Replied
  <2>2. /\ mem'[TOHOST] = v /\ mem'[FROMHOST] = mem[FROMHOST] /\ s[1] = TOHOST
        /\ \A w \in Words : mem'[w] = mem[w]
    BY <1>3, <2>1, Places
  <2>3. Posted(v)'
    BY <1>2, <2>1, <2>2 DEF Posted, Quiet
  <2>4. ExitValue(Code)' = ExitValue(Code)
    BY <1>2 DEF ExitValue
  <2>5. /\ mem[FROMHOST] = 0 /\ replies = 0
        /\ pc = "wait" => Readable
    BY <1>5, <2>1 DEF Turn, Posting, Posted, Serving, Replying, Replied, Quiet
  <2>6. Turn'
    <3>1. pc = "wait" => Readable'
      BY <1>2, <2>2, <2>5 DEF Readable
    <3>2. hpc \in {"poll", "polled", "reply"}
      BY <2>1 DEF Quiet
    <3>3. Posted(v)' => /\ stores' = {} /\ mem'[TOHOST] = v /\ replies' = 0
                        /\ hpc' \in {"poll", "polled", "reply", "take"}
      BY DEF Posted
    <3>. QED  BY <1>2, <1>5, <2>1, <2>2, <2>3, <2>4, <2>5, <3>1, <3>2, <3>3 DEF Turn, Posted
  <2>7. Fifo'
    <3>1. hpc \in {"poll", "polled", "reply"} /\ mem[TOHOST] = 0
      BY <2>1 DEF Quiet
    <3>. QED  BY <1>2, <3>1 DEF Fifo
  <2>8. Output'
    BY <1>2, <2>2 DEF Output, Unserved
  <2>. QED  BY <2>6, <2>7, <2>8
<1>6. CASE pc \in {"tohost", "exit", "ack"}
  BY <1>6 DEF Turn, Replied
<1>. QED  BY <1>4, <1>5, <1>6 DEF Typed, TypeOK

-----------------------------------------------------------------------------
(* The host.                                                               *)

\* In any case the host is at one of its steps.
LEMMA HostAt ==
  ASSUME TestInv
  PROVE  /\ hpc \in {"take", "fetch", "fetched", "serve", "asked"} => pc \in {"wait", "exited"}
         /\ hpc = "take" => stores = {} /\ mem[TOHOST] # 0 /\ replies = 0
         /\ hpc \in {"fetch", "fetched", "serve"} =>
              pc = "wait" /\ Serving /\ mem[FROMHOST] = 0 /\ Readable
         /\ replies # 0 \/ hpc = "asked" => pc = "wait" /\ Replying /\ mem[FROMHOST] = 0
         /\ printed \in Nat
<1>1. /\ pc \in {"start", "main", "fill", "fence", "tohost", "wait", "ack", "exitfence",
                 "exit", "exited"}
      /\ printed \in Nat
  BY MessagesAre DEF TestInv, Typed, TypeOK
<1>2. ExitValue(Code) # 0 /\ Buf # 0
  BY MessagesAre DEF TestInv, Typed, Buf
<1>. QED
  BY <1>1, <1>2 DEF TestInv, Turn, Quiet, Posting, Posted, Serving, Replying, Replied

\* The host goes from one step at which it is idle to another.
LEMMA HostIdle ==
  ASSUME TestInv, UNCHANGED <<program, stores, mem, replies, exitcode, out>>,
         hpc \in {"poll", "polled", "reply"}, replies = 0,
         hpc' \in {"poll", "polled", "reply"}
  PROVE  Turn' /\ Output'
<1>. USE DEF TestInv
<1>1. /\ pc' = pc /\ i' = i /\ printed' = printed /\ stores' = stores /\ mem' = mem
      /\ replies' = replies /\ exitcode' = exitcode /\ out' = out
      /\ Messages' = Messages /\ Code' = Code /\ Call' = Call
      /\ ExitValue(Code)' = ExitValue(Code)
  BY SameCall DEF program, ExitValue
<1>2. /\ Quiet' <=> Quiet
      /\ Replied' <=> Replied
      /\ Readable' <=> Readable
      /\ ~Serving /\ ~Replying
  BY <1>1 DEF Quiet, Replied, Readable, Serving, Replying
<1>3. ASSUME NEW v PROVE (Posting(v)' <=> Posting(v)) /\ (Posted(v)' <=> Posted(v))
  BY <1>1, <1>2 DEF Posting, Posted
<1>4. ASSUME NEW w PROVE Written(w)' <=> Written(w)
  BY <1>1 DEF Written
<1>5. hpc # "done" /\ hpc' # "done"
  OBVIOUS
<1>6. Turn'
  <2>1. CASE pc = "wait"
    BY <1>1, <1>2, <1>3, <1>5, <2>1 DEF Turn
  <2>2. CASE pc = "exited"
    BY <1>1, <1>2, <1>3, <1>5, <2>2 DEF Turn
  <2>3. CASE pc \notin {"wait", "exited"}
    BY <1>1, <1>2, <1>4, <1>5, <2>3 DEF Turn
  <2>. QED  BY <2>1, <2>2, <2>3
<1>7. Output'
  BY <1>1 DEF Output, Unserved
<1>. QED  BY <1>6, <1>7

LEMMA HostStep == ASSUME TestInv, Host PROVE Turn' /\ Fifo' /\ Output'
<1>. USE DEF TestInv
<1>0. UNCHANGED <<program, stores>>
  BY DEF Host, HostAsk, HostPoll, HostTake, HostFetch, HostServe, HostReply
<1>1. /\ pc' = pc /\ i' = i /\ printed' = printed /\ stores' = stores
      /\ Messages' = Messages /\ Code' = Code /\ Call' = Call
      /\ ExitValue(Code)' = ExitValue(Code)
  BY <1>0, SameCall DEF program, ExitValue
<1>2. /\ TOHOST \in Locs /\ FROMHOST \in Locs /\ TOHOST # FROMHOST /\ Words \subseteq Locs
      /\ TOHOST \notin Words /\ FROMHOST \notin Words
      /\ mem \in [Locs -> Values] /\ hidx \in Words /\ hbuf \in [Words -> Values]
  BY Places DEF Typed, TypeOK, Values
<1>3. CASE HostAsk
  <2>1. UNCHANGED <<mem, hcmd, hbuf, hidx, replies, exitcode, out>>
    BY <1>3 DEF HostAsk
  <2>2. CASE hpc = "poll" /\ Ask(TOHOST) /\ hpc' = "polled"
    <3>1. replies = 0
      BY <2>2, HostAt DEF Replying
    <3>2. Turn' /\ Output'
      BY <1>0, <2>1, <2>2, <3>1, HostIdle
    <3>3. tsi_out' = <<mem[TOHOST]>>
      BY <2>2 DEF Ask, Fifo
    <3>. QED  BY <2>1, <2>2, <3>2, <3>3 DEF Fifo
  <2>3. CASE hpc = "fetch" /\ Ask(hidx) /\ hpc' = "fetched"
    <3>1. pc = "wait" /\ Serving /\ mem[FROMHOST] = 0 /\ Readable
      BY <2>3, HostAt
    <3>2. Serving' /\ Readable'
      BY <1>1, <2>1, <2>3, <3>1 DEF Serving, Readable
    <3>3. Turn'
      BY <1>1, <2>1, <2>3, <3>1, <3>2 DEF Turn
    <3>4. tsi_out' = <<mem[hidx]>>
      BY <2>3 DEF Ask, Fifo
    <3>5. Output'
      BY <1>1, <2>1, <2>3, <3>1 DEF Output, Unserved
    <3>. QED  BY <2>1, <2>3, <3>3, <3>4, <3>5 DEF Fifo
  <2>4. CASE hpc = "reply" /\ replies > 0 /\ Ask(FROMHOST) /\ hpc' = "asked"
    <3>1. pc = "wait" /\ Replying /\ mem[FROMHOST] = 0
      BY <2>4, HostAt
    <3>2. Replying'
      BY <1>1, <2>1, <2>4, <3>1 DEF Replying
    <3>3. Turn'
      BY <1>1, <2>1, <2>4, <3>1, <3>2 DEF Turn
    <3>4. tsi_out' = <<0>>
      BY <2>4, <3>1 DEF Ask, Fifo
    <3>5. Output'
      BY <1>1, <2>1, <2>4, <3>1 DEF Output, Unserved
    <3>. QED  BY <2>1, <2>4, <3>3, <3>4, <3>5 DEF Fifo
  <2>5. CASE hpc = "reply" /\ replies = 0 /\ hpc' = "poll" /\ UNCHANGED tsi_out
    <3>1. Turn' /\ Output'
      BY <1>0, <2>1, <2>5, HostIdle
    <3>. QED  BY <2>1, <2>5, <3>1 DEF Fifo
  <2>. QED  BY <1>3, <2>2, <2>3, <2>4, <2>5 DEF HostAsk
<1>4. CASE HostPoll
  <2>1. /\ hpc = "polled" /\ UNCHANGED <<mem, hbuf, hidx, replies, exitcode, out>>
        /\ replies = 0
    BY <1>4, HostAt DEF HostPoll, Replying
  <2>2. PICK v : Answered(v) /\ hcmd' = v /\ hpc' = IF v = 0 THEN "reply" ELSE "take"
    BY <1>4 DEF HostPoll
  <2>3. v \in {0, mem[TOHOST]} /\ tsi_out' = << >>
    BY <2>1, <2>2 DEF Answered, Fifo
  <2>4. CASE v = 0
    <3>1. Turn' /\ Output'
      BY <1>0, <2>1, <2>2, <2>4, HostIdle
    <3>. QED  BY <2>1, <2>2, <2>3, <2>4, <3>1 DEF Fifo
  <2>5. CASE v # 0
    <3>1. hpc' = "take" /\ hcmd' = mem[TOHOST] /\ mem[TOHOST] # 0
      BY <2>2, <2>3, <2>5
    <3>2. \/ /\ pc = "wait" /\ Posted(Buf) /\ mem[FROMHOST] = 0 /\ Readable
          \/ /\ pc = "exited" /\ Posted(ExitValue(Code))
      BY <2>1, <3>1
         DEF Turn, Quiet, Posting, Serving, Replying, Replied, Typed, TypeOK
    <3>3. ASSUME NEW x, Posted(x) PROVE Posted(x)'
      BY <1>1, <2>1, <3>1, <3>3 DEF Posted
    <3>4. Turn'
      <4>1. CASE pc = "wait"
        <5>1. Posted(Buf)' /\ Readable'
          BY <1>1, <2>1, <3>2, <3>3, <4>1 DEF Readable
        <5>. QED  BY <1>1, <2>1, <3>1, <3>2, <4>1, <5>1 DEF Turn
      <4>2. CASE pc = "exited"
        <5>1. Posted(ExitValue(Code))'
          BY <1>1, <2>1, <3>1, <3>2, <4>2 DEF Posted
        <5>. QED  BY <1>1, <2>1, <3>1, <4>2, <5>1 DEF Turn
      <4>. QED  BY <3>2, <4>1, <4>2
    <3>5. Output'
      BY <1>1, <2>1, <3>1 DEF Output, Unserved
    <3>. QED  BY <2>1, <2>3, <3>1, <3>4, <3>5 DEF Fifo
  <2>. QED  BY <2>4, <2>5
<1>5. CASE HostTake
  <2>1. /\ hpc = "take" /\ mem' = [mem EXCEPT ![TOHOST] = 0] /\ hidx' = 0
        /\ UNCHANGED <<tsi_out, hcmd, hbuf, replies, out>>
        /\ stores = {} /\ mem[TOHOST] # 0 /\ replies = 0 /\ hcmd = mem[TOHOST]
        /\ pc \in {"wait", "exited"} /\ tsi_out = << >>
    BY <1>5, HostAt DEF HostTake, Fifo
  <2>2. /\ mem'[TOHOST] = 0 /\ mem'[FROMHOST] = mem[FROMHOST]
        /\ \A w \in Words : mem'[w] = mem[w]
    BY <1>2, <2>1
  <2>3. CASE pc = "wait"
    <3>1. Posted(Buf) /\ mem[FROMHOST] = 0 /\ Readable
      BY <2>1, <2>3 DEF Turn, Posting, Serving, Replying, Replied, Quiet
    <3>2. hcmd % 2 # 1
      <4>1. hcmd = 16
        BY <2>1, <3>1 DEF Posted, Buf
      <4>. QED  BY <4>1
    <3>3. hpc' = "fetch" /\ exitcode' = exitcode
      BY <1>5, <3>2 DEF HostTake
    <3>4. Serving' /\ Readable'
      BY <1>1, <2>1, <2>2, <3>1, <3>3 DEF Serving, Readable, Words, LastWord
    <3>5. Turn'
      BY <1>1, <2>2, <2>3, <3>1, <3>3, <3>4 DEF Turn
    <3>6. Output'
      BY <1>1, <2>1, <2>2, <2>3, <3>3 DEF Output, Unserved
    <3>. QED  BY <2>1, <3>3, <3>5, <3>6 DEF Fifo
  <2>4. CASE pc = "exited"
    <3>1. Posted(ExitValue(Code)) /\ mem[FROMHOST] = 0
      BY <2>1, <2>4 DEF Turn, Posting, Quiet
    <3>2. hcmd % 2 = 1 /\ hcmd = ExitValue(Code)
      <4>1. hcmd \in {1, 3} /\ hcmd = ExitValue(Code)
        BY <2>1, <3>1, MessagesAre DEF Posted, Typed
      <4>. QED  BY <4>1
    <3>3. hpc' = "done" /\ exitcode' = ExitValue(Code)
      BY <1>5, <3>2 DEF HostTake
    <3>4. Turn'
      BY <1>1, <2>1, <2>2, <2>4, <3>1, <3>3 DEF Turn
    <3>5. Output'
      BY <1>1, <2>1, <2>2, <2>4, <3>3 DEF Output, Unserved
    <3>. QED  BY <2>1, <3>3, <3>4, <3>5 DEF Fifo
  <2>. QED  BY <2>1, <2>3, <2>4
<1>6. CASE HostFetch
  <2>1. /\ hpc = "fetched" /\ UNCHANGED <<mem, hcmd, replies, exitcode, out>>
        /\ hpc' \in {"serve", "fetch"}
        /\ pc = "wait" /\ Serving /\ mem[FROMHOST] = 0 /\ Readable
    BY <1>6, HostAt DEF HostFetch
  <2>2. /\ hbuf' = [hbuf EXCEPT ![hidx] = mem[hidx]] /\ tsi_out' = << >>
    <3>1. tsi_out = <<mem[hidx]>>
      BY <2>1 DEF Fifo
    <3>2. \A v : Answered(v) => v = mem[hidx] /\ tsi_out' = << >>
      BY <3>1 DEF Answered
    <3>. QED  BY <1>6, <3>2 DEF HostFetch
  <2>3. /\ hbuf'[hidx] = Call[hidx]
        /\ \A w \in Words : w < hidx => hbuf'[w] = Call[w]
    BY <1>2, <2>1, <2>2 DEF Serving, Readable, Words
  <2>4. \A w \in Words : w < hidx' \/ hpc' = "serve" => w < hidx \/ w = hidx
    <3>1. hidx \in 0..4 /\ LastWord = 4 /\ (hidx # 4 => (hidx + 1) % (4 + 1) = hidx + 1)
          /\ (hidx = 4 => (hidx + 1) % (4 + 1) = 0)
      BY <1>2 DEF Words, LastWord
    <3>. QED  BY <1>6, <3>1 DEF HostFetch, Words
  <2>5. Serving' /\ Readable'
    BY <1>1, <2>1, <2>3, <2>4 DEF Serving, Readable
  <2>6. Turn'
    BY <1>1, <2>1, <2>5 DEF Turn
  <2>7. Output'
    BY <1>1, <2>1 DEF Output, Unserved
  <2>. QED  BY <2>1, <2>2, <2>6, <2>7 DEF Fifo
<1>7. CASE HostServe
  <2>1. /\ hpc = "serve" /\ hpc' = "reply" /\ replies' = 1 /\ stores = {}
        /\ UNCHANGED <<tsi_out, hcmd, hbuf, hidx, exitcode>>
        /\ pc = "wait" /\ Serving /\ mem[FROMHOST] = 0 /\ Readable /\ mem[TOHOST] = 0
        /\ replies = 0 /\ tsi_out = << >>
    BY <1>7, HostAt DEF HostServe, Serving, Fifo
  <2>2. mem'[TOHOST] = 0 /\ mem'[FROMHOST] = 0
    BY <1>2, <1>7, <2>1, Places DEF HostServe
  <2>3. /\ printed \in 1..Len(Messages) /\ Len(out) = printed - 1
        /\ out' = Append(out, <<Messages[printed], 10 + Messages[printed]>>)
    <3>1. hbuf[2] = Call[2] /\ hbuf[3] = Call[3]
      BY <2>1 DEF Serving, Words, LastWord
    <3>2. printed # 0 /\ Len(out) = printed - 1
      BY <2>1 DEF Output, Unserved
    <3>. QED  BY <1>7, <3>1, <3>2, CallIs DEF HostServe
  <2>4. Turn'
    <3>1. Replying'
      BY <1>1, <2>1, <2>2 DEF Replying
    <3>. QED  BY <1>1, <2>1, <2>2, <3>1 DEF Turn
  <2>5. Output'
    <3>1. /\ Len(out') = printed /\ out'[printed] = <<Messages[printed], 10 + Messages[printed]>>
          /\ \A k \in 1..(printed - 1) : out'[k] = out[k]
      BY <2>3, MessagesAre DEF Typed, TypeOK
    <3>2. \A k \in 1..Len(out') : out'[k] = <<Messages[k], 10 + Messages[k]>>
      BY <2>3, <3>1, MessagesAre DEF Output, Typed
    <3>. QED  BY <1>1, <2>1, <2>2, <2>3, <3>1, <3>2 DEF Output, Unserved
  <2>. QED  BY <2>1, <2>4, <2>5 DEF Fifo
<1>8. CASE HostReply
  <2>1. /\ hpc = "asked" /\ hpc' = "poll" /\ UNCHANGED <<hcmd, hbuf, hidx, exitcode, out>>
        /\ pc = "wait" /\ Replying /\ mem[FROMHOST] = 0
    BY <1>8, HostAt DEF HostReply
  <2>2. /\ mem' = [mem EXCEPT ![FROMHOST] = 1] /\ replies' = 0 /\ tsi_out' = << >>
    <3>1. tsi_out = <<0>> /\ replies = 1
      BY <2>1 DEF Fifo, Replying
    <3>2. \A v : Answered(v) => v = 0 /\ tsi_out' = << >>
      BY <3>1 DEF Answered
    <3>. QED  BY <1>8, <3>1, <3>2 DEF HostReply
  <2>3. mem'[TOHOST] = 0 /\ mem'[FROMHOST] = 1
    BY <1>2, <2>1, <2>2 DEF Replying
  <2>4. Replied'
    BY <1>1, <2>1, <2>2, <2>3 DEF Replied, Replying, Quiet
  <2>5. Turn'
    BY <1>1, <2>1, <2>4 DEF Turn
  <2>6. Output'
    BY <1>1, <2>1, <2>3 DEF Output, Unserved, Replying
  <2>. QED  BY <2>1, <2>2, <2>5, <2>6 DEF Fifo
<1>. QED  BY <1>3, <1>4, <1>5, <1>6, <1>7, <1>8 DEF Host

LEMMA TestInvariance == TestInv /\ [Next]_vars => TestInv'
<1>. SUFFICES ASSUME TestInv, [Next]_vars PROVE TestInv'
  OBVIOUS
<1>1. CASE UNCHANGED vars
  <2>1. Call' = Call /\ Messages' = Messages /\ Code' = Code
    BY <1>1, SameCall DEF vars, program
  <2>2. Fifo' /\ Output'
    BY <1>1, <2>1 DEF TestInv, Fifo, Output, Unserved, vars, program, host, ExitValue
  <2>3. Turn'
    BY <1>1, <2>1 DEF TestInv, Turn, Quiet, Readable, Written, Posting, Posted, Serving,
                      Replying, Replied, vars, program, host, ExitValue
  <2>. QED  BY <2>2, <2>3, TypedStep DEF TestInv
<1>. QED  BY <1>1, TypedStep, ProgramStep, VisibleStep, HostStep DEF Next, TestInv

-----------------------------------------------------------------------------
(* The probe, and the theorems.                                            *)

LEMMA Registers ==
  /\ \A k \in DOMAIN Probe!regs : Probe!regs[k] # Probe!TSI_OUT_FIFO_DATA /\ k \in 1..10
  /\ Probe!regs[1] = Probe!TSI_OUT_FIFO_COUNT /\ Len(Probe!regs) = 10
BY DEF Probe!regs, Probe!TSI_OUT_FIFO_DATA, Probe!TSI_OUT_FIFO_COUNT

\* The probe pops nothing: no register that it reads is the data of TSI_OUT.
LEMMA ProbeLooksOnly == ASSUME ProbeStep PROVE UNCHANGED vars
<1>1. UNCHANGED tsi_out
  BY Registers DEF ProbeStep, Probe!Next, Probe!Open, Probe!ReadRegister, Probe!Verdict
<1>. QED  BY <1>1 DEF ProbeStep, vars

\* Until the verdict every register read was 0xffffffff, or one was not; a PL that
\* is alive shows itself with its first count.
ProbeInv ==
  /\ pl \in {"alive", "dead"} /\ ppc \in Nat /\ ones \in BOOLEAN
  /\ pl = "dead" => ones
  /\ pl = "alive" /\ ppc > 1 => ~ones
  /\ VerdictRight

LEMMA ProbeInvInit == Probe!Init => ProbeInv
BY DEF Probe!Init, ProbeInv, VerdictRight, Probe!VerdictRight

LEMMA ProbeInvStep == ASSUME ProbeInv, [Probe!Next]_probe PROVE ProbeInv'
<1>. USE DEF ProbeInv, VerdictRight, Probe!VerdictRight
<1>1. CASE Probe!Open
  BY <1>1 DEF Probe!Open
<1>2. CASE Probe!ReadRegister
  <2>1. /\ UNCHANGED <<pl, verdict>> /\ ppc' = ppc + 1 /\ ppc \in 1..10
    BY <1>2, Registers DEF Probe!ReadRegister
  <2>2. PICK v \in BOOLEAN : /\ IF pl = "dead" THEN v ELSE v => Probe!MayBeOnes(Probe!regs[ppc])
                             /\ ones' = (ones /\ v)
    BY <1>2 DEF Probe!ReadRegister, Probe!Count
  <2>3. pl = "alive" /\ ppc = 1 => ~v
    BY <2>2, Registers DEF Probe!MayBeOnes
  <2>4. ones' \in BOOLEAN /\ (ones' <=> ones /\ v)
    BY <2>2
  <2>. QED  BY <2>1, <2>2, <2>3, <2>4
<1>3. CASE Probe!Verdict
  <2>1. /\ UNCHANGED <<pl, ppc, ones>> /\ ppc > 1
        /\ verdict' = IF ones THEN "dead" ELSE "alive"
    BY <1>3, Registers DEF Probe!Verdict
  <2>. QED  BY <2>1
<1>4. CASE UNCHANGED probe
  BY <1>4 DEF probe
<1>. QED  BY <1>1, <1>2, <1>3, <1>4 DEF Probe!Next

LEMMA ProbedInvariant == ProbedSpec => [](TestInv /\ ProbeInv)
<1>1. ProbedInit => TestInv /\ ProbeInv
  BY TestInit, ProbeInvInit DEF ProbedInit
<1>2. TestInv /\ ProbeInv /\ [ProbedNext]_all => (TestInv /\ ProbeInv)'
  <2>. SUFFICES ASSUME TestInv, ProbeInv, [ProbedNext]_all PROVE TestInv' /\ ProbeInv'
    OBVIOUS
  <2>1. [Next]_vars
    BY ProbeLooksOnly DEF ProbedNext, TestStep, Next, all
  <2>2. [Probe!Next]_probe
    BY DEF ProbedNext, TestStep, ProbeStep, all
  <2>. QED  BY <2>1, <2>2, TestInvariance, ProbeInvStep
<1>. QED  BY <1>1, <1>2, PTL DEF ProbedSpec

\* While a probe reads the adapter's registers, the handshake of the test and its
\* host holds: the host never reads a request that is not whole, and every answer
\* is that of the call that waits for it.
THEOREM HandshakeHolds == ProbedSpec => []Handshake
<1>1. TestInv => Handshake
  <2>. SUFFICES ASSUME TestInv PROVE Handshake
    OBVIOUS
  <2>1. TypeOK
    BY DEF TestInv, Typed
  <2>2. RequestWhole
    BY HostAt DEF RequestWhole, Serving, Call
  <2>3. AnswersMatched
    <3>1. mem[FROMHOST] \in Nat /\ replies \in Nat
      <4>1. mem[FROMHOST] \in 0..SYS_write /\ replies \in Nat
        BY <2>1, Places DEF TypeOK
      <4>. QED  BY <4>1 DEF SYS_write
    <3>2. Answers \in {0, 1}
      BY <2>1, <3>1 DEF TestInv, Turn, Answers, Quiet, Replying, Replied, Posting, Posted,
                        Serving, TypeOK
    <3>3. Answers = 1 /\ pc \notin {"wait", "ack"} => <<FROMHOST, 0>> \in stores
      BY <2>1, <3>1 DEF TestInv, Turn, Answers, Quiet, TypeOK
    <3>4. <<FROMHOST, 0>> \in stores => pc \in {"main", "fill", "fence", "exitfence"}
      <4>1. <<FROMHOST, 0>> # <<TOHOST, Buf>> /\ <<FROMHOST, 0>> # <<TOHOST, ExitValue(Code)>>
            /\ <<FROMHOST, 0>> \notin Words \X {0}
        BY Places
      <4>. QED
        BY <2>1, <4>1 DEF TestInv, Turn, Posting, Posted, Serving, Replying, Replied, TypeOK
    <3>. QED  BY <3>2, <3>3, <3>4 DEF AnswersMatched
  <2>. QED  BY <2>1, <2>2, <2>3 DEF Handshake
<1>. QED  BY <1>1, ProbedInvariant, PTL

\* The terminal shows what main printed, in order, each message once and whole, and
\* the exit comes after all of it and with main's code.
THEOREM TerminalIsRight == ProbedSpec => []OutputRight
<1>1. TestInv => OutputRight
  <2>. SUFFICES ASSUME TestInv PROVE OutputRight
    OBVIOUS
  <2>1. /\ Len(Messages) \in Nat /\ printed \in 0..Len(Messages)
        /\ ExitValue(Code) \div 2 = Code
    BY MessagesAre DEF TestInv, Typed, TypeOK
  <2>2. Len(out) <= Len(Messages)
    BY <2>1 DEF TestInv, Output
  <2>3. exitcode # 0 => Len(out) = Len(Messages) /\ exitcode \div 2 = Code
    <3>1. exitcode # 0 => pc = "exited" /\ exitcode = ExitValue(Code)
      BY DEF TestInv, Output, Turn
    <3>. QED  BY <2>1, <3>1 DEF TestInv, Output, Unserved
  <2>. QED  BY <2>2, <2>3 DEF OutputRight, TestInv, Output
<1>. QED  BY <1>1, ProbedInvariant, PTL

\* A verdict of the probe is right, whatever the test and its host do meanwhile.
THEOREM ProbeIsRight == ProbedSpec => []VerdictRight
<1>1. ProbeInv => VerdictRight
  BY DEF ProbeInv
<1>. QED  BY <1>1, ProbedInvariant, PTL
=============================================================================
