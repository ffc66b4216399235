--------------------------- MODULE ConsoleService ---------------------------
(***************************************************************************)
(* What the HTIF console of src/xv6/htif.c promises to the rest of the     *)
(* kernel, without the mailbox words, the host program or the timer tick.  *)
(*                                                                         *)
(*   - a character write is linearizable: it takes effect on the terminal  *)
(*     exactly once, between the call of htif_send and its return (the     *)
(*     comment "so callers get simple ordering");                          *)
(*   - input is a FIFO channel: consoleintr receives exactly the typed     *)
(*     characters, in the order in which they were typed.                  *)
(***************************************************************************)
EXTENDS Naturals, Sequences

CONSTANTS Callers,   \* contexts that call the console: threads and the tick
          Chars      \* characters

VARIABLES
  call,    \* call[x]: the write of context x, see CallStates
  out,     \* characters that took effect on the terminal, in order
  typed,   \* characters typed by the user, in order
  got      \* characters received by consoleintr, in order

vars == <<call, out, typed, got>>

Idle == [st |-> "idle", ch |-> "-"]

\* "called": the write has not taken effect yet; "done": it has.
CallStates == {Idle} \cup [st : {"called", "done"}, ch : Chars]

TypeOK ==
  /\ call \in [Callers -> CallStates]
  /\ out \in Seq(Chars)
  /\ typed \in Seq(Chars)
  /\ got \in Seq(Chars)

Init ==
  /\ call = [x \in Callers |-> Idle]
  /\ out = << >>
  /\ typed = << >>
  /\ got = << >>

Call(x, c) ==
  /\ call[x] = Idle
  /\ call' = [call EXCEPT ![x] = [st |-> "called", ch |-> c]]
  /\ UNCHANGED <<out, typed, got>>

Effect(x) ==
  /\ call[x].st = "called"
  /\ call' = [call EXCEPT ![x].st = "done"]
  /\ out' = Append(out, call[x].ch)
  /\ UNCHANGED <<typed, got>>

Return(x) ==
  /\ call[x].st = "done"
  /\ call' = [call EXCEPT ![x] = Idle]
  /\ UNCHANGED <<out, typed, got>>

TypeKey(c) ==
  /\ typed' = Append(typed, c)
  /\ UNCHANGED <<call, out, got>>

Receive ==
  /\ Len(got) < Len(typed)
  /\ got' = Append(got, typed[Len(got) + 1])
  /\ UNCHANGED <<call, out, typed>>

\* consoleintr echoes inside the same step of the interrupt handler, so the
\* reception of a character and the call that echoes it may coincide.
ReceiveAndEcho(x) ==
  /\ Len(got) < Len(typed)
  /\ got' = Append(got, typed[Len(got) + 1])
  /\ call[x] = Idle
  /\ call' = [call EXCEPT ![x] = [st |-> "called", ch |-> typed[Len(got) + 1]]]
  /\ UNCHANGED <<out, typed>>

Next ==
  \/ \E x \in Callers : \/ \E c \in Chars : Call(x, c)
                        \/ Effect(x)
                        \/ Return(x)
                        \/ ReceiveAndEcho(x)
  \/ \E c \in Chars : TypeKey(c)
  \/ Receive

Spec == Init /\ [][Next]_vars
=============================================================================
