----------------------------- MODULE DiskService -----------------------------
(***************************************************************************)
(* What bread, bwrite and the driver of src/xv6/blkdev.c promise the file  *)
(* system, without the device, the buffer cache or the host program:       *)
(*                                                                         *)
(*   - a read or a write of a block is linearizable: it takes effect once, *)
(*     between its call and its return, and what a process has read or     *)
(*     written stays what the block holds until the process lets go of it; *)
(*   - a call of a block that is not stored never takes effect;            *)
(*   - a crash damages the blocks then being written and no others, and    *)
(*     not after the next kernel has made its first call.                  *)
(***************************************************************************)
CONSTANTS
  Callers,   \* processes
  Blocks,    \* block numbers asked for
  Stored,    \* those the store has
  Contents   \* what a block holds

VARIABLES
  call,      \* call[p]: the call of process p, see Calls
  store,     \* what each stored block holds
  orphans    \* blocks that a kernel was writing when it died

vars == <<call, store, orphans>>

Idle == [st |-> "idle"]

\* "read" and "write": no effect yet; "done": the process has the block.
Calls == {Idle} \cup [st : {"read"}, block : Blocks]
                \cup [st : {"write", "done"}, block : Blocks, data : Contents]

Init ==
  /\ call = [p \in Callers |-> Idle]
  /\ store \in [Stored -> Contents]
  /\ orphans = {}

Set(p, c) == call' = [call EXCEPT ![p] = c]

\* A call, of a process that has no block or follows its last call with another.
Read(p, b) ==
  /\ call[p] = Idle /\ orphans = {}
  /\ Set(p, [st |-> "read", block |-> b])
  /\ UNCHANGED <<store, orphans>>

Write(p, d) ==
  /\ call[p].st = "done"
  /\ Set(p, [st |-> "write", block |-> call[p].block, data |-> d])
  /\ UNCHANGED <<store, orphans>>

EffectRead(p) ==
  /\ call[p].st = "read" /\ call[p].block \in Stored
  /\ LET b == call[p].block IN Set(p, [st |-> "done", block |-> b, data |-> store[b]])
  /\ UNCHANGED <<store, orphans>>

\* A read that needs no waiting.
ReadAtOnce(p, b) ==
  /\ call[p] = Idle /\ orphans = {} /\ b \in Stored
  /\ Set(p, [st |-> "done", block |-> b, data |-> store[b]])
  /\ UNCHANGED <<store, orphans>>

EffectWrite(p) ==
  /\ call[p].st = "write" /\ call[p].block \in Stored
  /\ store' = [store EXCEPT ![call[p].block] = call[p].data]
  /\ Set(p, [call[p] EXCEPT !.st = "done"])
  /\ UNCHANGED orphans

Release(p) ==
  /\ call[p].st = "done"
  /\ Set(p, Idle)
  /\ UNCHANGED <<store, orphans>>

\* A write that the crash interrupts may have been issued or not.
Crash ==
  /\ call' = [p \in Callers |-> Idle]
  /\ orphans' \in SUBSET (orphans \cup
                    {call[p].block : p \in {q \in Callers : call[q].st = "write"}})
  /\ UNCHANGED store

\* What it then leaves in its block is not known.
Damage(b) ==
  /\ b \in orphans
  /\ \E d \in Contents : store' = [store EXCEPT ![b] = d]
  /\ orphans' = orphans \ {b}
  /\ UNCHANGED call

Next ==
  \/ Crash
  \/ \E b \in Stored : Damage(b)
  \/ \E p \in Callers :
       \/ EffectRead(p) \/ EffectWrite(p) \/ Release(p)
       \/ \E b \in Blocks : Read(p, b) \/ ReadAtOnce(p, b)
       \/ \E d \in Contents : Write(p, d)

Spec == Init /\ [][Next]_vars
=============================================================================
