--------------------------- MODULE MemoryRoutines ---------------------------
(***************************************************************************)
(* The memory routines written or rewritten for this board: memset and     *)
(* memmove of xv6 (the patch to string.c), eight bytes at a time where     *)
(* that is aligned, and memcpy_rom and strcpy_rom of the boot loader.  A   *)
(* step is one iteration of a loop.  An unaligned access of eight bytes is *)
(* not delegated by the core and ends the kernel: "trapped".               *)
(*                                                                         *)
(* The memory is small against 2^32, so that uint sums do not wrap.        *)
(***************************************************************************)
EXTENDS Integers

CONSTANTS
  Size,      \* bytes of memory
  Fills,     \* values of memset's int argument
  Contents   \* what the memory may hold at first

Addrs == 0..(Size - 1)
Bytes == 0..255

ASSUME MemoryAssumption ==
  Size \in Nat /\ Fills \subseteq Int /\ Contents \subseteq [Addrs -> Bytes]

VARIABLES
  fn, dst, src, n, c,   \* the routine called and its arguments
  pc,                   \* the loop it is in
  d, s, left,           \* its pointers and the bytes left
  mem, mem0             \* the memory, and what it held at the call

args == <<fn, dst, src, n, c, mem0>>
vars == <<args, pc, d, s, left, mem>>

\* strcpy_rom has no n: it is the length of the string at src, which Dest must
\* not begin inside of (the loop would overwrite the terminator it looks for).
String(m, a, len) == m[a + len] = 0 /\ \A k \in 0..(len - 1) : m[a + k] # 0

Init ==
  /\ fn \in {"memset", "memmove", "memcpy_rom", "strcpy_rom"}
  /\ mem0 \in Contents /\ mem = mem0
  /\ n \in 0..Size
  /\ dst \in 0..(Size - n) /\ d = dst
  /\ src \in (IF fn = "memset" THEN {0} ELSE 0..(Size - n)) /\ s = src
  /\ c \in (IF fn = "memset" THEN Fills ELSE {0})
  /\ fn = "strcpy_rom" => /\ {dst + n, src + n} \subseteq Addrs
                          /\ String(mem0, src, n) /\ dst \notin (src + 1)..(src + n)
  /\ pc = "call" /\ left = n

-----------------------------------------------------------------------------
(* Accesses.                                                               *)

Aligned(a) == a % 8 = 0

\* (char)c
Byte(v) == v % 256

Fill(a, len) == mem' = [x \in Addrs |-> IF x \in a..(a + len - 1) THEN Byte(c) ELSE mem[x]]

\* One load of len bytes at "from", one store at "to".
Copy(to, from, len) ==
  mem' = [x \in Addrs |-> IF x \in to..(to + len - 1) THEN mem[x - to + from] ELSE mem[x]]

Advance(k) == d' = d + k /\ s' = s + k /\ left' = left - k

Goto(loop) == pc' = loop /\ UNCHANGED <<d, s, left, mem>>

-----------------------------------------------------------------------------
(* memset: d is cdst + i and left is n - i.                                *)

\* Mutant: no "n >= 16" around the loop that aligns.
MemsetCallAlways ==
  /\ pc = "call" /\ fn = "memset"
  /\ Goto("set_align")
  /\ UNCHANGED args

MemsetCall ==
  /\ pc = "call" /\ fn = "memset"
  /\ Goto(IF n >= 16 THEN "set_align" ELSE "set_tail")
  /\ UNCHANGED args

MemsetAlign ==
  /\ pc = "set_align"
  /\ IF Aligned(d) THEN Goto("set_words")
     ELSE Fill(d, 1) /\ Advance(1) /\ pc' = pc
  /\ UNCHANGED args

\* Mutant: the bound of a loop of bytes.
MemsetWordsOver ==
  /\ pc = "set_words"
  /\ IF left > 0 THEN Fill(d, 8) /\ Advance(8) /\ pc' = pc
     ELSE Goto("set_tail")
  /\ UNCHANGED args

MemsetWords ==
  /\ pc = "set_words"
  /\ IF left < 8 THEN Goto("set_tail")
     ELSE IF ~Aligned(d) THEN Goto("trapped")
     ELSE Fill(d, 8) /\ Advance(8) /\ pc' = pc
  /\ UNCHANGED args

MemsetTail ==
  /\ pc = "set_tail"
  /\ IF left <= 0 THEN Goto("done")
     ELSE Fill(d, 1) /\ Advance(1) /\ pc' = pc
  /\ UNCHANGED args

-----------------------------------------------------------------------------
(* memmove                                                                 *)

Overlap == s < d /\ s + n > d

\* "(s ^ d) & 7"
SamePhase == s % 8 = d % 8

\* Mutant: the words of any two pointers.
ForwardAnyPhase == IF n >= 16 THEN "move_align" ELSE "move_tail"

Forward == IF n >= 16 /\ SamePhase THEN "move_align" ELSE "move_tail"

\* Mutant: always upwards.
MemmoveCallForward ==
  /\ pc = "call" /\ fn = "memmove"
  /\ Goto(Forward)
  /\ UNCHANGED args

MemmoveCall ==
  /\ pc = "call" /\ fn = "memmove"
  /\ IF Overlap
     THEN pc' = "back" /\ d' = d + n /\ s' = s + n /\ UNCHANGED <<left, mem>>
     ELSE Goto(Forward)
  /\ UNCHANGED args

MemmoveBack ==
  /\ pc = "back"
  /\ IF left = 0 THEN Goto("done")
     ELSE /\ Copy(d - 1, s - 1, 1)
          /\ d' = d - 1 /\ s' = s - 1 /\ left' = left - 1 /\ pc' = pc
  /\ UNCHANGED args

MemmoveAlign ==
  /\ pc = "move_align"
  /\ IF Aligned(d) \/ left = 0 THEN Goto("move_words")
     ELSE Copy(d, s, 1) /\ Advance(1) /\ pc' = pc
  /\ UNCHANGED args

MemmoveWords ==
  /\ pc = "move_words"
  /\ IF left < 8 THEN Goto("move_tail")
     ELSE IF ~(Aligned(d) /\ Aligned(s)) THEN Goto("trapped")
     ELSE Copy(d, s, 8) /\ Advance(8) /\ pc' = pc
  /\ UNCHANGED args

MemmoveTail ==
  /\ pc = "move_tail"
  /\ IF left = 0 THEN Goto("done")
     ELSE Copy(d, s, 1) /\ Advance(1) /\ pc' = pc
  /\ UNCHANGED args

-----------------------------------------------------------------------------
(* The boot loader's routines.                                             *)

MemcpyRom ==
  /\ fn = "memcpy_rom" /\ pc \in {"call", "rom"}
  /\ IF left = 0 THEN Goto("done")
     ELSE Copy(d, s, 1) /\ Advance(1) /\ pc' = "rom"
  /\ UNCHANGED args

\* Mutant: the terminator is not copied.
StrcpyNoTerminator ==
  /\ fn = "strcpy_rom" /\ pc \in {"call", "rom"}
  /\ IF mem[s] = 0 THEN Goto("done")
     ELSE Copy(d, s, 1) /\ Advance(1) /\ pc' = "rom"
  /\ UNCHANGED args

\* The loop ends at the terminator, which is stored after it.
StrcpyRom ==
  /\ fn = "strcpy_rom" /\ pc \in {"call", "rom"}
  /\ IF mem[s] = 0
     THEN /\ mem' = [mem EXCEPT ![d] = 0]
          /\ pc' = "done" /\ UNCHANGED <<d, s, left>>
     ELSE Copy(d, s, 1) /\ Advance(1) /\ pc' = "rom"
  /\ UNCHANGED args

Next ==
  \/ MemsetCall \/ MemsetAlign \/ MemsetWords \/ MemsetTail
  \/ MemmoveCall \/ MemmoveBack \/ MemmoveAlign \/ MemmoveWords \/ MemmoveTail
  \/ MemcpyRom \/ StrcpyRom

Spec == Init /\ [][Next]_vars
-----------------------------------------------------------------------------
(* Properties.                                                             *)

Loops == {"call", "set_align", "set_words", "set_tail", "back", "move_align",
          "move_words", "move_tail", "rom", "trapped", "done"}

\* Types; the pointers stay together and within the arguments, and what is left
\* is what they have not covered.
TypeOK ==
  /\ fn \in {"memset", "memmove", "memcpy_rom", "strcpy_rom"} /\ pc \in Loops
  /\ n \in 0..Size /\ {dst, src} \subseteq 0..(Size - n) /\ c \in Int
  /\ mem0 \in Contents /\ mem \in [Addrs -> Bytes]
  /\ left \in 0..n
  /\ d \in Int /\ s \in Int /\ d - dst = s - src
  /\ pc # "done" => d - dst = IF pc = "back" THEN left ELSE n - left

\* dst[0..len-1] holds what src[0..len-1] held, all else what it held before.
Moved(len) ==
  [a \in Addrs |-> IF a \in dst..(dst + len - 1) THEN mem0[a - dst + src] ELSE mem0[a]]

\* memset stores the byte in n places and nowhere else, whatever the alignment
\* of dst and the length of the head and the tail around the words.
MemsetResult ==
  pc = "done" /\ fn = "memset"
    => mem = [a \in Addrs |-> IF a \in dst..(dst + n - 1) THEN Byte(c) ELSE mem0[a]]

\* memmove moves, however the two regions overlap: the forward loop of words is
\* taken for overlaps downwards too.
MemmoveResult == pc = "done" /\ fn = "memmove" => mem = Moved(n)

\* The boot loader's loops copy, where they do not run into their own output.
RomCopies ==
  /\ pc = "done" /\ fn = "memcpy_rom" /\ dst \notin (src + 1)..(src + n - 1)
       => mem = Moved(n)
  /\ pc = "done" /\ fn = "strcpy_rom" => mem = Moved(n + 1)

\* "getting it wrong traps to M-mode rather than faulting cleanly": no access of
\* eight bytes is ever misaligned.
NeverTrapped == pc # "trapped"
=============================================================================
