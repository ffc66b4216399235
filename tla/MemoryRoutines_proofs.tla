------------------------ MODULE MemoryRoutines_proofs ------------------------
(***************************************************************************)
(* Proofs about MemoryRoutines, for every size and content of the memory   *)
(* and every argument: what each routine leaves in memory, and that no     *)
(* access of eight bytes is misaligned.                                    *)
(***************************************************************************)
EXTENDS MemoryRoutines, TLAPS

USE MemoryAssumption DEF MemoryAssumption, Addrs, Bytes

SetLoops  == {"set_align", "set_words", "set_tail"}
MoveLoops == {"move_align", "move_words", "move_tail"}

\* Which routine a loop belongs to, and that a call has done nothing yet.
Routine ==
  /\ pc \in SetLoops => fn = "memset"
  /\ pc \in MoveLoops \cup {"back"} => fn = "memmove"
  /\ pc = "rom" => fn \in {"memcpy_rom", "strcpy_rom"}
  /\ pc = "call" => left = n /\ mem = mem0
  /\ pc # "trapped"

\* The loops that align stop within eight bytes, and leave d aligned.
Alignment ==
  /\ pc = "set_align" => /\ n >= 16
                         /\ d - dst <= IF dst % 8 = 0 THEN 0 ELSE 8 - (dst % 8)
  /\ pc = "set_words" => Aligned(d)
  /\ pc \in {"move_align", "move_words"} => src % 8 = dst % 8
  /\ pc = "move_words" => Aligned(d) \/ left = 0

\* Going up does not run into its own output.
NoClobber(len) == dst \notin (src + 1)..(src + len - 1)

Filled(len) ==
  [a \in Addrs |-> IF a \in dst..(dst + len - 1) THEN Byte(c) ELSE mem0[a]]

\* Going down, the end of the region is moved first.
MovedFrom(at) ==
  [a \in Addrs |-> IF a \in at..(dst + n - 1) THEN mem0[a - dst + src] ELSE mem0[a]]

\* What has been stored so far.
Stored ==
  /\ fn = "memset" /\ pc # "done" => mem = Filled(d - dst)
  /\ pc \in MoveLoops => NoClobber(n)
  /\ pc = "back" => src < dst /\ mem = MovedFrom(d)
  /\ fn = "strcpy_rom" => /\ {dst + n, src + n} \subseteq Addrs
                          /\ String(mem0, src, n) /\ NoClobber(n + 1)
  /\ fn # "memset" /\ NoClobber(n) /\ pc \in MoveLoops \cup {"call", "rom"}
       => mem = Moved(d - dst)

Results == MemsetResult /\ MemmoveResult /\ RomCopies

Inv == TypeOK /\ Routine /\ Alignment /\ Stored /\ Results

LEMMA InitInv == Init => Inv
<1>. SUFFICES ASSUME Init PROVE Inv
  OBVIOUS
<1>. USE DEF Init
<1>1. mem0 \in [Addrs -> Bytes]
  OBVIOUS
<1>2. TypeOK
  BY <1>1 DEF TypeOK, Loops
<1>3. Routine /\ Alignment
  BY DEF Routine, Alignment, SetLoops, MoveLoops
<1>4. mem = Filled(0) /\ mem = Moved(0)
  BY <1>1, <1>2 DEF Filled, Moved, TypeOK
<1>5. Stored
  BY <1>2, <1>4 DEF Stored, TypeOK, SetLoops, MoveLoops, NoClobber
<1>6. Results
  BY DEF Results, MemsetResult, MemmoveResult, RomCopies
<1>. QED  BY <1>2, <1>3, <1>5, <1>6 DEF Inv

-----------------------------------------------------------------------------
(* What one iteration of a loop does to the memory.                        *)

\* The facts of TypeOK that arithmetic needs.
LEMMA Numbers ==
  ASSUME TypeOK
  PROVE  /\ Size \in Nat /\ n \in Nat /\ left \in Nat /\ left <= n
         /\ dst \in Nat /\ src \in Nat /\ dst + n <= Size /\ src + n <= Size
         /\ d \in Int /\ s \in Int /\ d - dst = s - src
         /\ mem0 \in [Addrs -> Bytes] /\ mem \in [Addrs -> Bytes]
BY SMTT(30) DEF TypeOK

\* A loop that goes up has moved len bytes more.
LEMMA CopyMoves ==
  ASSUME TypeOK, NEW k \in Nat, NEW len \in Nat, NEW all \in Nat,
         mem = Moved(k), d = dst + k, s = src + k, k + len <= all,
         dst + all <= Size, src + all <= Size, NoClobber(all), Copy(d, s, len)
  PROVE  mem' = Moved(k + len)
<1>1. dst \in Nat /\ src \in Nat /\ Size \in Nat
  BY Numbers
<1>2. ASSUME NEW x \in Addrs
      PROVE  mem'[x] = Moved(k + len)[x]
  <2>0. x \in Int /\ 0 <= x /\ x < Size
    BY <1>1
  <2>1. CASE x \in d..(d + len - 1)
    <3>1. x - d + s \in 0..(Size - 1)
      BY <1>1, <2>0, <2>1
    <3>2. x - d + s = x - dst + src
      BY <1>1, <2>0, <2>1
    <3>3. x - d + s \notin dst..(dst + k - 1)
      BY <1>1, <2>0, <2>1 DEF NoClobber
    <3>4. mem[x - d + s] = mem0[x - d + s]
      BY <3>1, <3>3 DEF Moved
    <3>5. x \in dst..(dst + (k + len) - 1)
      BY <1>1, <2>0, <2>1
    <3>6. mem'[x] = mem[x - d + s]
      BY <2>1 DEF Copy
    <3>7. Moved(k + len)[x] = mem0[x - dst + src]
      BY <3>5 DEF Moved
    <3>. QED  BY <3>2, <3>4, <3>6, <3>7
  <2>2. CASE x \notin d..(d + len - 1)
    <3>1. x \in dst..(dst + k - 1) <=> x \in dst..(dst + (k + len) - 1)
      BY <1>1, <2>0, <2>2
    <3>2. mem'[x] = mem[x]
      BY <2>2 DEF Copy
    <3>3. Moved(k)[x] = Moved(k + len)[x]
      BY <3>1 DEF Moved
    <3>. QED  BY <3>2, <3>3
  <2>. QED  BY <2>1, <2>2
<1>. QED  BY <1>2 DEF Copy, Moved

\* The loop that goes down has moved one byte more.
LEMMA CopyMovesDown ==
  ASSUME TypeOK, left > 0, d = dst + left, s = src + left, src < dst,
         mem = MovedFrom(d), Copy(d - 1, s - 1, 1)
  PROVE  mem' = MovedFrom(d - 1)
<1>1. /\ dst \in Nat /\ src \in Nat /\ Size \in Nat /\ n \in Nat /\ left \in Nat
      /\ left <= n /\ dst + n <= Size /\ src + n <= Size
  BY Numbers
<1>2. ASSUME NEW x \in Addrs
      PROVE  mem'[x] = MovedFrom(d - 1)[x]
  <2>0. x \in Int /\ 0 <= x /\ x < Size
    BY <1>1
  <2>1. CASE x = d - 1
    <3>1. s - 1 \in 0..(Size - 1) /\ s - 1 \notin d..(dst + n - 1)
      BY <1>1
    <3>2. x - (d - 1) + (s - 1) = s - 1 /\ x - dst + src = s - 1
      BY <1>1, <2>1
    <3>3. mem[s - 1] = mem0[s - 1]
      BY <3>1 DEF MovedFrom
    <3>4. x \in (d - 1)..(d - 1 + 1 - 1) /\ x \in (d - 1)..(dst + n - 1)
      BY <1>1, <2>1
    <3>5. mem'[x] = mem[s - 1]
      BY <3>2, <3>4 DEF Copy
    <3>6. MovedFrom(d - 1)[x] = mem0[s - 1]
      BY <3>2, <3>4 DEF MovedFrom
    <3>. QED  BY <3>3, <3>5, <3>6
  <2>2. CASE x # d - 1
    <3>1. x \in d..(dst + n - 1) <=> x \in (d - 1)..(dst + n - 1)
      BY <1>1, <2>0, <2>2
    <3>2. x \notin (d - 1)..(d - 1 + 1 - 1)
      BY <1>1, <2>0, <2>2
    <3>3. mem'[x] = mem[x]
      BY <3>2 DEF Copy
    <3>4. MovedFrom(d)[x] = MovedFrom(d - 1)[x]
      BY <3>1 DEF MovedFrom
    <3>. QED  BY <3>3, <3>4
  <2>. QED  BY <2>1, <2>2
<1>. QED  BY <1>2 DEF Copy, MovedFrom

\* memset has filled len bytes more.
LEMMA FillFills ==
  ASSUME TypeOK, NEW k \in Nat, NEW len \in Nat,
         mem = Filled(k), d = dst + k, Fill(d, len)
  PROVE  mem' = Filled(k + len)
<1>1. dst \in Nat /\ Size \in Nat
  BY Numbers
<1>2. ASSUME NEW x \in Addrs
      PROVE  mem'[x] = Filled(k + len)[x]
  <2>1. x \in dst..(dst + (k + len) - 1)
          <=> x \in dst..(dst + k - 1) \/ x \in d..(d + len - 1)
    BY <1>1
  <2>2. CASE x \in d..(d + len - 1)
    BY <2>1, <2>2 DEF Fill, Filled
  <2>3. CASE x \notin d..(d + len - 1)
    BY <2>1, <2>3 DEF Fill, Filled
  <2>. QED  BY <2>2, <2>3
<1>. QED  BY <1>2 DEF Fill, Filled

\* Accesses inside the memory store bytes.
LEMMA CopyBytes ==
  ASSUME TypeOK, NEW to \in Int, NEW from \in Int, NEW len \in Nat,
         0 <= from, from + len <= Size, Copy(to, from, len)
  PROVE  mem' \in [Addrs -> Bytes]
<1>1. Size \in Nat /\ mem \in [Addrs -> Bytes]
  BY Numbers
<1>2. ASSUME NEW x \in Addrs, x \in to..(to + len - 1)
      PROVE  x - to + from \in Addrs
  BY <1>1, <1>2
<1>. QED  BY <1>1, <1>2 DEF Copy

LEMMA FillBytes ==
  ASSUME TypeOK, NEW a \in Int, NEW len \in Nat, Fill(a, len)
  PROVE  mem' \in [Addrs -> Bytes]
<1>1. Byte(c) \in 0..255
  BY DEF Byte, TypeOK
<1>2. mem \in [Addrs -> Bytes]
  BY Numbers
<1>. QED  BY <1>1, <1>2 DEF Fill

-----------------------------------------------------------------------------
(* Every loop preserves the invariant.                                     *)

\* A loop that is left leaves memory and pointers alone.
LEMMA GotoStored ==
  ASSUME NEW loop, Goto(loop), UNCHANGED args
  PROVE  /\ pc' = loop /\ d' = d /\ s' = s /\ left' = left /\ mem' = mem
         /\ fn' = fn /\ n' = n /\ dst' = dst /\ src' = src /\ c' = c /\ mem0' = mem0
         /\ \A k : Moved(k)' = Moved(k) /\ Filled(k)' = Filled(k)
BY DEF Goto, args, Moved, Filled

LEMMA MemsetInv ==
  ASSUME Inv, MemsetCall \/ MemsetAlign \/ MemsetWords \/ MemsetTail
  PROVE  Inv'
<1>. USE DEF Inv
<1>1. /\ Size \in Nat /\ n \in Nat /\ left \in Nat /\ left <= n
      /\ dst \in Nat /\ src \in Nat /\ dst + n <= Size /\ src + n <= Size
      /\ d \in Int /\ s \in Int /\ d - dst = s - src
  BY Numbers
<1>2. fn = "memset" /\ UNCHANGED args /\ pc # "done" /\ pc # "back"
  BY DEF MemsetCall, MemsetAlign, MemsetWords, MemsetTail, Routine, SetLoops
<1>3. d = dst + (n - left) /\ n - left \in Nat /\ mem = Filled(n - left)
  <2>1. d - dst = n - left
    BY <1>2 DEF TypeOK
  <2>. QED  BY <1>1, <1>2, <2>1 DEF Stored
<1>4. ASSUME NEW loop \in {"set_align", "set_words", "set_tail", "done"}, Goto(loop),
             loop = "set_align" => n >= 16 /\ d = dst,
             loop = "set_words" => Aligned(d),
             loop = "done" => left = 0
      PROVE  Inv'
  <2>1. TypeOK'
    BY ZenonT(60), <1>1, <1>2, <1>3, <1>4, GotoStored DEF TypeOK, Loops
  <2>2. Routine' /\ Alignment'
    BY <1>1, <1>2, <1>4, GotoStored
       DEF Routine, Alignment, SetLoops, MoveLoops, Aligned
  <2>3. Stored'
    BY <1>2, <1>3, <1>4, GotoStored DEF Stored, MoveLoops, TypeOK
  <2>4. Results'
    <3>1. loop = "done" => mem' = Filled(n)'
      BY <1>1, <1>2, <1>3, <1>4, GotoStored
    <3>. QED  BY <1>2, <1>4, <3>1, GotoStored
              DEF Results, MemsetResult, MemmoveResult, RomCopies, Filled
  <2>. QED  BY <2>1, <2>2, <2>3, <2>4
<1>5. ASSUME NEW k \in 1..left, Fill(d, k), Advance(k), pc' = pc, pc \in SetLoops,
             Alignment'
      PROVE  Inv'
  <2>1. mem' = Filled(n - left + k)
    BY <1>1, <1>3, <1>5, FillFills
  <2>2. mem' \in [Addrs -> Bytes]
    BY <1>1, <1>5, FillBytes
  <2>3. TypeOK'
    BY <1>1, <1>2, <1>3, <1>5, <2>2 DEF TypeOK, Advance, args
  <2>4. Stored'
    <3>1. d' - dst' = n - left + k
      BY <1>1, <1>2, <1>3, <1>5 DEF Advance, args
    <3>2. mem' = Filled(d - dst)'
      BY <1>2, <2>1, <3>1 DEF Filled, Byte, args
    <3>. QED  BY <1>2, <1>5, <3>2 DEF Stored, MoveLoops, SetLoops, args
  <2>5. Routine' /\ Results'
    BY <1>2, <1>5 DEF Routine, Results, MemsetResult, MemmoveResult, RomCopies,
                      SetLoops, MoveLoops, args
  <2>. QED  BY <1>5, <2>3, <2>4, <2>5
<1>6. CASE MemsetCall
  <2>1. d = dst
    <3>1. left = n
      BY <1>6 DEF MemsetCall, Routine
    <3>. QED  BY <1>1, <1>3, <3>1
  <2>. QED  BY <1>1, <1>4, <1>6, <2>1 DEF MemsetCall
<1>7. CASE MemsetAlign
  <2>1. CASE Aligned(d)
    BY <1>4, <1>7, <2>1 DEF MemsetAlign
  <2>2. CASE ~Aligned(d)
    <3>1. 1 \in 1..left
      BY <1>1, <1>3, <1>7, <2>2 DEF MemsetAlign, Alignment, Aligned
    <3>2. Alignment'
      BY <1>1, <1>2, <1>3, <1>7, <2>2
         DEF MemsetAlign, Alignment, Aligned, Advance, args
    <3>. QED  BY <1>5, <1>7, <2>2, <3>1, <3>2 DEF MemsetAlign, SetLoops
  <2>. QED  BY <2>1, <2>2
<1>8. CASE MemsetWords
  <2>1. Aligned(d)
    BY <1>8 DEF MemsetWords, Alignment
  <2>2. CASE left < 8
    BY <1>4, <1>8, <2>2 DEF MemsetWords
  <2>3. CASE ~(left < 8)
    <3>1. 8 \in 1..left
      BY <1>1, <2>3
    <3>2. Alignment'
      BY <1>1, <1>8, <2>1, <2>3 DEF MemsetWords, Alignment, Aligned, Advance
    <3>. QED  BY <1>5, <1>8, <2>1, <2>3, <3>1, <3>2 DEF MemsetWords, SetLoops
  <2>. QED  BY <2>2, <2>3
<1>9. CASE MemsetTail
  <2>1. CASE left <= 0
    BY <1>1, <1>4, <1>9, <2>1 DEF MemsetTail
  <2>2. CASE ~(left <= 0)
    <3>1. 1 \in 1..left
      BY <1>1, <2>2
    <3>2. Alignment'
      BY <1>9, <2>2 DEF MemsetTail, Alignment
    <3>. QED  BY <1>5, <1>9, <2>2, <3>1, <3>2 DEF MemsetTail, SetLoops
  <2>. QED  BY <2>1, <2>2
<1>. QED  BY <1>6, <1>7, <1>8, <1>9

LEMMA MemmoveInv ==
  ASSUME Inv,
         MemmoveCall \/ MemmoveBack \/ MemmoveAlign \/ MemmoveWords \/ MemmoveTail
  PROVE  Inv'
<1>. USE DEF Inv
<1>1. /\ Size \in Nat /\ n \in Nat /\ left \in Nat /\ left <= n
      /\ dst \in Nat /\ src \in Nat /\ dst + n <= Size /\ src + n <= Size
      /\ d \in Int /\ s \in Int /\ d - dst = s - src
  BY Numbers
<1>2. fn = "memmove" /\ UNCHANGED args /\ pc # "done" /\ pc # "rom"
  BY DEF MemmoveCall, MemmoveBack, MemmoveAlign, MemmoveWords, MemmoveTail,
         Routine, MoveLoops
<1>3. d - dst = IF pc = "back" THEN left ELSE n - left
  BY <1>2 DEF TypeOK
<1>4. \* a loop that goes up is entered or left
      ASSUME NEW loop \in MoveLoops \cup {"done"}, Goto(loop), pc # "back",
             NoClobber(n), mem = Moved(n - left),
             loop # "done" => Alignment',
             loop = "done" => left = 0
      PROVE  Inv'
  <2>0. d - dst = n - left
    BY <1>3, <1>4
  <2>1. TypeOK'
    BY ZenonT(60), <1>1, <1>2, <1>4, <2>0, GotoStored DEF TypeOK, Loops, MoveLoops
  <2>2. Routine' /\ Alignment'
    BY <1>2, <1>4, GotoStored DEF Routine, Alignment, SetLoops, MoveLoops
  <2>3. Stored'
    <3>1. mem' = Moved(d - dst)'
      BY <1>2, <1>4, <2>0, GotoStored DEF Moved
    <3>. QED  BY <1>2, <1>4, <3>1, GotoStored DEF Stored, MoveLoops, NoClobber
  <2>4. Results'
    <3>1. loop = "done" => mem' = Moved(n)'
      BY <1>1, <1>2, <1>4, GotoStored DEF Moved
    <3>. QED  BY <1>2, <1>4, <3>1, GotoStored
              DEF Results, MemsetResult, MemmoveResult, RomCopies, MoveLoops
  <2>. QED  BY <2>1, <2>2, <2>3, <2>4
<1>5. \* a loop that goes up moves k bytes
      ASSUME NEW k \in 1..left, Copy(d, s, k), Advance(k), pc' = pc, pc \in MoveLoops,
             Alignment'
      PROVE  Inv'
  <2>1. NoClobber(n) /\ mem = Moved(n - left) /\ d = dst + (n - left)
                    /\ s = src + (n - left) /\ pc # "back"
    <3>1. pc # "back" /\ d - dst = n - left
      BY <1>3, <1>5 DEF MoveLoops
    <3>. QED  BY <1>1, <1>2, <1>5, <3>1 DEF Stored
  <2>2. mem' = Moved(n - left + k)
    BY <1>1, <1>5, <2>1, CopyMoves
  <2>3. mem' \in [Addrs -> Bytes]
    <3>1. k \in Nat /\ 0 <= s /\ s + k <= Size
      BY <1>1, <2>1
    <3>. QED  BY <1>1, <1>5, <3>1, CopyBytes
  <2>4. TypeOK'
    BY <1>1, <1>2, <1>3, <1>5, <2>1, <2>3 DEF TypeOK, Advance, args
  <2>5. Stored'
    <3>1. d' - dst' = n - left + k
      BY <1>1, <1>2, <1>5, <2>1 DEF Advance, args
    <3>2. mem' = Moved(d - dst)'
      BY <1>2, <2>2, <3>1 DEF Moved, args
    <3>. QED  BY <1>2, <1>5, <2>1, <3>2 DEF Stored, NoClobber, args
  <2>6. Routine' /\ Results'
    BY <1>2, <1>5 DEF Routine, Results, MemsetResult, MemmoveResult, RomCopies,
                      SetLoops, MoveLoops, args
  <2>. QED  BY <1>5, <2>4, <2>5, <2>6
<1>6. CASE MemmoveCall
  <2>1. left = n /\ d = dst /\ s = src /\ pc = "call"
    <3>1. pc = "call" /\ left = n
      BY <1>6 DEF MemmoveCall, Routine
    <3>. QED  BY <1>1, <1>3, <3>1
  <2>2. CASE Overlap
    <3>1. /\ pc' = "back" /\ d' = d + n /\ s' = s + n /\ left' = left /\ mem' = mem
          /\ src < dst
      BY <1>6, <2>1, <2>2 DEF MemmoveCall, Overlap
    <3>2. TypeOK' /\ Routine' /\ Alignment'
      BY <1>1, <1>2, <2>1, <3>1
         DEF TypeOK, Loops, Routine, Alignment, SetLoops, MoveLoops, args
    <3>3. mem = mem0 /\ mem0 \in [Addrs -> Bytes]
      BY <2>1, Numbers DEF Routine
    <3>4. mem' = MovedFrom(d)'
      <4>1. (d')..(dst' + n' - 1) = {}
        BY <1>1, <1>2, <2>1, <3>1 DEF args
      <4>. QED  BY <1>2, <3>1, <3>3, <4>1 DEF MovedFrom, args
    <3>5. Stored'
      BY <1>2, <3>1, <3>4 DEF Stored, MoveLoops, args
    <3>6. Results'
      BY <1>2, <3>1 DEF Results, MemsetResult, MemmoveResult, RomCopies, args
    <3>. QED  BY <3>2, <3>5, <3>6
  <2>3. CASE ~Overlap
    <3>1. NoClobber(n)
      BY <1>1, <2>1, <2>3 DEF Overlap, NoClobber
    <3>2. mem = Moved(n - left)
      BY <1>1, <1>2, <2>1, <3>1 DEF Stored
    <3>3. Goto(Forward)
      BY <1>6, <2>3 DEF MemmoveCall
    <3>4. Alignment'
      BY <1>2, <2>1, <3>3, GotoStored DEF Alignment, Forward, SamePhase
    <3>. QED  BY <1>1, <1>4, <2>1, <3>1, <3>2, <3>3, <3>4 DEF Forward, MoveLoops
  <2>. QED  BY <2>2, <2>3
<1>7. CASE MemmoveBack
  <2>1. /\ pc = "back" /\ d = dst + left /\ s = src + left
        /\ src < dst /\ mem = MovedFrom(d)
    <3>1. pc = "back" /\ d - dst = left
      BY <1>3, <1>7 DEF MemmoveBack
    <3>. QED  BY <1>1, <3>1 DEF Stored
  <2>2. CASE left = 0
    <3>1. Goto("done")
      BY <1>7, <2>2 DEF MemmoveBack
    <3>2. mem' = Moved(n)'
      BY <1>1, <2>1, <2>2, <3>1, <1>2, GotoStored DEF MovedFrom, Moved
    <3>3. TypeOK'
      BY ZenonT(60), <1>1, <1>2, <3>1, GotoStored DEF TypeOK, Loops
    <3>4. Routine' /\ Alignment' /\ Stored'
      BY <1>2, <3>1, GotoStored DEF Routine, Alignment, Stored, SetLoops, MoveLoops
    <3>5. Results'
      BY <1>2, <3>1, <3>2, GotoStored
         DEF Results, MemsetResult, MemmoveResult, RomCopies
    <3>. QED  BY <3>3, <3>4, <3>5
  <2>3. CASE left # 0
    <3>1. /\ Copy(d - 1, s - 1, 1) /\ pc' = "back"
          /\ d' = d - 1 /\ s' = s - 1 /\ left' = left - 1
      BY <1>7, <2>1, <2>3 DEF MemmoveBack
    <3>2. mem' = MovedFrom(d - 1)
      BY <1>1, <2>1, <2>3, <3>1, CopyMovesDown
    <3>3. mem' = MovedFrom(d)'
      BY <1>2, <3>1, <3>2 DEF MovedFrom, args
    <3>4. mem' \in [Addrs -> Bytes]
      <4>1. s - 1 \in Int /\ d - 1 \in Int /\ 0 <= s - 1 /\ (s - 1) + 1 <= Size
        BY <1>1, <2>1, <2>3
      <4>. QED  BY <3>1, <4>1, CopyBytes
    <3>5. TypeOK'
      BY <1>1, <1>2, <2>1, <2>3, <3>1, <3>4 DEF TypeOK, Loops, args
    <3>6. Routine' /\ Alignment' /\ Stored' /\ Results'
      BY <1>2, <2>1, <3>1, <3>3
         DEF Routine, Alignment, Stored, Results, MemsetResult, MemmoveResult,
             RomCopies, SetLoops, MoveLoops, args
    <3>. QED  BY <3>5, <3>6
  <2>. QED  BY <2>2, <2>3
<1>8. ASSUME MemmoveAlign \/ MemmoveWords \/ MemmoveTail
      PROVE  /\ pc \in MoveLoops /\ pc # "back" /\ NoClobber(n)
             /\ mem = Moved(n - left) /\ d = dst + (n - left) /\ s = src + (n - left)
  <2>1. pc \in MoveLoops /\ pc # "back"
    BY <1>8 DEF MemmoveAlign, MemmoveWords, MemmoveTail, MoveLoops
  <2>. QED  BY <1>1, <1>2, <1>3, <2>1 DEF Stored
<1>9. CASE MemmoveAlign
  <2>1. src % 8 = dst % 8
    BY <1>9 DEF MemmoveAlign, Alignment
  <2>2. CASE Aligned(d) \/ left = 0
    <3>1. Goto("move_words")
      BY <1>9, <2>2 DEF MemmoveAlign
    <3>2. Alignment'
      BY <1>2, <2>1, <2>2, <3>1, GotoStored DEF Alignment, Aligned
    <3>. QED  BY <1>4, <1>8, <1>9, <3>1, <3>2 DEF MoveLoops
  <2>3. CASE ~(Aligned(d) \/ left = 0)
    <3>1. 1 \in 1..left
      BY <1>1, <2>3
    <3>2. Alignment'
      BY <1>2, <1>9, <2>1, <2>3 DEF MemmoveAlign, Alignment, args
    <3>. QED  BY <1>5, <1>8, <1>9, <2>3, <3>1, <3>2 DEF MemmoveAlign
  <2>. QED  BY <2>2, <2>3
<1>10. CASE MemmoveWords
  <2>1. src % 8 = dst % 8 /\ (Aligned(d) \/ left = 0)
    BY <1>10 DEF MemmoveWords, Alignment
  <2>2. CASE left < 8
    <3>1. Goto("move_tail")
      BY <1>10, <2>2 DEF MemmoveWords
    <3>2. Alignment'
      BY <3>1, GotoStored DEF Alignment, Goto
    <3>. QED  BY <1>4, <1>8, <1>10, <3>1, <3>2 DEF MoveLoops
  <2>3. CASE ~(left < 8)
    <3>1. 8 \in 1..left /\ Aligned(d)
      BY <1>1, <2>1, <2>3
    <3>2. Aligned(s)
      BY <1>1, <1>8, <1>10, <2>1, <3>1 DEF Aligned
    <3>3. Copy(d, s, 8) /\ Advance(8) /\ pc' = pc
      BY <1>10, <2>3, <3>1, <3>2 DEF MemmoveWords
    <3>4. Alignment'
      BY <1>1, <1>2, <1>10, <2>1, <3>1, <3>3
         DEF MemmoveWords, Alignment, Aligned, Advance, args
    <3>. QED  BY <1>5, <1>8, <1>10, <3>1, <3>3, <3>4
  <2>. QED  BY <2>2, <2>3
<1>11. CASE MemmoveTail
  <2>1. CASE left = 0
    BY <1>4, <1>8, <1>11, <2>1 DEF MemmoveTail
  <2>2. CASE left # 0
    <3>1. 1 \in 1..left
      BY <1>1, <2>2
    <3>2. Alignment'
      BY <1>11, <2>2 DEF MemmoveTail, Alignment
    <3>. QED  BY <1>5, <1>8, <1>11, <2>2, <3>1, <3>2 DEF MemmoveTail
  <2>. QED  BY <2>1, <2>2
<1>. QED  BY <1>6, <1>7, <1>9, <1>10, <1>11

\* strcpy_rom looks for the terminator in what it may have written, memcpy_rom
\* may run into its own output: the latter promises nothing then.
LEMMA RomInv ==
  ASSUME Inv, MemcpyRom \/ StrcpyRom
  PROVE  Inv'
<1>. USE DEF Inv
<1>1. /\ Size \in Nat /\ n \in Nat /\ left \in Nat /\ left <= n
      /\ dst \in Nat /\ src \in Nat /\ dst + n <= Size /\ src + n <= Size
      /\ d \in Int /\ s \in Int /\ d - dst = s - src
      /\ mem0 \in [Addrs -> Bytes] /\ mem \in [Addrs -> Bytes]
  BY Numbers
<1>2. fn \in {"memcpy_rom", "strcpy_rom"} /\ UNCHANGED args /\ pc \in {"call", "rom"}
  BY DEF MemcpyRom, StrcpyRom
<1>3. d = dst + (n - left) /\ s = src + (n - left)
  <2>1. d - dst = n - left
    BY <1>2 DEF TypeOK
  <2>. QED  BY <1>1, <2>1
<1>4. NoClobber(n) => mem = Moved(n - left)
  BY <1>1, <1>2, <1>3 DEF Stored
<1>5. \* one byte more
      ASSUME left > 0, Copy(d, s, 1), Advance(1), pc' = "rom"
      PROVE  Inv'
  <2>1. mem' \in [Addrs -> Bytes]
    <3>1. 0 <= s /\ s + 1 <= Size
      BY <1>1, <1>3, <1>5
    <3>. QED  BY <1>1, <1>5, <3>1, CopyBytes
  <2>2. TypeOK'
    BY <1>1, <1>2, <1>3, <1>5, <2>1 DEF TypeOK, Advance, Loops, args
  <2>3. Stored'
    <3>1. ASSUME NoClobber(n)
          PROVE  mem' = Moved(d - dst)'
      <4>1. mem' = Moved(n - left + 1)
        BY <1>1, <1>3, <1>4, <1>5, <3>1, CopyMoves
      <4>2. d' - dst' = n - left + 1
        BY <1>1, <1>2, <1>3, <1>5 DEF Advance, args
      <4>. QED  BY <1>2, <4>1, <4>2 DEF Moved, args
    <3>2. fn = "strcpy_rom" => /\ {dst + n, src + n} \subseteq Addrs
                               /\ String(mem0, src, n) /\ NoClobber(n + 1)
      BY DEF Stored
    <3>. QED  BY <1>2, <1>5, <3>1, <3>2 DEF Stored, NoClobber, String, MoveLoops, args
  <2>4. Routine' /\ Alignment' /\ Results'
    BY <1>2, <1>5 DEF Routine, Alignment, Results, MemsetResult, MemmoveResult,
                      RomCopies, SetLoops, MoveLoops, args
  <2>. QED  BY <2>2, <2>3, <2>4
<1>6. \* the end
      ASSUME pc' = "done", UNCHANGED <<d, s, left>>, left = 0,
             mem' \in [Addrs -> Bytes], RomCopies'
      PROVE  Inv'
  <2>1. TypeOK'
    BY <1>1, <1>2, <1>6 DEF TypeOK, Loops, args
  <2>2. Routine' /\ Alignment'
    BY <1>6 DEF Routine, Alignment, SetLoops, MoveLoops
  <2>3. Stored'
    BY <1>2, <1>6 DEF Stored, NoClobber, String, MoveLoops, args
  <2>4. Results'
    BY <1>2, <1>6 DEF Results, MemsetResult, MemmoveResult, args
  <2>. QED  BY <2>1, <2>2, <2>3, <2>4
<1>7. CASE MemcpyRom
  <2>1. CASE left = 0
    <3>1. Goto("done") /\ fn = "memcpy_rom"
      BY <1>7, <2>1 DEF MemcpyRom
    <3>2. NoClobber(n) => mem' = Moved(n)'
      BY <1>1, <1>2, <1>4, <2>1, <3>1, GotoStored
    <3>3. RomCopies'
      BY <1>2, <3>1, <3>2 DEF RomCopies, NoClobber, args
    <3>. QED  BY <1>1, <1>6, <2>1, <3>1, <3>3 DEF Goto
  <2>2. CASE left # 0
    BY <1>1, <1>5, <1>7, <2>2 DEF MemcpyRom
  <2>. QED  BY <2>1, <2>2
<1>8. CASE StrcpyRom
  <2>1. /\ fn = "strcpy_rom" /\ dst + n < Size /\ src + n < Size
        /\ String(mem0, src, n) /\ NoClobber(n + 1)
    BY <1>1, <1>8 DEF StrcpyRom, Stored
  <2>2. NoClobber(n) /\ mem = Moved(n - left)
    BY <1>1, <1>4, <2>1 DEF NoClobber
  <2>3. mem[s] = mem0[s]
    <3>1. s \in 0..(Size - 1) /\ s \notin dst..(dst + (n - left) - 1)
      BY <1>1, <1>3, <2>1 DEF NoClobber
    <3>. QED  BY <2>2, <3>1 DEF Moved
  <2>4. mem[s] = 0 <=> left = 0
    <3>1. CASE left = 0
      BY <1>1, <1>3, <2>1, <2>3, <3>1 DEF String
    <3>2. CASE left # 0
      <4>1. n - left \in 0..(n - 1)
        BY <1>1, <3>2
      <4>. QED  BY <1>3, <2>1, <2>3, <3>2, <4>1 DEF String
    <3>. QED  BY <3>1, <3>2
  <2>5. CASE left = 0
    <3>1. /\ mem' = [mem EXCEPT ![d] = 0] /\ pc' = "done"
          /\ UNCHANGED <<d, s, left>>
      BY <1>8, <2>4, <2>5 DEF StrcpyRom
    <3>2. d = dst + n /\ d \in 0..(Size - 1) /\ mem = Moved(n) /\ mem0[src + n] = 0
      BY <1>1, <1>3, <2>1, <2>2, <2>5 DEF String
    <3>3. ASSUME NEW x \in Addrs
          PROVE  mem'[x] = Moved(n + 1)[x]
      <4>0. x \in Int
        BY <1>1
      <4>1. CASE x = d
        <5>1. x \in dst..(dst + (n + 1) - 1) /\ x - dst + src = src + n
          BY <1>1, <3>2, <4>1
        <5>2. Moved(n + 1)[x] = 0
          BY <3>2, <5>1 DEF Moved
        <5>. QED  BY <1>1, <3>1, <4>1, <5>2
      <4>2. CASE x # d
        <5>1. x \in dst..(dst + n - 1) <=> x \in dst..(dst + (n + 1) - 1)
          BY <1>1, <3>2, <4>0, <4>2
        <5>2. Moved(n)[x] = Moved(n + 1)[x]
          BY <5>1 DEF Moved
        <5>. QED  BY <1>1, <3>1, <3>2, <4>2, <5>2
      <4>. QED  BY <4>1, <4>2
    <3>4. mem' \in [Addrs -> Bytes]
      <4>1. 0 \in Bytes
        OBVIOUS
      <4>. QED  BY <1>1, <3>1, <4>1
    <3>5. mem' = Moved(n + 1)
      BY <3>3, <3>4 DEF Moved
    <3>6. RomCopies'
      BY <1>2, <2>1, <3>5 DEF RomCopies, Moved, args
    <3>. QED  BY <1>6, <2>5, <3>1, <3>4, <3>6
  <2>6. CASE left # 0
    BY <1>1, <1>5, <1>8, <2>4, <2>6 DEF StrcpyRom
  <2>. QED  BY <2>5, <2>6
<1>. QED  BY <1>7, <1>8

\* The invariant of the loops.
THEOREM LoopInvariant == Spec => []Inv
<1>1. Inv /\ [Next]_vars => Inv'
  <2>. SUFFICES ASSUME Inv, [Next]_vars PROVE Inv'
    OBVIOUS
  <2>1. CASE MemsetCall \/ MemsetAlign \/ MemsetWords \/ MemsetTail
    BY <2>1, MemsetInv
  <2>2. CASE MemmoveCall \/ MemmoveBack \/ MemmoveAlign \/ MemmoveWords \/ MemmoveTail
    BY <2>2, MemmoveInv
  <2>3. CASE MemcpyRom \/ StrcpyRom
    BY <2>3, RomInv
  <2>4. CASE UNCHANGED vars
    BY <2>4 DEF Inv, TypeOK, Routine, Alignment, Stored, Results, MemsetResult,
                MemmoveResult, RomCopies, Filled, Moved, MovedFrom, NoClobber,
                String, vars, args
  <2>. QED  BY <2>1, <2>2, <2>3, <2>4 DEF Next
<1>. QED  BY <1>1, InitInv, PTL DEF Spec

\* The pointers stay together and within the arguments.
THEOREM Typing == Spec => []TypeOK
<1>1. Inv => TypeOK
  BY DEF Inv
<1>. QED  BY <1>1, LoopInvariant, PTL

\* memset fills its n bytes and touches no other, for every alignment and length
\* (the head, the words and the tail of the patched string.c).
THEOREM MemsetFills == Spec => []MemsetResult
<1>1. Inv => MemsetResult
  BY DEF Inv, Results
<1>. QED  BY <1>1, LoopInvariant, PTL

\* memmove moves its n bytes for every overlap, length and alignment.
THEOREM MemmoveMoves == Spec => []MemmoveResult
<1>1. Inv => MemmoveResult
  BY DEF Inv, Results
<1>. QED  BY <1>1, LoopInvariant, PTL

\* memcpy_rom and strcpy_rom copy what they do not overwrite on the way.
THEOREM RomLoopsCopy == Spec => []RomCopies
<1>1. Inv => RomCopies
  BY DEF Inv, Results
<1>. QED  BY <1>1, LoopInvariant, PTL

\* No load or store of eight bytes is misaligned, so none traps to M-mode.
THEOREM NoTrap == Spec => []NeverTrapped
<1>1. Inv => NeverTrapped
  BY DEF Inv, Routine, NeverTrapped
<1>. QED  BY <1>1, LoopInvariant, PTL
=============================================================================
