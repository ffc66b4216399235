------------------------- MODULE BlockDevice_proofs -------------------------
(***************************************************************************)
(* Proofs about BlockDevice, for every number of processes, buffers and    *)
(* trackers, every size of the backing store and every number of kills of  *)
(* fesvr: types and mutual exclusion, the range of every request, and,     *)
(* when the requests in flight at a kill are done before the next boot     *)
(* drains (Settled), that no DMA is left over.  When moreover no sector    *)
(* number wraps (NoAlias), a transfer has happened when blkdev_xfer        *)
(* returns, and every step is a step of the abstract store of DiskService. *)
(***************************************************************************)
EXTENDS BlockDevice, FiniteSetTheorems, TLAPS

\* No two blocks asked for have the same sector number: blkdev.c:137 wraps for
\* none of them.
NoAlias == \A b \in Blocks : b * SECTORS_PER_BLOCK < WordSize

-----------------------------------------------------------------------------
(* What holds however late the device is.                                  *)

\* What the range check lets through.
Admitted(offset) ==
  \/ offset + SECTORS_PER_BLOCK <= NSectors
  \/ NSectors = 0
  \/ offset + SECTORS_PER_BLOCK >= WordSize

Contents == [dev : {0, 1}, blockno : Blocks \cup {0}, valid : BOOLEAN, data : Data]

Locks == [buf : Bufs \cup {NoBuf}, write : BOOLEAN]

\* Types.  Every transfer is aligned, so no buffer and no block is ever torn.
Typed ==
  /\ boot \in {"init", "drain", "up"}
  /\ pc \in [Procs -> Labels]
  /\ req \in [Procs -> Locks]
  /\ lock \in BOOLEAN
  /\ reg \in Requests
  /\ tracker \in [Tags -> [st : {"free", "busy", "done"}, req : Requests]]
  /\ bcache \in [Bufs -> Contents]
  /\ disk \in [Offsets -> Data]
  /\ kills \in 0..MaxKills

\* blkdev_lock has one holder, which is in a transfer.
Exclusion ==
  /\ lock <=> \E p \in Procs : pc[p] \in Holding
  /\ \A p, q \in Procs : pc[p] \in Holding /\ pc[q] \in Holding => p = q

\* A buffer is locked by one process and then caches a block.
Buffers ==
  /\ boot # "up" => \A p \in Procs : pc[p] = "user"
  /\ \A p \in Procs : pc[p] = "user" <=> req[p].buf = NoBuf
  /\ \A p, q \in Procs : p # q /\ req[p].buf = req[q].buf => req[p].buf = NoBuf
  /\ \A p \in Procs : pc[p] # "user" =>
       bcache[req[p].buf].dev = 1 /\ Blockno(p) \in Blocks

\* The registers that the holder has stored, in its order, and that it has
\* passed the range check.
Registers ==
  \A p \in Procs :
    /\ pc[p] \in Holding \cup {"acquire"} => Admitted(Offset(Blockno(p)))
    /\ pc[p] \in {"offset", "len", "write", "alloc", "ncomplete", "complete"} =>
         reg.addr = Request(p).addr
    /\ pc[p] \in {"len", "write", "alloc", "ncomplete", "complete"} =>
         reg.offset = Request(p).offset
    /\ pc[p] \in {"write", "alloc", "ncomplete", "complete"} => reg.len = Request(p).len
    /\ pc[p] \in {"alloc", "ncomplete", "complete"} => reg.write = Request(p).write

\* What the device knows of is a transfer of a block and a buffer, which has passed
\* the range check; what it has done is inside the store.
Issued ==
  \A t \in Tags : tracker[t].st # "free" =>
    /\ tracker[t].req.len = SECTORS_PER_BLOCK
    /\ Admitted(tracker[t].req.offset)
    /\ \E b \in Blocks : tracker[t].req.offset = Offset(b)
    /\ tracker[t].st = "done" => Inside(t)
    /\ \E i \in Bufs : tracker[t].req.addr = DataAddr(i)

BaseInv == Typed /\ Exclusion /\ Buffers /\ Registers /\ Issued

-----------------------------------------------------------------------------
(* What holds when the device is done before the next boot drains.         *)

InTransfer(p) == pc[p] \in {"ncomplete", "complete"}

\* At most one request inside the store is being served.  From the drain on it is
\* nobody's or that of the holder, which waits for it; a holder that has seen a
\* completion finds it.
Owned ==
  /\ \A t, u \in Tags : /\ tracker[t].st = "busy" /\ tracker[u].st = "busy"
                        /\ Inside(t) /\ Inside(u)
                        => t = u
  /\ boot = "drain" => \A t \in Tags : tracker[t].st = "busy" => ~Inside(t)
  /\ DmaOwned
  /\ \A p \in Procs : pc[p] = "complete" => \E t \in Tags : tracker[t].st = "done"

\* A process between the call and the effect of its transfer.
Complete == \E t \in Tags : tracker[t].st = "done"

Pending(p) == pc[p] \notin {"user", "hold", "release"} /\ ~(InTransfer(p) /\ Complete)

Agrees(i) == bcache[i].data = disk[Offset(bcache[i].blockno)]

\* Nobody's transfer of the buffer is under way.
Quiet(i) == \A p \in Procs : req[p].buf = i => ~Pending(p)

\* A block has one buffer.
OneBuffer == \A i, j \in Bufs :
  bcache[i].dev = 1 /\ bcache[j].dev = 1 /\ bcache[i].blockno = bcache[j].blockno => i = j

\* A buffer is valid only for a stored block, and not before the kernel is up.
ValidStored == \A i \in Bufs : bcache[i].valid =>
  bcache[i].dev = 1 /\ bcache[i].blockno \in Stored /\ boot = "up"

\* The buffer of a process back from bread is valid; that of one in blkdev_rw is
\* valid exactly for bwrite.
ValidHeld == \A p \in Procs :
  /\ pc[p] = "hold" => bcache[req[p].buf].valid
  /\ pc[p] \notin {"user", "hold"} => (bcache[req[p].buf].valid <=> req[p].write)

\* A buffer that is valid, or whose transfer is done, agrees with the disk.
ValidAgrees == \A i \in Bufs : bcache[i].valid /\ Quiet(i) => Agrees(i)
DoneAgrees  == \A p \in Procs : pc[p] # "user" /\ ~Pending(p) =>
                 Blockno(p) \in Stored /\ Agrees(req[p].buf)

Cached == OneBuffer /\ ValidStored /\ ValidHeld /\ ValidAgrees /\ DoneAgrees

OwnedInv == BaseInv /\ Owned
StoreInv == BaseInv /\ Owned /\ Cached

-----------------------------------------------------------------------------
(* Block numbers, addresses and trackers.                                  *)

LEMMA SmallMod == ASSUME NEW x \in Nat, NEW w \in Nat, x < w PROVE x % w = x
OBVIOUS

LEMMA Sectors ==
  /\ \A b \in Blocks : b \in Nat /\ Offset(b) \in 0..(WordSize - 1)
  /\ Offsets \subseteq Nat /\ WordSize \in Nat /\ NSectors \in Nat
<1>. USE BlockAssumption
<1>1. ASSUME NEW b \in Blocks PROVE b \in Nat /\ Offset(b) \in 0..(WordSize - 1)
  <2>1. b \in Nat /\ WordSize \in Nat \ {0}
    OBVIOUS
  <2>2. b * SECTORS_PER_BLOCK \in Nat
    BY <2>1 DEF SECTORS_PER_BLOCK
  <2>3. \A x \in Nat : x % WordSize \in 0..(WordSize - 1)
    BY <2>1
  <2>. QED  BY <2>1, <2>2, <2>3 DEF Offset
<1>2. Offsets \subseteq Nat
  BY DEF Offsets, SECTORS_PER_BLOCK
<1>. QED  BY <1>1, <1>2

\* A sector number that has not wrapped tells the block and whether it is stored.
LEMMA StoredSectors ==
  ASSUME NoAlias
  PROVE  /\ \A b \in Blocks : Offset(b) = b * SECTORS_PER_BLOCK
         /\ \A b \in Blocks : Offset(b) \in Offsets <=> b \in Stored
         /\ \A b, c \in Blocks : Offset(b) = Offset(c) => b = c
         /\ Stored \subseteq Blocks
<1>. USE BlockAssumption
<1>1. ASSUME NEW b \in Blocks PROVE b \in Nat /\ Offset(b) = b * SECTORS_PER_BLOCK
  <2>1. b * 2 \in Nat /\ WordSize \in Nat /\ b * 2 < WordSize
    BY DEF SECTORS_PER_BLOCK, NoAlias
  <2>. QED  BY <2>1, SmallMod DEF Offset, SECTORS_PER_BLOCK
<1>2. ASSUME NEW b \in Blocks PROVE Offset(b) \in Offsets <=> b \in Stored
  <2>1. ASSUME b \in Stored PROVE Offset(b) \in Offsets
    BY <1>1, <2>1 DEF Stored, Offsets, Whole, SECTORS_PER_BLOCK
  <2>2. ASSUME Offset(b) \in Offsets PROVE b \in Stored
    <3>1. PICK c \in 0..NSectors : Whole(c) /\ Offset(b) = c * SECTORS_PER_BLOCK
      BY <2>2 DEF Offsets
    <3>2. c = b
      BY <1>1, <3>1 DEF SECTORS_PER_BLOCK
    <3>. QED  BY <3>1, <3>2 DEF Stored
  <2>. QED  BY <2>1, <2>2
<1>3. ASSUME NEW b \in Blocks, NEW c \in Blocks, Offset(b) = Offset(c) PROVE b = c
  BY <1>1, <1>3 DEF SECTORS_PER_BLOCK
<1>4. Stored \subseteq Blocks
  BY DEF Stored
<1>. QED  BY <1>1, <1>2, <1>3, <1>4

\* What passes the range check.
LEMMA RangeCheck ==
  ASSUME NEW b \in Blocks, ~OutOfRange(Offset(b)) PROVE Admitted(Offset(b))
<1>1. Offset(b) \in Nat /\ WordSize \in Nat /\ NSectors \in Nat
  BY Sectors
<1>2. CASE Offset(b) + 2 < WordSize
  <2>1. (Offset(b) + 2) % WordSize = Offset(b) + 2
    BY <1>1, <1>2, SmallMod
  <2>. QED  BY <1>1, <2>1 DEF OutOfRange, Admitted, SECTORS_PER_BLOCK
<1>. QED  BY <1>1, <1>2 DEF Admitted, SECTORS_PER_BLOCK

\* Every buffer's data is aligned to 64, and its address tells the buffer.
LEMMA Layout ==
  /\ \A i \in Bufs : DataAddr(i) \in Nat /\ DataAddr(i) % 64 = 0
  /\ \A i, j \in Bufs : DataAddr(i) = DataAddr(j) => i = j
<1>1. Align64(24) = 64 /\ Align64(88) = 128 /\ Align64(1152) = 1152
  BY DEF Align64
<1>2. \A i \in Nat : DataAddr(i) = 192 + i * 1152
  BY <1>1 DEF DataAddr, LockSize, HeaderSize, BSIZE
<1>3. Bufs \subseteq Nat
  BY DEF Bufs
<1>4. ASSUME NEW i \in Nat PROVE (192 + i * 1152) % 64 = 0
  OBVIOUS
<1>. QED  BY <1>2, <1>3, <1>4

LEMMA KillsBounded == MaxKills \in Nat
BY BlockAssumption

LEMMA NoBufIsNone == NoBuf \notin Bufs
BY BlockAssumption DEF NoBuf, Bufs

\* Reading ncomplete and nalloc as zero.
LEMMA Counted ==
  ASSUME NEW S \in SUBSET Tags PROVE Cardinality(S) = 0 <=> S = {}
<1>1. IsFiniteSet(S)
  BY BlockAssumption, FS_Subset
<1>. QED  BY <1>1, FS_EmptySet

LEMMA CompleteIsRead ==
  \A f : (Cardinality({t \in Tags : f[t].st = "done"}) # 0)
           <=> \E t \in Tags : f[t].st = "done"
BY Counted

LEMMA FreeIsRead ==
  \A f : (Cardinality({t \in Tags : f[t].st = "free"}) = 0)
           <=> \A t \in Tags : f[t].st # "free"
BY Counted

-----------------------------------------------------------------------------
(* BaseInv.                                                                *)

USE DEF Goto

LEMMA Held ==
  ASSUME BaseInv, NEW p \in Procs, pc[p] # "user"
  PROVE  req[p].buf \in Bufs /\ req[p] \in Locks
BY DEF BaseInv, Typed, Buffers, Locks

LEMMA HolderRequest ==
  ASSUME BaseInv, NEW p \in Procs, pc[p] \in Holding
  PROVE  /\ Request(p) = [addr |-> DataAddr(req[p].buf), offset |-> Offset(Blockno(p)),
                          len |-> SECTORS_PER_BLOCK, write |-> req[p].write]
         /\ DataAddr(req[p].buf) \in Nat /\ Blockno(p) \in Blocks
         /\ Offset(Blockno(p)) \in Nat /\ req[p].write \in BOOLEAN
         /\ Request(p) \in Requests
<1>1. req[p].buf \in Bufs /\ req[p].write \in BOOLEAN /\ Blockno(p) \in Blocks
  BY Held DEF BaseInv, Buffers, Holding, Locks
<1>. QED  BY <1>1, Layout, Sectors DEF Request, Requests

LEMMA BaseInit == Init => BaseInv
<1>. SUFFICES ASSUME Init PROVE BaseInv
  OBVIOUS
<1>. USE BlockAssumption DEF Init
<1>1. Typed
  <2>1. reg \in Requests /\ tracker \in [Tags -> [st : {"free", "busy", "done"}, req : Requests]]
    BY DEF NoRequest, Free, Requests
  <2>2. pc \in [Procs -> Labels] /\ req \in [Procs -> Locks]
    BY DEF Labels, Unlocked, Locks
  <2>3. bcache \in [Bufs -> Contents]
    BY DEF Bss, Contents
  <2>4. boot \in {"init", "drain", "up"} /\ lock \in BOOLEAN
    OBVIOUS
  <2>5. kills \in 0..MaxKills
    BY KillsBounded
  <2>. QED  BY <2>1, <2>2, <2>3, <2>4, <2>5 DEF Typed
<1>2. Exclusion /\ Buffers /\ Registers
  BY DEF Exclusion, Buffers, Registers, Holding, Unlocked
<1>3. Issued
  BY DEF Issued, Free
<1>. QED  BY <1>1, <1>2, <1>3 DEF BaseInv

LEMMA TypedStep == ASSUME BaseInv, [Next]_vars PROVE Typed'
<1>. USE DEF BaseInv
<1>1. CASE Boot
  <2>1. Free \in [st : {"free", "busy", "done"}, req : Requests]
    BY DEF Free, NoRequest, Requests
  <2>. QED  BY <1>1, <2>1 DEF Boot, InitRead, DrainPop, DrainDone, Typed
<1>2. CASE KillFesvr
  <2>1. bcache' \in [Bufs -> Contents]
    BY <1>2, BlockAssumption DEF KillFesvr, Bss, Contents
  <2>2. req' \in [Procs -> Locks] /\ pc' \in [Procs -> Labels]
    BY <1>2 DEF KillFesvr, Unlocked, Locks, Labels
  <2>3. boot' \in {"init", "drain", "up"} /\ lock' \in BOOLEAN
    BY <1>2 DEF KillFesvr
  <2>4. kills' \in 0..MaxKills
    BY <1>2, KillsBounded DEF KillFesvr, Typed
  <2>. QED  BY <1>2, <2>1, <2>2, <2>3, <2>4 DEF KillFesvr, Typed
<1>3. ASSUME NEW p \in Procs, NEW b \in Blocks, NEW i \in Bufs, Bread(p, b, i)
      PROVE  Typed'
  <2>1. bcache' \in [Bufs -> Contents]
    <3>1. \A c \in Contents :
            [c EXCEPT !.dev = 1, !.blockno = b, !.valid = FALSE] \in Contents
      BY DEF Contents
    <3>2. bcache[i] \in Contents
      BY DEF Typed
    <3>3. PICK c \in Contents : bcache' = bcache \/ bcache' = [bcache EXCEPT ![i] = c]
      BY <1>3, <3>1, <3>2 DEF Bread, Bget
    <3>. QED  BY <3>3 DEF Typed
  <2>2. req' \in [Procs -> Locks] /\ pc' \in [Procs -> Labels]
    BY <1>3 DEF Bread, Bget, Typed, Locks, Labels
  <2>. QED  BY <1>3, <2>1, <2>2 DEF Bread, Typed
<1>4. ASSUME NEW p \in Procs, NEW d \in Data, Bwrite(p, d) PROVE Typed'
  <2>1. bcache' \in [Bufs -> Contents]
    BY <1>4 DEF Bwrite, Typed, Contents
  <2>2. req' \in [Procs -> Locks] /\ pc' \in [Procs -> Labels]
    BY <1>4 DEF Bwrite, Typed, Locks, Labels
  <2>. QED  BY <1>4, <2>1, <2>2 DEF Bwrite, Typed
<1>5. ASSUME NEW p \in Procs, Brelse(p) \/ Acquire(p) \/ Check(p) \/ WaitTracker(p)
                                \/ WaitComplete(p) \/ Spin(p)
      PROVE  Typed'
  <2>1. CASE Brelse(p)
    BY <2>1 DEF Brelse, Typed, Labels, Unlocked, Locks
  <2>2. CASE Acquire(p) \/ Check(p)
    BY <2>2 DEF Acquire, Check, Typed, Labels
  <2>3. CASE WaitTracker(p) \/ WaitComplete(p)
    BY <2>3 DEF WaitTracker, WaitComplete, Typed, Labels
  <2>4. CASE Spin(p)
    BY <2>4 DEF Spin, vars, Typed
  <2>. QED  BY <1>5, <2>1, <2>2, <2>3, <2>4
<1>6. ASSUME NEW p \in Procs, StoreRegister(p) PROVE Typed'
  <2>1. /\ pc[p] \in {"addr", "offset", "len", "write"}
        /\ After[pc[p]] \in {"offset", "len", "write", "alloc"}
    BY <1>6 DEF StoreRegister, After
  <2>2. Request(p) \in Requests
    BY <2>1, HolderRequest DEF Holding, Labels
  <2>3. reg' \in Requests
    BY <1>6, <2>1, <2>2 DEF StoreRegister, Requests, Typed
  <2>4. pc' \in [Procs -> Labels]
    BY <1>6, <2>1 DEF StoreRegister, Typed, Labels
  <2>. QED  BY <1>6, <2>3, <2>4 DEF StoreRegister, Typed
<1>7. ASSUME NEW p \in Procs, Launch(p) PROVE Typed'
  BY <1>7 DEF Launch, Typed, Labels
<1>8. ASSUME NEW p \in Procs, Pop(p) PROVE Typed'
  <2>1. Free \in [st : {"free", "busy", "done"}, req : Requests]
    BY DEF Free, NoRequest, Requests
  <2>. QED  BY <1>8, <2>1 DEF Pop, Typed, Labels
<1>9. ASSUME NEW p \in Procs, Release(p) PROVE Typed'
  BY <1>9 DEF Release, Typed, Labels, Contents
<1>10. ASSUME NEW t \in Tags, Serve(t) PROVE Typed'
  <2>1. /\ tracker[t].req \in Requests /\ tracker[t].req.offset \in Offsets
        /\ tracker[t].req.addr % 64 = 0
    BY <1>10, Layout DEF Serve, Inside, Typed, Issued
  <2>2. bcache' \in [Bufs -> Contents]
    <3>1. \A old \in Data : Stores(tracker[t].req.addr, old, disk[tracker[t].req.offset])
                             = disk[tracker[t].req.offset]
      BY <2>1 DEF Stores
    <3>2. disk[tracker[t].req.offset] \in Data
      BY <2>1 DEF Typed
    <3>3. \/ bcache' = bcache
          \/ \E i \in Bufs : bcache' = [bcache EXCEPT ![i].data =
                Stores(tracker[t].req.addr, @, disk[tracker[t].req.offset])]
      BY <1>10 DEF Serve
    <3>. QED  BY <3>1, <3>2, <3>3 DEF Typed, Contents
  <2>3. disk' \in [Offsets -> Data]
    BY <1>10, <2>1 DEF Serve, Typed, Contents
  <2>4. tracker' \in [Tags -> [st : {"free", "busy", "done"}, req : Requests]]
    BY <1>10 DEF Serve, Typed
  <2>. QED  BY <1>10, <2>2, <2>3, <2>4 DEF Serve, Typed
<1>11. CASE UNCHANGED vars
  BY <1>11 DEF vars, Typed
<1>. QED
  BY <1>1, <1>2, <1>3, <1>4, <1>5, <1>6, <1>7, <1>8, <1>9, <1>10, <1>11 DEF Next, Step

LEMMA ExclusionStep == ASSUME BaseInv, [Next]_vars PROVE Exclusion'
<1>. USE DEF BaseInv, Exclusion
<1>0. pc \in [Procs -> Labels]
  BY DEF Typed
<1>1. CASE Boot
  BY <1>1 DEF Boot, InitRead, DrainPop, DrainDone
<1>2. CASE KillFesvr
  BY <1>2 DEF KillFesvr, Holding
<1>3. ASSUME NEW p \in Procs, UNCHANGED lock, pc[p] \in Holding <=> pc'[p] \in Holding,
             \A q \in Procs : q # p => pc'[q] = pc[q]
      PROVE  Exclusion'
  BY <1>3
<1>4. ASSUME NEW p \in Procs, NEW b \in Blocks, NEW i \in Bufs, Bread(p, b, i)
      PROVE  Exclusion'
  BY <1>0, <1>3, <1>4 DEF Bread, Holding
<1>5. ASSUME NEW p \in Procs, NEW d \in Data, Bwrite(p, d) PROVE Exclusion'
  BY <1>0, <1>3, <1>5 DEF Bwrite, Holding
<1>6. ASSUME NEW p \in Procs, Brelse(p) \/ Check(p) PROVE Exclusion'
  BY <1>0, <1>3, <1>6 DEF Brelse, Check, Holding
<1>7. ASSUME NEW p \in Procs, WaitTracker(p) \/ WaitComplete(p) \/ Launch(p) \/ Pop(p)
      PROVE  Exclusion'
  BY <1>0, <1>3, <1>7 DEF WaitTracker, WaitComplete, Launch, Pop, Holding, Labels
<1>8. ASSUME NEW p \in Procs, StoreRegister(p) PROVE Exclusion'
  BY <1>0, <1>3, <1>8 DEF StoreRegister, After, Holding, Labels
<1>9. ASSUME NEW p \in Procs, Acquire(p) PROVE Exclusion'
  BY <1>0, <1>9 DEF Acquire, Holding, Labels
<1>10. ASSUME NEW p \in Procs, Release(p) PROVE Exclusion'
  BY <1>0, <1>10 DEF Release, Holding, Labels
<1>11. ASSUME NEW t \in Tags, Serve(t) PROVE Exclusion'
  BY <1>11 DEF Serve
<1>12. CASE UNCHANGED vars
  BY <1>12 DEF vars
<1>. QED
  BY <1>1, <1>2, <1>4, <1>5, <1>6, <1>7, <1>8, <1>9, <1>10, <1>11, <1>12
     DEF Next, Step, Spin

\* bget leaves the buffers that processes have locked alone.
Gets(p, b, i) ==
  /\ req'[p] = [buf |-> i, write |-> FALSE]
  /\ \A q \in Procs \ {p} : req'[q] = req[q]
  /\ \A j \in Bufs \ {i} : bcache'[j] = bcache[j]
  /\ \A q \in Procs : req[q].buf # i
  /\ bcache'[i].dev = 1 /\ bcache'[i].blockno = b
  /\ bcache'[i].data = bcache[i].data
  /\ \/ bcache'[i] = bcache[i]
     \/ ~bcache'[i].valid /\ \A j \in Bufs : ~Caches(j, b)

LEMMA BgetStep ==
  ASSUME BaseInv, NEW p \in Procs, NEW b \in Blocks, NEW i \in Bufs, pc[p] = "user",
         Bget(p, b, i)
  PROVE  Gets(p, b, i)
<1>. USE DEF Gets
<1>1. bcache \in [Bufs -> Contents] /\ req \in [Procs -> Locks] /\ bcache[i] \in Contents
  BY DEF BaseInv, Typed
<1>2. CASE Caches(i, b) /\ bcache' = bcache
  BY <1>1, <1>2 DEF Bget, Unused, Caches
<1>3. CASE /\ \A j \in Bufs : ~Caches(j, b)
           /\ bcache' = [bcache EXCEPT ![i] = [@ EXCEPT !.dev = 1, !.blockno = b,
                                                        !.valid = FALSE]]
  <2>. DEFINE c == [bcache[i] EXCEPT !.dev = 1, !.blockno = b, !.valid = FALSE]
  <2>1. c.dev = 1 /\ c.blockno = b /\ ~c.valid /\ c.data = bcache[i].data
    BY <1>1 DEF Contents
  <2>2. bcache' = [bcache EXCEPT ![i] = c]
    BY <1>3
  <2>. HIDE DEF c
  <2>. QED  BY <1>1, <1>3, <2>1, <2>2 DEF Bget, Unused
<1>. QED  BY <1>2, <1>3 DEF Bget

\* A buffer that a process has locked stays its buffer, of the same block.
LEMMA Stable ==
  ASSUME BaseInv, [Next]_vars, NEW q \in Procs, pc[q] # "user", pc'[q] # "user"
  PROVE  /\ req'[q].buf = req[q].buf /\ Blockno(q)' = Blockno(q)
         /\ bcache'[req[q].buf].dev = bcache[req[q].buf].dev
         /\ pc[q] # "hold" => req'[q] = req[q]
<1>. USE DEF Blockno
<1>0. /\ req[q].buf \in Bufs /\ req \in [Procs -> Locks] /\ bcache \in [Bufs -> Contents]
      /\ pc \in [Procs -> Labels]
  BY Held DEF BaseInv, Typed
<1>1. CASE UNCHANGED <<req, bcache>>
  BY <1>1
<1>2. CASE KillFesvr
  BY <1>2 DEF KillFesvr
<1>3. ASSUME NEW p \in Procs, NEW b \in Blocks, NEW i \in Bufs, Bread(p, b, i)
      PROVE  /\ req'[q] = req[q] /\ Blockno(q)' = Blockno(q)
             /\ bcache'[req[q].buf].dev = bcache[req[q].buf].dev
  <2>1. p # q /\ Bget(p, b, i) /\ pc[p] = "user"
    BY <1>3 DEF Bread
  <2>2. req'[q] = req[q] /\ req[q].buf # i /\ \A j \in Bufs \ {i} : bcache'[j] = bcache[j]
    <3>1. Gets(p, b, i)
      BY <2>1, BgetStep
    <3>. QED  BY <2>1, <3>1 DEF Gets
  <2>3. req[q].buf \in Bufs \ {i}
    BY <1>0, <2>2
  <2>. QED  BY <2>2, <2>3
<1>4. ASSUME NEW p \in Procs, NEW d \in Data, Bwrite(p, d)
      PROVE  /\ req'[q].buf = req[q].buf /\ Blockno(q)' = Blockno(q)
             /\ bcache'[req[q].buf].dev = bcache[req[q].buf].dev
             /\ pc[q] # "hold" => req'[q] = req[q]
  BY <1>0, <1>4 DEF Bwrite, Locks, Contents
<1>5. ASSUME NEW p \in Procs, Brelse(p) PROVE req'[q] = req[q] /\ UNCHANGED bcache
  BY <1>0, <1>5 DEF Brelse
<1>6. ASSUME NEW p \in Procs, Release(p)
      PROVE  /\ UNCHANGED req /\ Blockno(q)' = Blockno(q)
             /\ bcache'[req[q].buf].dev = bcache[req[q].buf].dev
  BY <1>0, <1>6 DEF Release, Contents
<1>7. ASSUME NEW t \in Tags, Serve(t)
      PROVE  /\ UNCHANGED req /\ Blockno(q)' = Blockno(q)
             /\ bcache'[req[q].buf].dev = bcache[req[q].buf].dev
  BY <1>0, <1>7 DEF Serve, Contents
<1>. QED
  BY <1>1, <1>2, <1>3, <1>4, <1>5, <1>6, <1>7
     DEF Next, vars, Boot, InitRead, DrainPop, DrainDone, Step, Acquire, Check, WaitTracker,
         StoreRegister, Launch, WaitComplete, Pop, Spin

LEMMA BuffersStep == ASSUME BaseInv, [Next]_vars PROVE Buffers'
<1>. USE DEF BaseInv, Buffers
<1>0. /\ req \in [Procs -> Locks] /\ bcache \in [Bufs -> Contents]
      /\ pc \in [Procs -> Labels]
  BY DEF Typed
<1>1. \A p \in Procs : pc[p] # "user" /\ pc'[p] # "user" =>
        bcache'[req'[p].buf].dev = 1 /\ Blockno(p)' \in Blocks
  BY Stable
<1>2. CASE Boot
  <2>1. UNCHANGED <<pc, req, bcache>> /\ (boot' # "up" => boot # "up")
    BY <1>2 DEF Boot, InitRead, DrainPop, DrainDone
  <2>. QED  BY <2>1 DEF Blockno
<1>3. CASE KillFesvr
  BY <1>3 DEF KillFesvr, Unlocked
<1>4. ASSUME NEW p \in Procs, NEW b \in Blocks, NEW i \in Bufs, Bread(p, b, i)
      PROVE  Buffers'
  <2>1. boot' = "up" /\ pc[p] = "user" /\ pc'[p] # "user" /\ Bget(p, b, i)
        /\ \A q \in Procs \ {p} : pc'[q] = pc[q]
    BY <1>0, <1>4 DEF Bread
  <2>2. /\ req'[p].buf = i /\ \A q \in Procs \ {p} : req'[q] = req[q]
        /\ bcache'[i].dev = 1 /\ bcache'[i].blockno = b
        /\ \A q \in Procs : req[q].buf # i
    <3>1. Gets(p, b, i)
      BY <2>1, BgetStep
    <3>. QED  BY <3>1 DEF Gets
  <2>3. \A q \in Procs : pc'[q] = "user" <=> req'[q].buf = NoBuf
    BY <2>1, <2>2, NoBufIsNone
  <2>4. \A q, r \in Procs : q # r /\ req'[q].buf = req'[r].buf => req'[q].buf = NoBuf
    BY <2>2
  <2>5. \A q \in Procs : pc'[q] # "user" =>
          bcache'[req'[q].buf].dev = 1 /\ Blockno(q)' \in Blocks
    BY <1>1, <2>1, <2>2 DEF Blockno
  <2>. QED  BY <2>1, <2>3, <2>4, <2>5
<1>5. ASSUME NEW p \in Procs, Brelse(p) PROVE Buffers'
  <2>1. /\ pc'[p] = "user" /\ req'[p].buf = NoBuf /\ pc[p] # "user" /\ boot' = boot
        /\ \A q \in Procs \ {p} : pc'[q] = pc[q] /\ req'[q] = req[q]
    BY <1>0, <1>5 DEF Brelse, Unlocked
  <2>. QED  BY <1>1, <2>1
\* The other steps of a process keep it out of "user" and its buffer locked.
<1>6. ASSUME boot' = boot,
             \A q \in Procs : (pc'[q] = "user" <=> pc[q] = "user") /\ req'[q].buf = req[q].buf
      PROVE  Buffers'
  BY <1>1, <1>6
<1>7. ASSUME NEW p \in Procs, NEW d \in Data, Bwrite(p, d) PROVE Buffers'
  BY <1>0, <1>6, <1>7 DEF Bwrite, Locks
<1>8. ASSUME NEW p \in Procs, Acquire(p) \/ Check(p) \/ WaitTracker(p) \/ WaitComplete(p)
      PROVE  Buffers'
  BY <1>0, <1>6, <1>8 DEF Acquire, Check, WaitTracker, WaitComplete
<1>9. ASSUME NEW p \in Procs, Launch(p) \/ Pop(p) \/ Release(p) PROVE Buffers'
  BY <1>0, <1>6, <1>9 DEF Launch, Pop, Release
<1>10. ASSUME NEW p \in Procs, StoreRegister(p) PROVE Buffers'
  BY <1>0, <1>6, <1>10 DEF StoreRegister, After
<1>11. ASSUME NEW t \in Tags, Serve(t) PROVE Buffers'
  BY <1>6, <1>11 DEF Serve
<1>12. CASE UNCHANGED vars
  BY <1>6, <1>12 DEF vars
<1>. QED
  BY <1>2, <1>3, <1>4, <1>5, <1>7, <1>8, <1>9, <1>10, <1>11, <1>12 DEF Next, Step, Spin

\* The registers are stable for everybody but the process that stores them.
LEMMA RegistersStep == ASSUME BaseInv, [Next]_vars PROVE Registers'
<1>. USE DEF BaseInv
<1>0. /\ req \in [Procs -> Locks] /\ pc \in [Procs -> Labels] /\ reg \in Requests
  BY DEF Typed
<1>1. ASSUME NEW q \in Procs, pc[q] \notin {"user", "hold"}, pc'[q] # "user"
      PROVE  Request(q)' = Request(q) /\ Blockno(q)' = Blockno(q)
  BY <1>1, Stable DEF Request
<1>. DEFINE Good(q) ==
       /\ pc[q] \in Holding \cup {"acquire"} => Admitted(Offset(Blockno(q)))
       /\ pc[q] \in {"offset", "len", "write", "alloc", "ncomplete", "complete"} =>
            reg.addr = Request(q).addr
       /\ pc[q] \in {"len", "write", "alloc", "ncomplete", "complete"} =>
            reg.offset = Request(q).offset
       /\ pc[q] \in {"write", "alloc", "ncomplete", "complete"} => reg.len = Request(q).len
       /\ pc[q] \in {"alloc", "ncomplete", "complete"} => reg.write = Request(q).write
<1>2. \A q \in Procs : Good(q)
  BY DEF Registers
<1>3. ASSUME NEW q \in Procs, pc'[q] = pc[q], UNCHANGED reg PROVE Good(q)'
  BY <1>1, <1>2, <1>3 DEF Holding, Labels
<1>4. SUFFICES ASSUME NEW q \in Procs PROVE Good(q)'
  BY DEF Registers
<1>5. CASE Boot \/ \E t \in Tags : Serve(t)
  BY <1>3, <1>5 DEF Boot, InitRead, DrainPop, DrainDone, Serve
<1>6. CASE KillFesvr
  BY <1>6 DEF KillFesvr, Holding
<1>7. ASSUME NEW p \in Procs, \E b \in Blocks, i \in Bufs : Bread(p, b, i) PROVE Good(q)'
  BY <1>0, <1>3, <1>7 DEF Bread, Holding
<1>8. ASSUME NEW p \in Procs, (\E d \in Data : Bwrite(p, d)) \/ Brelse(p) PROVE Good(q)'
  BY <1>0, <1>3, <1>8 DEF Bwrite, Brelse, Holding
<1>9. ASSUME NEW p \in Procs, Check(p) PROVE Good(q)'
  <2>1. pc[p] = "check" /\ Blockno(p) \in Blocks
    BY <1>9 DEF Check, Buffers
  <2>2. pc'[p] = "acquire" => Admitted(Offset(Blockno(p)'))
    BY <1>0, <1>1, <1>9, <2>1, RangeCheck DEF Check
  <2>. QED  BY <1>0, <1>3, <1>9, <2>2 DEF Check, Holding
<1>10. ASSUME NEW p \in Procs, Acquire(p) PROVE Good(q)'
  BY <1>0, <1>1, <1>2, <1>3, <1>10 DEF Acquire
<1>11. ASSUME NEW p \in Procs, WaitTracker(p) PROVE Good(q)'
  BY <1>0, <1>1, <1>2, <1>3, <1>11 DEF WaitTracker, Holding, Labels
<1>12. ASSUME NEW p \in Procs, StoreRegister(p) PROVE Good(q)'
  <2>1. pc[p] \in Holding /\ pc'[p] \in Holding
    BY <1>0, <1>12 DEF StoreRegister, After, Holding, Labels
  <2>2. CASE q = p
    BY <1>0, <1>1, <1>2, <1>12, <2>1, <2>2 DEF StoreRegister, After, Requests
  <2>3. CASE q # p
    <3>1. pc'[q] = pc[q] /\ pc[q] \notin Holding
      BY <1>0, <1>12, <2>1, <2>3 DEF StoreRegister, Exclusion
    <3>2. pc[q] = "acquire" => Request(q)' = Request(q) /\ Blockno(q)' = Blockno(q)
      BY <1>1, <3>1
    <3>. QED  BY <1>2, <3>1, <3>2 DEF Holding, Labels
  <2>. QED  BY <2>2, <2>3
<1>13. ASSUME NEW p \in Procs, Launch(p) \/ WaitComplete(p) \/ Pop(p) PROVE Good(q)'
  BY <1>0, <1>1, <1>2, <1>3, <1>13 DEF Launch, WaitComplete, Pop, Holding, Labels
<1>14. ASSUME NEW p \in Procs, Release(p) PROVE Good(q)'
  BY <1>0, <1>3, <1>14 DEF Release, Holding
<1>15. CASE UNCHANGED vars
  BY <1>3, <1>15 DEF vars
<1>. QED
  BY <1>5, <1>6, <1>7, <1>8, <1>9, <1>10, <1>11, <1>12, <1>13, <1>14, <1>15
     DEF Next, Step, Spin

\* When the holder reads `allocate` the registers are its request.
LEMMA StoredRequest ==
  ASSUME BaseInv, NEW p \in Procs, pc[p] \in {"alloc", "ncomplete", "complete"}
  PROVE  reg = Request(p)
<1>1. pc[p] \in Holding
  BY DEF Holding, Labels
<1>2. /\ reg.addr = Request(p).addr /\ reg.offset = Request(p).offset
      /\ reg.len = Request(p).len /\ reg.write = Request(p).write
  BY DEF BaseInv, Registers
<1>3. reg \in Requests /\ Request(p) \in Requests
  BY <1>1, HolderRequest DEF BaseInv, Typed
<1>. QED  BY <1>2, <1>3 DEF Requests

\* A request is issued with the registers of its holder.
LEMMA IssuedStep == ASSUME BaseInv, [Next]_vars PROVE Issued'
<1>. USE DEF BaseInv
<1>0. tracker \in [Tags -> [st : {"free", "busy", "done"}, req : Requests]]
  BY DEF Typed
<1>1. ASSUME \A t \in Tags : \/ tracker'[t].st = "free"
                             \/ /\ tracker[t].st # "free" /\ tracker'[t].req = tracker[t].req
                                /\ tracker'[t].st = "done" => tracker[t].st = "done" \/ Inside(t)
      PROVE  Issued'
  BY <1>1 DEF Issued, Inside
<1>2. CASE Boot \/ \E p \in Procs : Pop(p)
  BY <1>0, <1>1, <1>2 DEF Boot, InitRead, DrainPop, DrainDone, Pop, Free
<1>3. ASSUME NEW p \in Procs, Launch(p) PROVE Issued'
  <2>1. reg = Request(p)
    BY <1>3, StoredRequest DEF Launch
  <2>2. /\ reg.len = SECTORS_PER_BLOCK /\ Admitted(reg.offset)
        /\ \E b \in Blocks : reg.offset = Offset(b)
        /\ \E i \in Bufs : reg.addr = DataAddr(i)
    <3>1. pc[p] \in Holding
      BY <1>3 DEF Launch, Holding, Labels
    <3>2. Admitted(Offset(Blockno(p))) /\ Blockno(p) \in Blocks /\ req[p].buf \in Bufs
      BY <3>1, HolderRequest, Held DEF Registers, Holding
    <3>. QED  BY <2>1, <3>1, <3>2, HolderRequest
  <2>3. ASSUME NEW t \in Tags, tracker'[t].st # "free"
        PROVE  tracker'[t] = tracker[t] \/ (tracker'[t].req = reg /\ tracker'[t].st = "busy")
    BY <1>0, <1>3, <2>3 DEF Launch
  <2>. QED  BY <2>2, <2>3 DEF Issued, Inside
<1>4. ASSUME NEW t \in Tags, Serve(t) PROVE Issued'
  BY <1>0, <1>1, <1>4 DEF Serve
<1>5. CASE UNCHANGED tracker
  BY <1>1, <1>5
<1>. QED
  BY <1>2, <1>3, <1>4, <1>5
     DEF Next, vars, KillFesvr, Bread, Bwrite, Brelse, Step, Acquire, Check, WaitTracker,
         StoreRegister, WaitComplete, Release, Spin

LEMMA BaseInvariance == BaseInv /\ [Next]_vars => BaseInv'
BY TypedStep, ExclusionStep, BuffersStep, RegistersStep, IssuedStep DEF BaseInv

LEMMA BaseInvariant == Spec => []BaseInv
BY BaseInit, BaseInvariance, PTL DEF Spec

-----------------------------------------------------------------------------
(* Owned, when the device is done before the next boot drains.             *)

\* While a process has a lock on a buffer the kernel is up.
LEMMA Running ==
  ASSUME BaseInv, NEW p \in Procs, pc[p] # "user" PROVE boot = "up"
BY DEF BaseInv, Buffers, Typed

\* A holder that has not issued its request finds nothing under way in the store.
LEMMA AllFree ==
  ASSUME BaseInv, Owned, NEW p \in Procs, pc[p] \in Holding, ~InTransfer(p)
  PROVE  \A t \in Tags : tracker[t].st = "free" \/ ~Inside(t)
BY Running DEF BaseInv, Exclusion, Owned, DmaOwned, InTransfer, Holding, Labels

LEMMA OwnedInit == Init => Owned
BY DEF Init, Owned, DmaOwned, Free

LEMMA OwnedStep ==
  ASSUME Settled, BaseInv, Owned, [Next]_vars PROVE Owned'
<1>. USE DEF Owned
<1>0. /\ tracker \in [Tags -> [st : {"free", "busy", "done"}, req : Requests]]
      /\ pc \in [Procs -> Labels]
  BY DEF BaseInv, Typed
<1>1. ASSUME NEW p \in Procs, InTransfer(p), pc'[p] # "user"
      PROVE  Request(p)' = Request(p)
  BY <1>1, Stable DEF InTransfer, Request
<1>2. ASSUME UNCHANGED <<boot, tracker>>,
             \A p \in Procs : InTransfer(p) => InTransfer(p)',
             \A p \in Procs : pc'[p] = "complete" => pc[p] = "complete" \/ Complete
      PROVE  Owned'
  <2>1. \A p \in Procs : InTransfer(p) => InTransfer(p)' /\ Request(p)' = Request(p)
    BY <1>1, <1>2 DEF InTransfer
  <2>2. DmaOwned'
    BY <1>2, <2>1 DEF DmaOwned, InTransfer, Inside
  <2>. QED  BY <1>2, <2>2 DEF Complete, Inside
<1>3. CASE InitRead
  BY <1>3, <1>0 DEF InitRead, DmaOwned, BaseInv, Buffers, Inside
<1>4. CASE DrainPop
  BY <1>4, <1>0 DEF DrainPop, DmaOwned, BaseInv, Buffers, Free, Inside
<1>5. CASE DrainDone
  <2>1. \A t \in Tags : tracker[t].st = "free" \/ ~Inside(t)
    BY <1>5, <1>0, CompleteIsRead DEF DrainDone, NComplete
  <2>. QED  BY <1>5, <2>1 DEF DrainDone, DmaOwned, BaseInv, Buffers, Inside
<1>6. CASE KillFesvr
  BY <1>6 DEF KillFesvr, DmaOwned, Inside
<1>7. ASSUME NEW p \in Procs, \E b \in Blocks, i \in Bufs : Bread(p, b, i) PROVE Owned'
  BY <1>0, <1>2, <1>7 DEF Bread, InTransfer
<1>8. ASSUME NEW p \in Procs, (\E d \in Data : Bwrite(p, d)) \/ Brelse(p) PROVE Owned'
  BY <1>0, <1>2, <1>8 DEF Bwrite, Brelse, InTransfer
<1>9. ASSUME NEW p \in Procs, Acquire(p) \/ Check(p) \/ WaitTracker(p) \/ Release(p)
      PROVE  Owned'
  BY <1>0, <1>2, <1>9 DEF Acquire, Check, WaitTracker, Release, InTransfer
<1>10. ASSUME NEW p \in Procs, StoreRegister(p) PROVE Owned'
  BY <1>0, <1>2, <1>10 DEF StoreRegister, After, InTransfer
<1>11. ASSUME NEW p \in Procs, WaitComplete(p) PROVE Owned'
  <2>1. Complete
    BY <1>11, CompleteIsRead DEF WaitComplete, NComplete, Complete
  <2>. QED  BY <1>0, <1>2, <1>11, <2>1 DEF WaitComplete, InTransfer
<1>12. ASSUME NEW p \in Procs, Launch(p) PROVE Owned'
  <2>1. /\ pc[p] = "alloc" /\ pc'[p] = "ncomplete" /\ boot = "up" /\ boot' = "up"
        /\ \A q \in Procs \ {p} : pc'[q] = pc[q]
    BY <1>0, <1>12, Running DEF Launch
  <2>2. \A t \in Tags : tracker[t].st = "free" \/ ~Inside(t)
    BY <2>1, AllFree DEF InTransfer, Holding, Labels
  <2>3. reg = Request(p) /\ Request(p)' = Request(p)
    BY <2>1, StoredRequest, Stable DEF Request
  <2>4. \A q \in Procs : pc'[q] # "complete"
    BY <2>1 DEF BaseInv, Exclusion, Holding, Labels
  <2>5. CASE tracker' = tracker
    BY <2>1, <2>2, <2>4, <2>5 DEF DmaOwned, Inside
  <2>6. CASE tracker' # tracker
    <3>1. PICK t \in Tags : tracker' = [tracker EXCEPT ![t] = [st |-> "busy", req |-> reg]]
      BY <1>12, <2>6 DEF Launch
    <3>2. /\ tracker'[t].st = "busy" /\ tracker'[t].req = Request(p)'
          /\ \A u \in Tags \ {t} : tracker'[u].st = "free" \/ ~Inside(u)'
      BY <1>0, <2>2, <2>3, <3>1 DEF Inside
    <3>. QED  BY <2>1, <2>4, <3>2 DEF DmaOwned
  <2>. QED  BY <2>5, <2>6
<1>13. ASSUME NEW p \in Procs, Pop(p) PROVE Owned'
  <2>1. /\ pc[p] = "complete" /\ boot = "up" /\ boot' = "up"
        /\ \A q \in Procs : pc'[q] # "complete"
    BY <1>0, <1>13, Running DEF Pop, BaseInv, Exclusion, Holding, Labels
  <2>2. NComplete # 0
    BY <2>1, CompleteIsRead DEF NComplete
  <2>3. PICK t \in Tags : tracker[t].st = "done" /\ tracker' = [tracker EXCEPT ![t] = Free]
    BY <1>13, <2>2 DEF Pop
  <2>4. \A u \in Tags \ {t} : tracker[u].st = "free" \/ ~Inside(u)
    BY <2>1, <2>3 DEF DmaOwned, BaseInv, Issued
  <2>5. \A u \in Tags : tracker'[u].st = "free" \/ ~Inside(u)'
    BY <1>0, <2>3, <2>4 DEF Free, Inside
  <2>. QED  BY <2>1, <2>5 DEF DmaOwned
<1>14. ASSUME NEW t \in Tags, Serve(t) PROVE Owned'
  <2>1. /\ tracker[t].st = "busy" /\ tracker'[t].st = "done"
        /\ \A u \in Tags : /\ tracker'[u].req = tracker[u].req
                           /\ u # t => tracker'[u] = tracker[u]
                           /\ Inside(u)' <=> Inside(u)
        /\ UNCHANGED <<boot, pc, req>>
    BY <1>0, <1>14 DEF Serve, Inside
  <2>2. \A p \in Procs : InTransfer(p) => InTransfer(p)' /\ Request(p)' = Request(p)
    BY <1>1, <2>1 DEF InTransfer
  <2>3. DmaOwned'
    BY <2>1, <2>2 DEF DmaOwned, InTransfer
  <2>. QED  BY <2>1, <2>3
<1>15. CASE UNCHANGED vars
  BY <1>2, <1>15 DEF vars, InTransfer
<1>. QED
  BY <1>3, <1>4, <1>5, <1>6, <1>7, <1>8, <1>9, <1>10, <1>11, <1>12, <1>13, <1>14, <1>15
     DEF Next, Boot, Step, Spin

-----------------------------------------------------------------------------
(* Cached.                                                                 *)

LEMMA CachedInit == Init => Cached
BY NoBufIsNone
   DEF Init, Cached, OneBuffer, ValidStored, ValidHeld, ValidAgrees, DoneAgrees, Bss,
       Unlocked, Pending, InTransfer

\* What serving a request does when the kernel is up: it moves the data of its
\* holder, whole, and is then the only completion.
LEMMA ServeHolder ==
  ASSUME NoAlias, BaseInv, Owned, boot = "up", NEW t \in Tags, Serve(t)
  PROVE  \E p \in Procs :
           /\ InTransfer(p) /\ ~Complete /\ Complete'
           /\ Blockno(p) \in Stored /\ req[p].buf \in Bufs
           /\ UNCHANGED <<boot, pc, req, kills, reg, lock>>
           /\ \/ /\ req[p].write
                 /\ disk' = [disk EXCEPT ![Offset(Blockno(p))] = bcache[req[p].buf].data]
                 /\ bcache' = bcache
              \/ /\ ~req[p].write /\ disk' = disk
                 /\ bcache' = [bcache EXCEPT ![req[p].buf].data =
                                 disk[Offset(Blockno(p))]]
<1>1. tracker[t].st = "busy" /\ tracker \in [Tags -> [st : {"free", "busy", "done"},
                                                     req : Requests]]
  BY DEF Serve, BaseInv, Typed
<1>2. PICK p \in Procs : /\ InTransfer(p) /\ tracker[t].req = Request(p)
                         /\ \A u \in Tags \ {t} : tracker[u].st = "free" \/ ~Inside(u)
  BY <1>1 DEF Owned, DmaOwned, InTransfer, Serve
<1>3. pc[p] \in Holding /\ pc[p] # "user"
  BY <1>2 DEF InTransfer, Holding, Labels
<1>4. /\ tracker[t].req.addr = DataAddr(req[p].buf)
      /\ tracker[t].req.offset = Offset(Blockno(p))
      /\ tracker[t].req.write = req[p].write
      /\ req[p].buf \in Bufs /\ Blockno(p) \in Blocks /\ req[p].write \in BOOLEAN
  BY <1>2, <1>3, HolderRequest, Held DEF Locks
<1>4a. Blockno(p) \in Stored
  BY <1>4, StoredSectors DEF Serve, Inside
<1>5. ~Complete /\ Complete'
  BY <1>1, <1>2 DEF Complete, Serve, BaseInv, Issued
<1>6. \A old : Stores(tracker[t].req.addr, old, disk[tracker[t].req.offset])
                 = disk[Offset(Blockno(p))]
  BY <1>4, Layout DEF Stores
<1>7. \A i \in Bufs : DataAddr(i) = tracker[t].req.addr => i = req[p].buf
  BY <1>4, Layout
<1>8. \/ /\ req[p].write
         /\ disk' = [disk EXCEPT ![Offset(Blockno(p))] = bcache[req[p].buf].data]
         /\ bcache' = bcache
      \/ /\ ~req[p].write /\ disk' = disk
         /\ bcache' = [bcache EXCEPT ![req[p].buf].data = disk[Offset(Blockno(p))]]
  BY <1>4, <1>6, <1>7 DEF Serve
<1>. QED  BY <1>2, <1>4, <1>4a, <1>5, <1>8 DEF Serve

\* Without a completed transfer nobody's call has taken effect in a tracker, and
\* nobody but the holder cares.
LEMMA PendingStable ==
  ASSUME BaseInv, NEW p \in Procs, pc[p] \in Holding, NEW q \in Procs \ {p}, pc'[q] = pc[q]
  PROVE  (Pending(q)' <=> Pending(q)) /\ ~InTransfer(q)
<1>1. pc[q] \notin Holding
  BY DEF BaseInv, Exclusion
<1>. QED  BY <1>1 DEF Pending, InTransfer, Holding, Labels

\* A step of p changes buffer i only, which p locks before it or after it, and
\* leaves i right: the other buffers and processes do not notice.
Local(p, i) ==
  /\ \A q \in Procs \ {p} :
       /\ pc'[q] = pc[q] /\ req'[q] = req[q] /\ req[q].buf # i
       /\ pc[q] # "user" => (Pending(q)' <=> Pending(q))
  /\ \A j \in Bufs \ {i} :
       /\ bcache'[j].valid = bcache[j].valid /\ bcache'[j].dev = bcache[j].dev
       /\ bcache'[j].blockno = bcache[j].blockno
       /\ bcache[j].dev = 1 /\ bcache[j].blockno \in Stored => (Agrees(j)' <=> Agrees(j))
  /\ req[p].buf \in {i, NoBuf}
  /\ boot' = "up"

Right(p, i) ==
  /\ \A j \in Bufs \ {i} : bcache'[j].dev = 1 /\ bcache'[i].dev = 1
                             => bcache'[j].blockno # bcache'[i].blockno
  /\ bcache'[i].valid => bcache'[i].dev = 1 /\ bcache'[i].blockno \in Stored
  /\ pc'[p] = "hold" => bcache'[i].valid
  /\ pc'[p] \notin {"user", "hold"} => (bcache'[i].valid <=> req'[p].write)
  /\ pc'[p] # "user" => req'[p].buf = i
  /\ \/ Pending(p)'
     \/ Agrees(i)' /\ bcache'[i].blockno \in Stored
     \/ pc'[p] = "user" /\ ~bcache'[i].valid

LEMMA LocalStep ==
  ASSUME BaseInv, Cached, NEW p \in Procs, NEW i \in Bufs, Local(p, i), Right(p, i), BaseInv'
  PROVE  Cached'
<1>1. OneBuffer'
  <2>. SUFFICES ASSUME NEW j \in Bufs, NEW k \in Bufs, bcache'[j].dev = 1, bcache'[k].dev = 1,
                       bcache'[j].blockno = bcache'[k].blockno
                PROVE  j = k
    BY DEF OneBuffer
  <2>1. CASE j # i /\ k # i
    BY <2>1 DEF Local, Cached, OneBuffer
  <2>2. CASE j = i \/ k = i
    BY <2>2 DEF Right
  <2>. QED  BY <2>1, <2>2
<1>2. ValidStored'
  BY DEF Local, Right, Cached, ValidStored
<1>3. ASSUME NEW q \in Procs \ {p}, pc[q] # "user" PROVE req[q].buf \in Bufs \ {i}
  BY <1>3, Held DEF Local
<1>4. ValidHeld'
  <2>. SUFFICES ASSUME NEW q \in Procs
                PROVE  /\ pc'[q] = "hold" => bcache'[req'[q].buf].valid
                       /\ pc'[q] \notin {"user", "hold"} =>
                            (bcache'[req'[q].buf].valid <=> req'[q].write)
    BY DEF ValidHeld
  <2>1. CASE q = p
    BY <2>1 DEF Right
  <2>2. CASE q # p /\ pc[q] # "user"
    <3>1. /\ pc'[q] = pc[q] /\ req'[q] = req[q]
          /\ bcache'[req[q].buf].valid = bcache[req[q].buf].valid
      BY <1>3, <2>2 DEF Local
    <3>. QED  BY <3>1 DEF Cached, ValidHeld
  <2>3. CASE q # p /\ pc[q] = "user"
    BY <2>3 DEF Local
  <2>. QED  BY <2>1, <2>2, <2>3
<1>5. ASSUME NEW j \in Bufs \ {i}, bcache[j].valid PROVE (Agrees(j)' <=> Agrees(j))
  BY <1>5 DEF Local, Cached, ValidStored
<1>6. ValidAgrees'
  <2>. SUFFICES ASSUME NEW j \in Bufs, bcache'[j].valid, Quiet(j)' PROVE Agrees(j)'
    BY DEF ValidAgrees
  <2>1. CASE j = i
    <3>1. pc'[p] # "user" => ~Pending(p)'
      BY <2>1 DEF Quiet, Right
    <3>2. pc'[p] = "user" => ~Pending(p)'
      BY DEF Pending
    <3>. QED  BY <2>1, <3>1, <3>2 DEF Right
  <2>2. CASE j # i
    <3>1. ASSUME NEW q \in Procs, req[q].buf = j PROVE ~Pending(q)
      <4>1. q # p
        BY <2>2, <3>1, NoBufIsNone DEF Local
      <4>2. req'[q].buf = j /\ (pc[q] # "user" => (Pending(q)' <=> Pending(q)))
        BY <3>1, <4>1 DEF Local
      <4>. QED  BY <4>2 DEF Quiet, Pending
    <3>2. Agrees(j)
      BY <2>2, <3>1 DEF Quiet, Local, Cached, ValidAgrees
    <3>. QED  BY <1>5, <2>2, <3>2 DEF Local
  <2>. QED  BY <2>1, <2>2
<1>7. DoneAgrees'
  <2>. SUFFICES ASSUME NEW q \in Procs, pc'[q] # "user", ~Pending(q)'
                PROVE  Blockno(q)' \in Stored /\ Agrees(req[q].buf)'
    BY DEF DoneAgrees
  <2>1. CASE q = p
    <3>1. Agrees(i)' /\ bcache'[i].blockno \in Stored /\ req'[q].buf = i
      BY <2>1 DEF Right
    <3>. QED  BY <3>1 DEF Agrees, Blockno
  <2>2. CASE q # p
    <3>1. /\ pc[q] # "user" /\ req'[q] = req[q] /\ ~Pending(q)
      BY <2>2 DEF Local
    <3>2. req[q].buf \in Bufs \ {i}
      BY <1>3, <2>2, <3>1
    <3>3. bcache[req[q].buf].dev = 1
      BY <3>1 DEF BaseInv, Buffers
    <3>4. bcache[req[q].buf].blockno \in Stored /\ Agrees(req[q].buf)
      BY <3>1 DEF Cached, DoneAgrees, Blockno
    <3>4a. Blockno(q)' \in Stored
      BY <3>1, <3>2, <3>4 DEF Local, Blockno
    <3>5. Agrees(req[q].buf)' <=> (bcache'[req[q].buf].data
                                   = disk'[Offset(bcache'[req[q].buf].blockno)])
      BY <3>1 DEF Agrees
    <3>6. \A j \in Bufs \ {i} : bcache[j].dev = 1 /\ bcache[j].blockno \in Stored
            => (bcache'[j].data = disk'[Offset(bcache'[j].blockno)] <=> Agrees(j))
      BY DEF Local, Agrees
    <3>. QED  BY <3>2, <3>3, <3>4, <3>4a, <3>5, <3>6
  <2>. QED  BY <2>1, <2>2
<1>. QED  BY <1>1, <1>2, <1>4, <1>6, <1>7 DEF Cached

\* A lock that p has, nobody else has.
LEMMA Alone ==
  ASSUME BaseInv, NEW p \in Procs, pc[p] # "user", NEW q \in Procs \ {p}
  PROVE  req[q].buf # req[p].buf
BY Held, NoBufIsNone DEF BaseInv, Buffers

LEMMA CachedStep ==
  ASSUME NoAlias, BaseInv, Owned, Cached, [Next]_vars, BaseInv' PROVE Cached'
<1>0. /\ req \in [Procs -> Locks] /\ bcache \in [Bufs -> Contents]
      /\ pc \in [Procs -> Labels]
      /\ tracker \in [Tags -> [st : {"free", "busy", "done"}, req : Requests]]
      /\ disk \in [Offsets -> Data]
  BY DEF BaseInv, Typed
\* Steps that leave the cache, the disk and the locked buffers alone.
<1>1. ASSUME UNCHANGED <<boot, req, bcache, disk>>,
             \A q \in Procs : /\ pc'[q] = "user" <=> pc[q] = "user"
                              /\ pc'[q] = "hold" <=> pc[q] = "hold"
                              /\ pc[q] # "user" => (Pending(q)' <=> Pending(q))
      PROVE  Cached'
  <2>1. \A i \in Bufs : (Agrees(i)' <=> Agrees(i))
    BY <1>1 DEF Agrees
  <2>2. \A q \in Procs : (Pending(q)' <=> Pending(q))
    BY <1>1 DEF Pending
  <2>3. \A i \in Bufs : (Quiet(i)' <=> Quiet(i))
    BY <1>1, <2>2 DEF Quiet
  <2>4. \A q \in Procs : pc[q] # "user" => req[q].buf \in Bufs
    BY Held
  <2>5. OneBuffer' /\ ValidStored' /\ ValidHeld'
    BY <1>1 DEF Cached, OneBuffer, ValidStored, ValidHeld
  <2>6. ValidAgrees'
    BY <1>1, <2>1, <2>3 DEF Cached, ValidAgrees
  <2>7. DoneAgrees'
    BY <1>1, <2>1, <2>2, <2>4 DEF Cached, DoneAgrees, Blockno
  <2>. QED  BY <2>5, <2>6, <2>7 DEF Cached
\* Steps while nobody has a buffer and none is valid.
<1>2. ASSUME \A q \in Procs : pc'[q] = "user", OneBuffer', \A i \in Bufs : ~bcache'[i].valid
      PROVE  Cached'
  BY <1>2 DEF Cached, ValidStored, ValidHeld, ValidAgrees, DoneAgrees
<1>3. ASSUME boot # "up"
      PROVE  (\A q \in Procs : pc[q] = "user") /\ (\A i \in Bufs : ~bcache[i].valid)
  BY <1>3 DEF BaseInv, Buffers, Cached, ValidStored
<1>4. CASE Boot
  BY <1>2, <1>3, <1>4 DEF Boot, InitRead, DrainPop, DrainDone, Cached, OneBuffer
<1>5. CASE KillFesvr
  BY <1>2, <1>5 DEF KillFesvr, Bss, OneBuffer
<1>6. ASSUME NEW p \in Procs, NEW b \in Blocks, NEW i \in Bufs, Bread(p, b, i)
      PROVE  Cached'
  <2>1. Gets(p, b, i) /\ boot' = "up" /\ pc[p] = "user"
    BY <1>6, BgetStep DEF Bread
  <2>2. /\ pc'[p] = (IF bcache'[i].valid THEN "hold" ELSE "check")
        /\ \A q \in Procs \ {p} : pc'[q] = pc[q]
        /\ UNCHANGED <<tracker, disk>>
    BY <1>0, <1>6 DEF Bread
  <2>3. /\ req'[p].buf = i /\ ~req'[p].write
        /\ \A j \in Bufs \ {i} : bcache'[j] = bcache[j]
        /\ \A q \in Procs : req[q].buf # i
        /\ bcache'[i].dev = 1 /\ bcache'[i].blockno = b
        /\ bcache'[i] = bcache[i] \/ (~bcache'[i].valid /\ \A j \in Bufs : ~Caches(j, b))
        /\ \A q \in Procs \ {p} : req'[q] = req[q]
    BY <2>1 DEF Gets
  <2>4. \A q \in Procs \ {p} : (Pending(q)' <=> Pending(q))
    BY <2>2 DEF Pending, InTransfer, Complete
  <2>5. \A j \in Bufs \ {i} : (Agrees(j)' <=> Agrees(j))
    BY <2>2, <2>3 DEF Agrees
  <2>6. req[p].buf = NoBuf
    BY <2>1 DEF BaseInv, Buffers
  <2>7. Local(p, i)
    BY <2>1, <2>2, <2>3, <2>4, <2>5, <2>6 DEF Local
  <2>8. CASE bcache'[i] = bcache[i]
    <3>1. Quiet(i)
      BY <2>3 DEF Quiet
    <3>2. bcache[i].valid => Agrees(i)' /\ bcache[i].blockno \in Stored
      BY <2>2, <2>8, <3>1 DEF Cached, ValidAgrees, ValidStored, Agrees
    <3>3. ~bcache[i].valid => Pending(p)'
      BY <2>2, <2>8 DEF Pending, InTransfer
    <3>4. \A j \in Bufs \ {i} : bcache'[j].dev = 1 => bcache'[j].blockno # b
      BY <2>3, <2>8 DEF Cached, OneBuffer
    <3>. QED  BY <2>2, <2>3, <2>7, <2>8, <3>2, <3>3, <3>4, LocalStep DEF Right
  <2>9. CASE ~bcache'[i].valid /\ \A j \in Bufs : ~Caches(j, b)
    <3>1. \A j \in Bufs \ {i} : bcache'[j].dev = 1 => bcache'[j].blockno # b
      BY <2>3, <2>9 DEF Caches
    <3>2. Pending(p)'
      BY <2>2, <2>9 DEF Pending, InTransfer
    <3>. QED  BY <2>2, <2>3, <2>7, <2>9, <3>1, <3>2, LocalStep DEF Right
  <2>. QED  BY <2>3, <2>8, <2>9
<1>7. ASSUME NEW p \in Procs, NEW d \in Data, Bwrite(p, d) PROVE Cached'
  <2>1. PICK i \in Bufs : i = req[p].buf /\ pc[p] = "hold" /\ boot = "up"
    BY <1>7, Held, Running DEF Bwrite
  <2>2. bcache[i].valid /\ bcache[i].dev = 1 /\ bcache[i].blockno \in Stored
    BY <2>1 DEF Cached, ValidHeld, ValidStored
  <2>3. /\ pc'[p] = "check" /\ req'[p].buf = i /\ req'[p].write
        /\ \A q \in Procs \ {p} : pc'[q] = pc[q] /\ req'[q] = req[q]
        /\ UNCHANGED <<boot, tracker, disk>>
    BY <1>0, <1>7, <2>1 DEF Bwrite, Locks
  <2>4. /\ \A j \in Bufs \ {i} : bcache'[j] = bcache[j]
        /\ \A j \in Bufs : /\ bcache'[j].valid = bcache[j].valid
                           /\ bcache'[j].dev = bcache[j].dev
                           /\ bcache'[j].blockno = bcache[j].blockno
    BY <1>0, <1>7, <2>1 DEF Bwrite, Contents
  <2>5. \A q \in Procs \ {p} : (Pending(q)' <=> Pending(q))
    BY <2>3 DEF Pending, InTransfer, Complete
  <2>6. \A j \in Bufs \ {i} : (Agrees(j)' <=> Agrees(j))
    BY <2>3, <2>4 DEF Agrees
  <2>7. \A q \in Procs \ {p} : req[q].buf # i
    BY <2>1, Alone
  <2>8. Pending(p)'
    BY <2>3 DEF Pending, InTransfer
  <2>9. \A j \in Bufs \ {i} : bcache[j].dev = 1 => bcache[j].blockno # bcache[i].blockno
    BY <2>1, <2>2 DEF Cached, OneBuffer
  <2>10. Local(p, i)
    BY <2>1, <2>3, <2>4, <2>5, <2>6, <2>7 DEF Local
  <2>11. Right(p, i)
    BY <2>1, <2>2, <2>3, <2>4, <2>8, <2>9 DEF Right
  <2>. QED  BY <2>1, <2>10, <2>11, LocalStep
<1>8. ASSUME NEW p \in Procs, Brelse(p) PROVE Cached'
  <2>1. PICK i \in Bufs : i = req[p].buf /\ pc[p] = "hold" /\ boot = "up"
    BY <1>8, Held, Running DEF Brelse
  <2>2. /\ pc'[p] = "user" /\ UNCHANGED <<boot, tracker, disk, bcache>>
        /\ \A q \in Procs \ {p} : pc'[q] = pc[q] /\ req'[q] = req[q]
    BY <1>0, <1>8 DEF Brelse
  <2>3. \A q \in Procs \ {p} : (Pending(q)' <=> Pending(q))
    BY <2>2 DEF Pending, InTransfer, Complete
  <2>4. \A j \in Bufs : (Agrees(j)' <=> Agrees(j))
    BY <2>2 DEF Agrees
  <2>5. \A q \in Procs \ {p} : req[q].buf # i
    BY <2>1, Alone
  <2>6. Agrees(i) /\ bcache[i].blockno \in Stored
    BY <2>1 DEF Cached, DoneAgrees, Pending, Blockno
  <2>7. /\ bcache[i].dev = 1
        /\ bcache[i].valid => bcache[i].blockno \in Stored
        /\ \A j \in Bufs \ {i} : bcache[j].dev = 1 => bcache[j].blockno # bcache[i].blockno
    BY <2>1 DEF Cached, OneBuffer, ValidStored, BaseInv, Buffers
  <2>8. Local(p, i)
    BY <2>1, <2>2, <2>3, <2>4, <2>5 DEF Local
  <2>9. Right(p, i)
    BY <2>1, <2>2, <2>4, <2>6, <2>7 DEF Right
  <2>. QED  BY <2>1, <2>8, <2>9, LocalStep
<1>9. ASSUME NEW p \in Procs, Acquire(p) \/ Check(p) \/ WaitTracker(p) PROVE Cached'
  BY <1>0, <1>1, <1>9 DEF Acquire, Check, WaitTracker, Pending, InTransfer, Complete
<1>10. ASSUME NEW p \in Procs, StoreRegister(p) PROVE Cached'
  BY <1>0, <1>1, <1>10 DEF StoreRegister, After, Pending, InTransfer, Complete
<1>11. ASSUME NEW p \in Procs, Launch(p) PROVE Cached'
  <2>1. /\ pc[p] = "alloc" /\ pc'[p] = "ncomplete" /\ pc[p] \in Holding
        /\ \A q \in Procs \ {p} : pc'[q] = pc[q]
        /\ UNCHANGED <<boot, req, bcache, disk>>
    BY <1>0, <1>11 DEF Launch, Holding, Labels
  <2>2. ~Complete'
    <3>1. \A t \in Tags : tracker[t].st # "done"
      BY <2>1, AllFree DEF InTransfer, BaseInv, Issued
    <3>. QED  BY <1>0, <1>11, <3>1 DEF Launch, Complete
  <2>3. Pending(p)' /\ Pending(p)
    BY <2>1, <2>2 DEF Pending, InTransfer
  <2>4. \A q \in Procs \ {p} : (Pending(q)' <=> Pending(q))
    BY <2>1, PendingStable
  <2>5. ASSUME NEW q \in Procs
        PROVE  /\ pc'[q] = "user" <=> pc[q] = "user"
               /\ pc'[q] = "hold" <=> pc[q] = "hold"
               /\ (Pending(q)' <=> Pending(q))
    BY <2>1, <2>3, <2>4
  <2>. QED  BY <1>1, <2>1, <2>5
<1>12. ASSUME NEW p \in Procs, WaitComplete(p) PROVE Cached'
  BY <1>0, <1>1, <1>12 DEF WaitComplete, Pending, InTransfer, Complete
<1>13. ASSUME NEW p \in Procs, Pop(p) PROVE Cached'
  <2>1. /\ pc[p] = "complete" /\ pc'[p] = "release" /\ pc[p] \in Holding
        /\ \A q \in Procs \ {p} : pc'[q] = pc[q]
        /\ UNCHANGED <<boot, req, bcache, disk>>
    BY <1>0, <1>13 DEF Pop, Holding, Labels
  <2>2. ~Pending(p)' /\ ~Pending(p)
    BY <2>1 DEF Pending, InTransfer, Owned, Complete
  <2>3. \A q \in Procs \ {p} : (Pending(q)' <=> Pending(q))
    BY <2>1, PendingStable
  <2>4. ASSUME NEW q \in Procs
        PROVE  /\ pc'[q] = "user" <=> pc[q] = "user"
               /\ pc'[q] = "hold" <=> pc[q] = "hold"
               /\ (Pending(q)' <=> Pending(q))
    BY <2>1, <2>2, <2>3
  <2>. QED  BY <1>1, <2>1, <2>4
<1>14. ASSUME NEW p \in Procs, Release(p) PROVE Cached'
  <2>1. PICK i \in Bufs :
        /\ i = req[p].buf /\ pc[p] = "release" /\ pc'[p] = "hold" /\ boot = "up"
        /\ \A q \in Procs \ {p} : pc'[q] = pc[q]
        /\ UNCHANGED <<boot, req, tracker, disk>>
    BY <1>0, <1>14, Held, Running DEF Release
  <2>2. /\ \A j \in Bufs \ {i} : bcache'[j] = bcache[j]
        /\ bcache'[i].valid /\ bcache'[i].dev = bcache[i].dev
        /\ bcache'[i].blockno = bcache[i].blockno /\ bcache'[i].data = bcache[i].data
    BY <1>0, <1>14, <2>1 DEF Release, Contents
  <2>3. bcache[i].dev = 1 /\ bcache[i].blockno \in Stored
    BY <2>1 DEF BaseInv, Buffers, Cached, DoneAgrees, Pending, Blockno
  <2>4. \A q \in Procs : (Pending(q)' <=> Pending(q)) \/ q = p
    BY <2>1 DEF Pending, InTransfer, Complete
  <2>5. \A j \in Bufs : (Agrees(j)' <=> Agrees(j))
    BY <2>1, <2>2 DEF Agrees
  <2>6. Agrees(i)
    BY <2>1 DEF Pending, Cached, DoneAgrees
  <2>7. \A q \in Procs \ {p} : req[q].buf # i
    BY <2>1, Alone
  <2>8. \A j \in Bufs \ {i} : bcache[j].dev = 1 => bcache[j].blockno # bcache[i].blockno
    BY <2>1, <2>3 DEF Cached, OneBuffer
  <2>9. req'[p].buf = i
    BY <2>1
  <2>10. Local(p, i)
    BY <2>1, <2>2, <2>4, <2>5, <2>7 DEF Local
  <2>11. Right(p, i)
    BY <2>1, <2>2, <2>3, <2>5, <2>6, <2>8, <2>9 DEF Right
  <2>. QED  BY <2>1, <2>10, <2>11, LocalStep
<1>15. CASE UNCHANGED vars
  BY <1>1, <1>15 DEF vars, Pending, InTransfer, Complete
<1>16. ASSUME NEW t \in Tags, Serve(t), boot # "up" PROVE Cached'
  <2>1. /\ UNCHANGED <<boot, pc, req>> /\ \A q \in Procs : pc[q] = "user"
        /\ \A i \in Bufs : ~bcache[i].valid
    BY <1>3, <1>16 DEF Serve
  <2>2. ASSUME NEW i \in Bufs
        PROVE  /\ bcache'[i].valid = bcache[i].valid
               /\ bcache'[i].dev = bcache[i].dev
               /\ bcache'[i].blockno = bcache[i].blockno
    <3>1. CASE bcache' = bcache
      BY <3>1
    <3>2. ASSUME NEW j \in Bufs, NEW d, bcache' = [bcache EXCEPT ![j].data = d]
          PROVE  /\ bcache'[i].valid = bcache[i].valid
                 /\ bcache'[i].dev = bcache[i].dev
                 /\ bcache'[i].blockno = bcache[i].blockno
      BY <1>0, <3>2 DEF Contents
    <3>. QED  BY <1>16, <3>1, <3>2 DEF Serve
  <2>3. OneBuffer'
    BY <2>2 DEF Cached, OneBuffer
  <2>. QED  BY <1>2, <2>1, <2>2, <2>3
<1>17. ASSUME NEW t \in Tags, Serve(t), boot = "up" PROVE Cached'
  <2>1. PICK p \in Procs :
           /\ InTransfer(p) /\ ~Complete /\ Complete'
           /\ Blockno(p) \in Stored /\ req[p].buf \in Bufs
           /\ UNCHANGED <<boot, pc, req, kills, reg, lock>>
           /\ \/ /\ req[p].write
                 /\ disk' = [disk EXCEPT ![Offset(Blockno(p))] = bcache[req[p].buf].data]
                 /\ bcache' = bcache
              \/ /\ ~req[p].write /\ disk' = disk
                 /\ bcache' = [bcache EXCEPT ![req[p].buf].data =
                                 disk[Offset(Blockno(p))]]
    BY <1>17, ServeHolder
  <2>. DEFINE o == Offset(Blockno(p))
  <2>2. PICK i \in Bufs :
        /\ i = req[p].buf /\ bcache[i].dev = 1 /\ bcache[i].blockno \in Stored
        /\ pc[p] \in Holding /\ pc[p] \in {"ncomplete", "complete"}
        /\ o \in Offsets
    BY <2>1, StoredSectors DEF BaseInv, Buffers, InTransfer, Blockno, Holding, Labels
  <2>3. /\ \A j \in Bufs \ {i} : bcache'[j] = bcache[j]
        /\ bcache'[i].valid = bcache[i].valid /\ bcache'[i].dev = bcache[i].dev
        /\ bcache'[i].blockno = bcache[i].blockno
        /\ \A x \in Offsets \ {o} : disk'[x] = disk[x]
        /\ bcache'[i].data = disk'[o]
    <3>1. CASE bcache' = bcache /\ disk' = [disk EXCEPT ![o] = bcache[i].data]
      BY <1>0, <2>2, <3>1
    <3>2. CASE disk' = disk /\ bcache' = [bcache EXCEPT ![i].data = disk[o]]
      BY <1>0, <2>2, <3>2 DEF Contents
    <3>. QED  BY <2>1, <2>2, <3>1, <3>2
  <2>4. ~Pending(p)'
    BY <2>1 DEF Pending, InTransfer
  <2>5. \A q \in Procs \ {p} : (Pending(q)' <=> Pending(q))
    BY <2>1, <2>2, PendingStable
  <2>6. Agrees(i)'
    BY <2>2, <2>3 DEF Agrees, Blockno
  <2>7. \A j \in Bufs \ {i} : bcache[j].dev = 1 => bcache[j].blockno # bcache[i].blockno
    BY <2>2 DEF Cached, OneBuffer
  <2>8. ASSUME NEW j \in Bufs \ {i}, bcache[j].dev = 1, bcache[j].blockno \in Stored
        PROVE  (Agrees(j)' <=> Agrees(j))
    <3>1. Offset(bcache[j].blockno) # o /\ Offset(bcache[j].blockno) \in Offsets
      BY <2>2, <2>7, <2>8, StoredSectors DEF Blockno
    <3>. HIDE DEF o
    <3>. QED  BY <2>3, <3>1 DEF Agrees
  <2>9. \A q \in Procs \ {p} : req[q].buf # i
    BY <2>2, Alone
  <2>10. bcache[i].valid <=> req[p].write
    BY <2>2 DEF Cached, ValidHeld
  <2>11. pc'[p] = pc[p] /\ req' = req /\ boot' = "up"
         /\ \A q \in Procs \ {p} : pc'[q] = pc[q] /\ req'[q] = req[q]
    BY <1>17, <2>1
  <2>. HIDE DEF o
  <2>12. Local(p, i)
    BY <2>2, <2>3, <2>5, <2>8, <2>9, <2>11 DEF Local
  <2>13. Right(p, i)
    BY <2>2, <2>3, <2>6, <2>7, <2>10, <2>11 DEF Right
  <2>. QED  BY <2>2, <2>12, <2>13, LocalStep
<1>. QED
  BY <1>4, <1>5, <1>6, <1>7, <1>8, <1>9, <1>10, <1>11, <1>12, <1>13, <1>14, <1>15,
     <1>16, <1>17 DEF Next, Step, Spin

LEMMA OwnedInvariant == ASSUME Settled PROVE Spec => []OwnedInv
<1>1. Init => OwnedInv
  BY BaseInit, OwnedInit DEF OwnedInv
<1>2. OwnedInv /\ [Next]_vars => OwnedInv'
  BY BaseInvariance, OwnedStep DEF OwnedInv
<1>. QED  BY <1>1, <1>2, PTL DEF Spec

LEMMA StoreInvariant == ASSUME Settled, NoAlias PROVE Spec => []StoreInv
<1>1. Init => StoreInv
  BY BaseInit, OwnedInit, CachedInit DEF StoreInv
<1>2. StoreInv /\ [Next]_vars => StoreInv'
  BY BaseInvariance, OwnedStep, CachedStep DEF StoreInv
<1>. QED  BY <1>1, <1>2, PTL DEF Spec

-----------------------------------------------------------------------------
(* What the invariants give.                                               *)

\* The types, the lock and the buffers are as blkdev.c and the cache keep them,
\* however late the device is and however often fesvr is killed.
THEOREM Typing == Spec => []TypeOK
<1>1. BaseInv => TypeOK
  BY DEF BaseInv, Typed, Exclusion, Buffers, TypeOK, Contents, Locks
<1>. QED  BY <1>1, BaseInvariant, PTL

\* RequestsInRange: a request that blkdev_xfer issues is inside the backing store
\* and for the sectors of the block asked for, even if a previous run left requests
\* behind, but for the ways out of the check: no store, and the wraps of uint32.
THEOREM RequestsAreInRange == Spec => []RequestsInRange
<1>1. BaseInv => RequestsInRange
  <2>. SUFFICES ASSUME BaseInv PROVE RequestsInRange
    OBVIOUS
  <2>1. ASSUME NEW t \in Tags, tracker[t].st # "free"
        PROVE  LET end == tracker[t].req.offset + tracker[t].req.len
               IN  end <= NSectors \/ NSectors = 0 \/ end >= WordSize
    <3>1. tracker[t].req.len = SECTORS_PER_BLOCK /\ Admitted(tracker[t].req.offset)
      BY <2>1 DEF BaseInv, Issued
    <3>. QED  BY <3>1 DEF Admitted
  <2>2. ASSUME NEW p \in Procs, pc[p] \in {"ncomplete", "complete"}
        PROVE  LET first == Blockno(p) * SECTORS_PER_BLOCK
               IN  reg.offset = first \/ first >= WordSize
    <3>1. reg.offset = Offset(Blockno(p)) /\ Blockno(p) \in Blocks
      BY <2>2, HolderRequest DEF BaseInv, Registers, Request, Holding, Labels
    <3>2. Blockno(p) * SECTORS_PER_BLOCK \in Nat /\ WordSize \in Nat
      BY <3>1, Sectors DEF SECTORS_PER_BLOCK
    <3>3. CASE Blockno(p) * SECTORS_PER_BLOCK < WordSize
      BY <3>1, <3>2, <3>3, SmallMod DEF Offset
    <3>. QED  BY <3>2, <3>3
  <2>. QED  BY <2>1, <2>2 DEF RequestsInRange
<1>. QED  BY <1>1, BaseInvariant, PTL

\* When the requests in flight at a kill are done before the next boot drains,
\* every transfer the device does once the kernel is up is the one the holder of
\* blkdev_lock waits for.
THEOREM NoStrayTransfer == ASSUME Settled PROVE Spec => []DmaSafe
<1>1. Spec => []DmaOwned
  <2>1. OwnedInv => DmaOwned
    BY DEF OwnedInv, Owned
  <2>. QED  BY <2>1, OwnedInvariant, PTL
<1>. QED  BY <1>1, RequestsAreInRange, PTL DEF DmaSafe

\* When moreover no sector number wraps, a transfer has happened, whole, when
\* blkdev_xfer returns.
THEOREM TransferHasHappened == ASSUME Settled, NoAlias PROVE Spec => []TransferDone
<1>1. StoreInv => TransferDone
  <2>. SUFFICES ASSUME StoreInv, NEW p \in Procs, pc[p] = "release"
                PROVE  /\ Offset(Blockno(p)) \in Offsets
                       /\ bcache[req[p].buf].data = disk[Offset(Blockno(p))]
    BY DEF TransferDone
  <2>1. Blockno(p) \in Stored /\ Agrees(req[p].buf)
    BY DEF StoreInv, Cached, DoneAgrees, Pending
  <2>. QED  BY <2>1, StoredSectors DEF Agrees, Blockno
<1>. QED  BY <1>1, StoreInvariant, PTL

-----------------------------------------------------------------------------
(* The refinement of DiskService.                                          *)

\* The abstract call of a process, by Pending.
Call(p) ==
  LET b == Blockno(p)
      d == bcache[req[p].buf].data
  IN  IF pc[p] = "user" THEN [st |-> "idle"]
      ELSE IF ~Pending(p) THEN [st |-> "done", block |-> b, data |-> d]
      ELSE IF req[p].write THEN [st |-> "write", block |-> b, data |-> d]
      ELSE [st |-> "read", block |-> b]

LEMMA CallNow == ASSUME NEW p \in Procs, pc \in [Procs -> Labels] PROVE CallOf(p) = Call(p)
<1>1. pc[p] # "user" => (Served(p) <=> ~Pending(p))
  BY CompleteIsRead DEF Served, Pending, InTransfer, Complete, NComplete
<1>. QED  BY <1>1 DEF CallOf, Call

LEMMA CallThen ==
  ASSUME NEW p \in Procs, pc' \in [Procs -> Labels] PROVE CallOf(p)' = Call(p)'
<1>1. pc'[p] # "user" => (Served(p)' <=> ~Pending(p)')
  BY CompleteIsRead DEF Served, Pending, InTransfer, Complete, NComplete
<1>. QED  BY <1>1 DEF CallOf, Call

LEMMA CallsAre ==
  ASSUME BaseInv, BaseInv', NEW p \in Procs
  PROVE  CallOf(p) = Call(p) /\ CallOf(p)' = Call(p)'
BY CallNow, CallThen DEF BaseInv, Typed

\* A process that the step does not concern keeps its call.
LEMMA CallStays ==
  ASSUME BaseInv, BaseInv', NEW q \in Procs, pc'[q] = "user" <=> pc[q] = "user",
         pc[q] # "user" =>
           /\ (Pending(q)' <=> Pending(q)) /\ req'[q] = req[q]
           /\ bcache'[req[q].buf].blockno = bcache[req[q].buf].blockno
           /\ bcache'[req[q].buf].data = bcache[req[q].buf].data
  PROVE  CallOf(q)' = CallOf(q)
BY CallsAre DEF Call, Blockno

\* The call of p becomes c, and the others stay.
LEMMA Sets ==
  ASSUME NEW p \in Procs, NEW c, CallOf(p)' = c,
         \A q \in Procs \ {p} : CallOf(q)' = CallOf(q)
  PROVE  Disk!Set(p, c)
BY DEF Disk!Set

LEMMA Stutters ==
  ASSUME \A q \in Procs : CallOf(q)' = CallOf(q), UNCHANGED disk, Orphans' = Orphans
  PROVE  UNCHANGED Disk!vars
BY DEF Disk!vars

LEMMA NoOrphans == ASSUME boot = "up" PROVE Orphans = {}
BY DEF Orphans

LEMMA NoOrphansThen == ASSUME boot' = "up" PROVE Orphans' = {}
BY DEF Orphans

LEMMA DiskInit == ASSUME NoAlias, Init PROVE Disk!Init
<1>1. \A p \in Procs : CallOf(p) = [st |-> "idle"]
  BY DEF Init, CallOf
<1>2. [b \in Stored |-> disk[Offset(b)]] \in [Stored -> Data]
  BY StoredSectors DEF Init
<1>3. Orphans = {}
  BY DEF Init, Orphans, Free
<1>. QED  BY <1>1, <1>2, <1>3 DEF Disk!Init, Disk!Idle

LEMMA DiskStep ==
  ASSUME NoAlias, StoreInv, StoreInv', [Next]_vars PROVE [Disk!Next]_(Disk!vars)
<1>. USE DEF StoreInv
<1>0. /\ req \in [Procs -> Locks] /\ bcache \in [Bufs -> Contents]
      /\ pc \in [Procs -> Labels]
      /\ tracker \in [Tags -> [st : {"free", "busy", "done"}, req : Requests]]
      /\ disk \in [Offsets -> Data]
  BY DEF BaseInv, Typed
\* A step of the kernel that changes no call.
<1>1. ASSUME UNCHANGED <<boot, req, disk>>, boot = "up",
             \A q \in Procs : /\ pc'[q] = "user" <=> pc[q] = "user"
                              /\ pc[q] # "user" => (Pending(q)' <=> Pending(q)),
             \A i \in Bufs : bcache'[i].data = bcache[i].data
                             /\ bcache'[i].blockno = bcache[i].blockno
      PROVE  UNCHANGED Disk!vars
  <2>1. ASSUME NEW q \in Procs PROVE CallOf(q)' = CallOf(q)
    BY <1>1, CallStays, Held
  <2>. QED  BY <1>1, <2>1, Stutters, NoOrphans, NoOrphansThen
<1>2. CASE Boot
  <2>1. /\ UNCHANGED <<pc, req, bcache, disk>> /\ boot # "up"
        /\ \A q \in Procs : pc[q] = "user"
    BY <1>2 DEF Boot, InitRead, DrainPop, DrainDone, BaseInv, Buffers
  <2>2. \A q \in Procs : CallOf(q)' = CallOf(q)
    BY <2>1 DEF CallOf
  <2>3. \A b \in Stored : Offset(b) \in Offsets
    BY StoredSectors
  <2>4. Orphans = {} /\ Orphans' = {}
    <3>1. CASE InitRead
      <4>1. boot' = "drain" /\ tracker' = tracker
        BY <3>1 DEF InitRead
      <4>2. \A t \in Tags : tracker[t].st = "busy" => tracker[t].req.offset \notin Offsets
        BY <4>1 DEF Owned, Inside
      <4>. QED  BY <2>3, <4>1, <4>2 DEF Orphans
    <3>2. CASE DrainPop \/ DrainDone
      <4>1. boot = "drain"
        BY <3>2 DEF DrainPop, DrainDone
      <4>2. \A t \in Tags : tracker[t].st = "busy" => tracker[t].req.offset \notin Offsets
        BY <4>1 DEF Owned, Inside
      <4>3. \A t \in Tags : tracker'[t].st = "busy" => tracker'[t] = tracker[t]
        BY <1>0, <3>2 DEF DrainPop, DrainDone, Free
      <4>. QED  BY <2>3, <4>2, <4>3 DEF Orphans
    <3>. QED  BY <1>2, <3>1, <3>2 DEF Boot
  <2>. QED  BY <2>1, <2>2, <2>4, Stutters
<1>3. ASSUME NEW p \in Procs, NEW b \in Blocks, NEW i \in Bufs, Bread(p, b, i)
      PROVE  Disk!Next
  <2>1. Gets(p, b, i) /\ boot = "up" /\ boot' = "up" /\ pc[p] = "user"
    BY <1>3, BgetStep DEF Bread
  <2>2. /\ pc'[p] = (IF bcache'[i].valid THEN "hold" ELSE "check")
        /\ \A q \in Procs \ {p} : pc'[q] = pc[q]
        /\ UNCHANGED <<tracker, disk>>
    BY <1>0, <1>3 DEF Bread
  <2>3. /\ req'[p].buf = i /\ ~req'[p].write
        /\ \A j \in Bufs \ {i} : bcache'[j] = bcache[j]
        /\ \A q \in Procs : req[q].buf # i
        /\ bcache'[i].dev = 1 /\ bcache'[i].blockno = b
        /\ \A q \in Procs \ {p} : req'[q] = req[q]
    BY <2>1 DEF Gets
  <2>4. \A q \in Procs \ {p} : (Pending(q)' <=> Pending(q))
    BY <2>2 DEF Pending, InTransfer, Complete
  <2>5. ASSUME NEW q \in Procs \ {p} PROVE CallOf(q)' = CallOf(q)
    <3>1. pc[q] # "user" => bcache'[req[q].buf] = bcache[req[q].buf]
      BY <2>3, Held
    <3>. QED  BY <2>2, <2>3, <2>4, <3>1, CallStays
  <2>6. CallOf(p) = Disk!Idle /\ Orphans = {} /\ Orphans' = {}
    BY <2>1, NoOrphans, NoOrphansThen DEF CallOf, Disk!Idle
  <2>7. Blockno(p)' = b
    BY <2>3 DEF Blockno
  <2>8. CASE bcache'[i].valid
    <3>1. pc'[p] = "hold" /\ ~Pending(p)'
      BY <2>2, <2>8 DEF Pending
    <3>2. b \in Stored /\ bcache'[i].data = disk[Offset(b)]
      BY <2>2, <2>3, <2>8, <3>1 DEF Cached, ValidStored, DoneAgrees, Agrees
    <3>3. CallOf(p)' = [st |-> "done", block |-> b, data |-> disk[Offset(b)]]
      BY <2>3, <2>7, <3>1, <3>2, CallsAre DEF Call
    <3>4. Disk!Set(p, [st |-> "done", block |-> b, data |-> disk[Offset(b)]])
      BY <2>5, <3>3, Sets
    <3>5. Disk!ReadAtOnce(p, b)
      BY <2>2, <2>6, <3>2, <3>4 DEF Disk!ReadAtOnce
    <3>. QED  BY <3>5 DEF Disk!Next
  <2>9. CASE ~bcache'[i].valid
    <3>1. pc'[p] = "check" /\ Pending(p)'
      BY <2>2, <2>9 DEF Pending, InTransfer
    <3>2. CallOf(p)' = [st |-> "read", block |-> b]
      BY <2>3, <2>7, <3>1, CallsAre DEF Call
    <3>3. Disk!Set(p, [st |-> "read", block |-> b])
      BY <2>5, <3>2, Sets
    <3>4. Disk!Read(p, b)
      BY <2>2, <2>6, <3>3 DEF Disk!Read
    <3>. QED  BY <3>4 DEF Disk!Next
  <2>. QED  BY <2>8, <2>9
<1>4. ASSUME NEW p \in Procs, NEW d \in Data, Bwrite(p, d) PROVE Disk!Next
  <2>. DEFINE i == req[p].buf
  <2>1. i \in Bufs /\ pc[p] = "hold" /\ boot = "up"
    BY <1>4, Held, Running DEF Bwrite
  <2>2. /\ pc'[p] = "check" /\ req'[p].buf = i /\ req'[p].write
        /\ \A q \in Procs \ {p} : pc'[q] = pc[q] /\ req'[q] = req[q]
        /\ UNCHANGED <<boot, tracker, disk>>
    BY <1>0, <1>4 DEF Bwrite, Locks
  <2>3. /\ \A j \in Bufs \ {i} : bcache'[j] = bcache[j]
        /\ bcache'[i].blockno = bcache[i].blockno /\ bcache'[i].data = d
    BY <1>0, <1>4, <2>1 DEF Bwrite, Contents
  <2>4. \A q \in Procs \ {p} : (Pending(q)' <=> Pending(q))
    BY <2>2 DEF Pending, InTransfer, Complete
  <2>5. ASSUME NEW q \in Procs \ {p} PROVE CallOf(q)' = CallOf(q)
    <3>1. pc[q] # "user" => req[q].buf \in Bufs \ {i}
      BY <2>1, Alone, Held
    <3>. QED  BY <2>2, <2>3, <2>4, <3>1, CallStays
  <2>6. Orphans = {} /\ Orphans' = {}
    BY <2>1, <2>2, NoOrphans, NoOrphansThen
  <2>7. /\ Blockno(p) = bcache[i].blockno /\ Blockno(p)' = bcache[i].blockno
        /\ Pending(p)' /\ ~Pending(p)
    BY <2>1, <2>2, <2>3 DEF Blockno, Pending, InTransfer
  <2>8. /\ CallOf(p) = [st |-> "done", block |-> Blockno(p), data |-> bcache[i].data]
        /\ CallOf(p)' = [st |-> "write", block |-> Blockno(p), data |-> d]
    BY <2>1, <2>2, <2>3, <2>7, CallsAre DEF Call
  <2>9. Disk!Set(p, [st |-> "write", block |-> Blockno(p), data |-> d])
    BY <2>5, <2>8, Sets
  <2>10. Disk!Write(p, d)
    BY <2>2, <2>6, <2>8, <2>9 DEF Disk!Write
  <2>. QED  BY <2>10 DEF Disk!Next
<1>5. ASSUME NEW p \in Procs, Brelse(p) PROVE Disk!Next
  <2>1. /\ pc[p] = "hold" /\ boot = "up" /\ pc'[p] = "user"
        /\ UNCHANGED <<boot, tracker, disk, bcache>>
        /\ \A q \in Procs \ {p} : pc'[q] = pc[q] /\ req'[q] = req[q]
    BY <1>0, <1>5, Running DEF Brelse
  <2>2. \A q \in Procs \ {p} : (Pending(q)' <=> Pending(q))
    BY <2>1 DEF Pending, InTransfer, Complete
  <2>3. ASSUME NEW q \in Procs \ {p} PROVE CallOf(q)' = CallOf(q)
    BY <2>1, <2>2, CallStays
  <2>4. CallOf(p).st = "done" /\ CallOf(p)' = Disk!Idle
    BY <2>1, CallsAre DEF Call, Pending, Disk!Idle
  <2>5. Disk!Set(p, Disk!Idle)
    BY <2>3, <2>4, Sets
  <2>6. Disk!Release(p)
    BY <2>1, <2>4, <2>5, NoOrphans, NoOrphansThen DEF Disk!Release
  <2>. QED  BY <2>6 DEF Disk!Next
<1>6. ASSUME NEW p \in Procs, Acquire(p) \/ Check(p) \/ WaitTracker(p) \/ WaitComplete(p)
      PROVE  UNCHANGED Disk!vars
  <2>1. boot = "up"
    BY <1>6, Running DEF Acquire, Check, WaitTracker, WaitComplete
  <2>. QED
    BY <1>0, <1>1, <1>6, <2>1
       DEF Acquire, Check, WaitTracker, WaitComplete, Pending, InTransfer, Complete
<1>7. ASSUME NEW p \in Procs, StoreRegister(p) PROVE UNCHANGED Disk!vars
  <2>1. boot = "up"
    BY <1>7, Running DEF StoreRegister, After
  <2>. QED  BY <1>0, <1>1, <1>7, <2>1 DEF StoreRegister, After, Pending, InTransfer, Complete
<1>8. ASSUME NEW p \in Procs, Launch(p) \/ Pop(p) PROVE UNCHANGED Disk!vars
  <2>1. /\ pc[p] \in Holding /\ pc[p] # "user" /\ pc'[p] # "user" /\ boot = "up"
        /\ \A q \in Procs \ {p} : pc'[q] = pc[q]
        /\ UNCHANGED <<boot, req, bcache, disk>>
    BY <1>0, <1>8, Running DEF Launch, Pop, Holding, Labels
  <2>2. (Pending(p)' <=> Pending(p))
    <3>1. CASE Pop(p)
      BY <1>0, <3>1 DEF Pop, Pending, InTransfer, Owned, Complete
    <3>2. CASE Launch(p)
      <4>1. \A t \in Tags : tracker[t].st # "done"
        BY <2>1, <3>2, AllFree DEF InTransfer, Launch, BaseInv, Issued
      <4>2. ~Complete'
        BY <1>0, <3>2, <4>1 DEF Launch, Complete
      <4>. QED  BY <1>0, <3>2, <4>2 DEF Launch, Pending, InTransfer
    <3>. QED  BY <1>8, <3>1, <3>2
  <2>3. \A q \in Procs \ {p} : (Pending(q)' <=> Pending(q))
    BY <2>1, PendingStable
  <2>4. ASSUME NEW q \in Procs
        PROVE  /\ pc'[q] = "user" <=> pc[q] = "user"
               /\ (Pending(q)' <=> Pending(q))
    BY <2>1, <2>2, <2>3
  <2>. QED  BY <1>1, <2>1, <2>4
<1>9. ASSUME NEW p \in Procs, Release(p) PROVE UNCHANGED Disk!vars
  <2>1. /\ pc[p] = "release" /\ pc'[p] = "hold" /\ boot = "up"
        /\ \A q \in Procs \ {p} : pc'[q] = pc[q]
        /\ UNCHANGED <<boot, req, tracker, disk>>
    BY <1>0, <1>9, Running DEF Release
  <2>2. \A j \in Bufs : bcache'[j].data = bcache[j].data
                        /\ bcache'[j].blockno = bcache[j].blockno
    BY <1>0, <1>9 DEF Release, Contents
  <2>3. \A q \in Procs : /\ pc'[q] = "user" <=> pc[q] = "user"
                         /\ (Pending(q)' <=> Pending(q))
    BY <2>1 DEF Pending, InTransfer, Complete
  <2>. QED  BY <1>1, <2>1, <2>2, <2>3
<1>10. CASE UNCHANGED vars
  <2>1. \A q \in Procs : CallOf(q)' = CallOf(q)
    BY <1>10 DEF vars, CallOf, Served, NComplete, Blockno
  <2>2. Orphans' = Orphans
    BY <1>10 DEF vars, Orphans
  <2>. QED  BY <1>10, <2>1, <2>2, Stutters DEF vars
\* A kill leaves the writes that the device still knows of.
<1>11. CASE KillFesvr
  <2>1. \A q \in Procs : CallOf(q)' = Disk!Idle
    BY <1>11 DEF KillFesvr, CallOf, Disk!Idle
  <2>2. ASSUME NEW b \in Orphans'
        PROVE  b \in Orphans \/ \E p \in Procs : CallOf(p).st = "write" /\ b = CallOf(p).block
    <3>1. PICK t \in Tags : /\ b \in Stored /\ tracker[t].st = "busy" /\ tracker[t].req.write
                            /\ tracker[t].req.offset = Offset(b)
      BY <1>11 DEF KillFesvr, Orphans
    <3>2. CASE boot # "up"
      BY <3>1, <3>2 DEF Orphans
    <3>3. CASE boot = "up"
      <4>0. Inside(t)
        BY <3>1, StoredSectors DEF Inside
      <4>1. PICK p \in Procs :
              /\ InTransfer(p) /\ tracker[t].req = Request(p)
              /\ \A u \in Tags \ {t} : tracker[u].st = "free" \/ ~Inside(u)
        BY <3>1, <3>3, <4>0 DEF Owned, DmaOwned, InTransfer
      <4>2. Pending(p) /\ pc[p] # "user" /\ Blockno(p) \in Blocks
        BY <3>1, <4>1 DEF InTransfer, Pending, Complete, BaseInv, Buffers, Issued
      <4>3. req[p].write /\ Offset(b) = Offset(Blockno(p))
        BY <3>1, <4>1 DEF Request
      <4>4. b = Blockno(p)
        BY <3>1, <4>2, <4>3, StoredSectors
      <4>5. CallOf(p) = [st |-> "write", block |-> Blockno(p), data |-> bcache[req[p].buf].data]
        BY <4>2, <4>3, CallsAre DEF Call
      <4>. QED  BY <4>4, <4>5
    <3>. QED  BY <3>2, <3>3
  <2>3. UNCHANGED disk
    BY <1>11 DEF KillFesvr
  <2>4. Disk!Crash
    BY <2>1, <2>2, <2>3 DEF Disk!Crash
  <2>. QED  BY <2>4 DEF Disk!Next
\* The device serves what a dead kernel asked for.
<1>12. ASSUME NEW t \in Tags, Serve(t), boot # "up" PROVE [Disk!Next]_(Disk!vars)
  <2>1. /\ UNCHANGED <<boot, pc>> /\ tracker[t].st = "busy" /\ tracker'[t].st = "done"
        /\ \A u \in Tags : tracker[u].st = "busy" /\ Inside(u) => u = t
        /\ \A u \in Tags \ {t} : tracker'[u] = tracker[u]
    BY <1>0, <1>12 DEF Serve, Owned
  <2>2. \A q \in Procs : CallOf(q)' = CallOf(q)
    BY <1>12, <2>1 DEF CallOf, BaseInv, Buffers
  <2>3. PICK c \in Stored : tracker[t].req.offset = Offset(c)
    <3>1. PICK c \in Blocks : tracker[t].req.offset = Offset(c)
      BY <2>1 DEF BaseInv, Issued
    <3>. QED  BY <1>12, <3>1, StoredSectors DEF Serve, Inside
  <2>3a. \A b \in Stored, u \in Tags :
           tracker[u].st = "busy" /\ tracker[u].req.offset = Offset(b) => u = t
    BY <2>1, StoredSectors DEF Inside
  <2>4. Orphans' = {}
    BY <2>1, <2>3a DEF Orphans
  <2>5. CASE ~tracker[t].req.write
    <3>1. Orphans = {}
      BY <2>1, <2>3a, <2>5 DEF Orphans
    <3>2. UNCHANGED disk
      BY <1>12, <2>5 DEF Serve
    <3>. QED  BY <2>2, <2>4, <3>1, <3>2, Stutters
  <2>6. CASE tracker[t].req.write
    <3>1. Orphans = {c}
      <4>1. c \in Orphans
        BY <1>12, <2>1, <2>3, <2>6 DEF Orphans
      <4>2. \A b \in Orphans : b = c
        BY <2>1, <2>3, <2>3a, StoredSectors DEF Orphans
      <4>. QED  BY <4>1, <4>2
    <3>2. PICK d \in Data : disk' = [disk EXCEPT ![Offset(c)] = d]
      BY <1>0, <1>12, <2>3, <2>6 DEF Serve, Contents
    <3>3. [b \in Stored |-> disk'[Offset(b)]]
            = [[b \in Stored |-> disk[Offset(b)]] EXCEPT ![c] = d]
      <4>1. disk'[Offset(c)] = d /\ \A x \in Offsets \ {Offset(c)} : disk'[x] = disk[x]
        BY <1>0, <2>3, <3>2, StoredSectors
      <4>2. \A b \in Stored : disk'[Offset(b)] = IF b = c THEN d ELSE disk[Offset(b)]
        BY <4>1, StoredSectors
      <4>. QED  BY <4>2
    <3>4. Disk!Damage(c)
      BY <2>2, <2>4, <3>1, <3>3 DEF Disk!Damage
    <3>. QED  BY <3>4 DEF Disk!Next
  <2>. QED  BY <2>5, <2>6
\* The device serves the holder.
<1>13. ASSUME NEW t \in Tags, Serve(t), boot = "up" PROVE Disk!Next
  <2>1. PICK p \in Procs :
           /\ InTransfer(p) /\ ~Complete /\ Complete'
           /\ Blockno(p) \in Stored /\ req[p].buf \in Bufs
           /\ UNCHANGED <<boot, pc, req, kills, reg, lock>>
           /\ \/ /\ req[p].write
                 /\ disk' = [disk EXCEPT ![Offset(Blockno(p))] = bcache[req[p].buf].data]
                 /\ bcache' = bcache
              \/ /\ ~req[p].write /\ disk' = disk
                 /\ bcache' = [bcache EXCEPT ![req[p].buf].data =
                                 disk[Offset(Blockno(p))]]
    BY <1>13, ServeHolder
  <2>. DEFINE i == req[p].buf
              c == Blockno(p)
              d == bcache[i].data
              e == disk[Offset(c)]
  <2>2. /\ i \in Bufs /\ c \in Stored /\ c \in Blocks /\ Offset(c) \in Offsets
        /\ pc[p] \in Holding /\ pc[p] # "user" /\ pc'[p] = pc[p] /\ req' = req
        /\ ~Pending(p)' /\ Pending(p)
    BY <2>1, StoredSectors DEF InTransfer, Pending, Holding, Labels
  <2>3. \A q \in Procs \ {p} : pc'[q] = pc[q] /\ (Pending(q)' <=> Pending(q))
    BY <2>1, <2>2, PendingStable
  <2>4. Orphans = {} /\ Orphans' = {}
    BY <1>13, <2>1, NoOrphans, NoOrphansThen
  <2>5. /\ \A j \in Bufs \ {i} : bcache'[j] = bcache[j]
        /\ bcache'[i].blockno = c
        /\ bcache'[i].data = IF req[p].write THEN d ELSE e
    <3>1. CASE req[p].write /\ bcache' = bcache
      BY <3>1 DEF Blockno
    <3>2. CASE ~req[p].write /\ bcache' = [bcache EXCEPT ![i].data = e]
      BY <1>0, <2>2, <3>2 DEF Contents, Blockno
    <3>. QED  BY <2>1, <3>1, <3>2
  <2>6. ASSUME NEW q \in Procs \ {p} PROVE CallOf(q)' = CallOf(q)
    <3>1. pc[q] # "user" => req[q].buf \in Bufs \ {i}
      BY <2>2, Alone, Held
    <3>. QED  BY <2>2, <2>3, <2>5, <3>1, CallStays
  <2>7. Blockno(p)' = c
    BY <2>2, <2>5 DEF Blockno
  <2>. HIDE DEF c, d, e
  <2>8. CASE req[p].write /\ disk' = [disk EXCEPT ![Offset(c)] = d]
    <3>1. CallOf(p) = [st |-> "write", block |-> c, data |-> d]
      BY <2>2, <2>8, CallsAre DEF Call, c, d
    <3>2. CallOf(p)' = [st |-> "done", block |-> c, data |-> d]
      BY <2>2, <2>5, <2>7, <2>8, CallsAre DEF Call
    <3>3. [CallOf(p) EXCEPT !.st = "done"] = [st |-> "done", block |-> c, data |-> d]
      BY <3>1
    <3>4. Disk!Set(p, [CallOf(p) EXCEPT !.st = "done"])
      BY <2>6, <3>2, <3>3, Sets
    <3>5. [b \in Stored |-> disk'[Offset(b)]]
            = [[b \in Stored |-> disk[Offset(b)]] EXCEPT ![c] = d]
      <4>1. disk'[Offset(c)] = d /\ \A x \in Offsets \ {Offset(c)} : disk'[x] = disk[x]
        BY <1>0, <2>2, <2>8
      <4>2. \A b \in Stored : disk'[Offset(b)] = IF b = c THEN d ELSE disk[Offset(b)]
        BY <2>2, <4>1, StoredSectors
      <4>. QED  BY <4>2
    <3>6. Disk!EffectWrite(p)
      <4>. DEFINE a == [q \in Procs |-> CallOf(q)][p]
      <4>1. a = CallOf(p)
        OBVIOUS
      <4>. HIDE DEF a
      <4>2. a.st = "write" /\ a.block = c /\ a.data = d
        BY <3>1, <4>1
      <4>3. Disk!Set(p, [a EXCEPT !.st = "done"])
        BY <3>4, <4>1
      <4>4. /\ a.st = "write" /\ a.block \in Stored
            /\ [b \in Stored |-> disk[Offset(b)]]'
                 = [[b \in Stored |-> disk[Offset(b)]] EXCEPT ![a.block] = a.data]
            /\ Disk!Set(p, [a EXCEPT !.st = "done"])
            /\ UNCHANGED Orphans
        BY <2>2, <2>4, <3>5, <4>2, <4>3
      <4>. QED  BY <4>4 DEF Disk!EffectWrite, a
    <3>. QED  BY <3>6 DEF Disk!Next
  <2>9. CASE ~req[p].write /\ disk' = disk
    <3>1. CallOf(p) = [st |-> "read", block |-> c]
      BY <2>2, <2>9, CallsAre DEF Call, c
    <3>2. CallOf(p)' = [st |-> "done", block |-> c, data |-> e]
      BY <2>2, <2>5, <2>7, <2>9, CallsAre DEF Call
    <3>3. Disk!Set(p, [st |-> "done", block |-> c, data |-> e])
      BY <2>6, <3>2, Sets
    <3>4. Disk!EffectRead(p)
      BY <2>2, <2>4, <2>9, <3>1, <3>3 DEF Disk!EffectRead, e
    <3>. QED  BY <3>4 DEF Disk!Next
  <2>. QED  BY <2>1, <2>8, <2>9 DEF c, d
<1>. QED
  BY <1>2, <1>3, <1>4, <1>5, <1>6, <1>7, <1>8, <1>9, <1>10, <1>11, <1>12, <1>13
     DEF Next, Step, Spin

\* Cache, driver and device implement the block store of DiskService, for every
\* number of processes, buffers, trackers and kills, when the requests in flight
\* at a kill are done before the next boot drains and no sector number wraps.
THEOREM ImplementsTheStore == ASSUME Settled, NoAlias PROVE Spec => DiskImplemented
<1>1. StoreInv /\ StoreInv' /\ [Next]_vars => [Disk!Next]_(Disk!vars)
  BY DiskStep
<1>2. Init => Disk!Init
  BY DiskInit
<1>. QED  BY <1>1, <1>2, StoreInvariant, PTL DEF Spec, Disk!Spec, DiskImplemented
=============================================================================
