----------------------------- MODULE BlockDevice -----------------------------
(***************************************************************************)
(* The block device driver of src/xv6/blkdev.c: blkdev_init, blkdev_rw and *)
(* blkdev_xfer, below bread, bwrite and the buffer cache of xv6, against   *)
(* the testchipip device and the host that serves its requests (external). *)
(*                                                                         *)
(* Every access to a device register is a step.  The device is in the PL   *)
(* and outlives the host program: killing fesvr restarts the kernel and    *)
(* leaves the trackers as they are.  The device moves a block by DMA in    *)
(* bursts of 64 bytes, and a block it stores to memory misaligned loses    *)
(* its tail without an error.                                              *)
(***************************************************************************)
EXTENDS Naturals, FiniteSets

CONSTANTS
  Procs,      \* processes that read and write blocks
  NBUF,       \* buffers of the cache
  Tags,       \* trackers of the device
  Blocks,     \* block numbers asked for
  NSectors,   \* sectors of the backing store (register 0x18); 0 without one
  WordSize,   \* 2^32: block numbers and offsets are uint32
  Data,       \* contents of a block
  Zero,       \* contents of memory after the kernel is loaded
  Torn,       \* contents of a buffer whose tail was not written
  MaxKills,   \* bound on the times fesvr is killed and restarted
  Settled     \* requests in flight at a kill complete before the next boot drains

SECTORS_PER_BLOCK == 2

ASSUME BlockAssumption ==
  /\ WordSize \in Nat \ {0} /\ Blocks \subseteq 0..(WordSize - 1)
  /\ NSectors \in 0..(WordSize - 1)
  /\ NBUF \in Nat /\ Cardinality(Procs) <= NBUF /\ IsFiniteSet(Tags)
  /\ Zero \in Data /\ Torn \notin Data
  /\ MaxKills \in Nat /\ Settled \in BOOLEAN

VARIABLES
  boot,      \* "init", "drain" (blkdev_init) or "up"
  pc,        \* where each process is
  req,       \* the buffer each process has locked, and blkdev_rw's write
  lock,      \* blkdev_lock is held
  reg,       \* the request registers of the device
  tracker,   \* tracker[t]: "free", "busy" or "done", and its request
  bcache,    \* the buffers
  disk,      \* the backing file, by sector offset of a block
  kills

vars == <<boot, pc, req, lock, reg, tracker, bcache, disk, kills>>

Bufs  == 0..(NBUF - 1)
NoBuf == NBUF

\* uint32 arithmetic of blkdev_rw.
Offset(blockno) == (blockno * SECTORS_PER_BLOCK) % WordSize

\* Mutant: the end of the request is not checked.
StartOutOfRange(offset) == NSectors # 0 /\ offset > NSectors

OutOfRange(offset) ==
  NSectors # 0 /\ (offset + SECTORS_PER_BLOCK) % WordSize > NSectors

\* The blocks that the backing store has whole, and where it has one.
Whole(b) == (b + 1) * SECTORS_PER_BLOCK <= NSectors
Stored   == {b \in Blocks : Whole(b)}
Offsets  == {b * SECTORS_PER_BLOCK : b \in {c \in 0..NSectors : Whole(c)}}

\* Layout: bcache is a lock and the buffers, a buffer is its header and data,
\* which is aligned to 64 bytes, and with it the buffer and its size.
LockSize   == 24
HeaderSize == 88
BSIZE      == 1024

\* Mutant: upstream's struct buf, which is not aligned.
Unaligned(n) == n

Align64(n) == ((n + 63) \div 64) * 64

DataAddr(i) ==
  Align64(LockSize) + i * Align64(Align64(HeaderSize) + BSIZE) + Align64(HeaderSize)

Blockno(p) == bcache[req[p].buf].blockno

Request(p) == [addr   |-> DataAddr(req[p].buf),
               offset |-> Offset(Blockno(p)),
               len    |-> SECTORS_PER_BLOCK,
               write  |-> req[p].write]

NoRequest == [addr |-> 0, offset |-> 0, len |-> 0, write |-> FALSE]
Free      == [st |-> "free", req |-> NoRequest]

Inside(t) == tracker[t].req.offset \in Offsets

NAlloc    == Cardinality({t \in Tags : tracker[t].st = "free"})
NComplete == Cardinality({t \in Tags : tracker[t].st = "done"})

\* The order in which blkdev_xfer stores the request registers.
After == [addr |-> "offset", offset |-> "len", len |-> "write", write |-> "alloc"]

-----------------------------------------------------------------------------
\* What the kernel's memory holds when it starts.
Unlocked == [p \in Procs |-> [buf |-> NoBuf, write |-> FALSE]]
Bss      == [i \in Bufs |-> [dev |-> 0, blockno |-> 0, valid |-> FALSE, data |-> Zero]]

Init ==
  /\ boot = "init"
  /\ pc = [p \in Procs |-> "user"]
  /\ req = Unlocked
  /\ lock = FALSE
  /\ reg = NoRequest
  /\ tracker = [t \in Tags |-> Free]
  /\ bcache = Bss
  /\ disk \in [Offsets -> Data]
  /\ kills = 0

Goto(p, l) == pc' = [pc EXCEPT ![p] = l]

-----------------------------------------------------------------------------
(* blkdev_init: discard the completions of a previous run.                 *)

InitRead ==
  /\ boot = "init"
  /\ Settled => \A t \in Tags : tracker[t].st = "busy" => ~Inside(t)
  /\ boot' = "drain"
  /\ UNCHANGED <<pc, req, lock, reg, tracker, bcache, disk, kills>>

\* Reading `complete` pops the tag of some finished request.
DrainPop ==
  /\ boot = "drain" /\ NComplete # 0
  /\ \E t \in Tags : /\ tracker[t].st = "done"
                     /\ tracker' = [tracker EXCEPT ![t] = Free]
  /\ UNCHANGED <<boot, pc, req, lock, reg, bcache, disk, kills>>

\* Mutant: no drain.
SkipDrain ==
  /\ boot = "drain"
  /\ boot' = "up"
  /\ UNCHANGED <<pc, req, lock, reg, tracker, bcache, disk, kills>>

DrainDone ==
  /\ boot = "drain" /\ NComplete = 0
  /\ boot' = "up"
  /\ UNCHANGED <<pc, req, lock, reg, tracker, bcache, disk, kills>>

-----------------------------------------------------------------------------
(* bread, bwrite and brelse.                                               *)

Unused(i)    == \A p \in Procs : req[p].buf # i
Caches(i, b) == bcache[i].dev = 1 /\ bcache[i].blockno = b

\* bget (external): the buffer of the block, which nobody else has locked, or
\* else an unused buffer, recycled.
Bget(p, b, i) ==
  /\ Unused(i)
  /\ req' = [req EXCEPT ![p] = [buf |-> i, write |-> FALSE]]
  /\ \/ Caches(i, b) /\ bcache' = bcache
     \/ /\ \A j \in Bufs : ~Caches(j, b)
        /\ bcache' = [bcache EXCEPT ![i] = [@ EXCEPT !.dev = 1, !.blockno = b,
                                                     !.valid = FALSE]]

\* Mutant: bread returns whatever buffer it gets.
BreadAny(p, b, i) ==
  /\ boot = "up" /\ pc[p] = "user"
  /\ Bget(p, b, i)
  /\ Goto(p, "hold")
  /\ UNCHANGED <<boot, lock, reg, tracker, disk, kills>>

\* bread reads the block only into a buffer that is not valid.
Bread(p, b, i) ==
  /\ boot = "up" /\ pc[p] = "user"
  /\ Bget(p, b, i)
  /\ Goto(p, IF bcache'[i].valid THEN "hold" ELSE "check")
  /\ UNCHANGED <<boot, lock, reg, tracker, disk, kills>>

\* bwrite, after the caller has put d in the buffer.
Bwrite(p, d) ==
  /\ pc[p] = "hold"
  /\ req' = [req EXCEPT ![p].write = TRUE]
  /\ bcache' = [bcache EXCEPT ![req[p].buf].data = d]
  /\ Goto(p, "check")
  /\ UNCHANGED <<boot, lock, reg, tracker, disk, kills>>

\* brelse (external).
Brelse(p) ==
  /\ pc[p] = "hold"
  /\ req' = [req EXCEPT ![p] = Unlocked[p]]
  /\ Goto(p, "user")
  /\ UNCHANGED <<boot, lock, reg, tracker, bcache, disk, kills>>

-----------------------------------------------------------------------------
(* blkdev_rw.                                                              *)

\* The range check; panic("blkdev_rw: out of range") spins, and keeps the buffer.
Check(p) ==
  /\ pc[p] = "check"
  /\ Goto(p, IF OutOfRange(Offset(Blockno(p))) THEN "panic" ELSE "acquire")
  /\ UNCHANGED <<boot, req, lock, reg, tracker, bcache, disk, kills>>

\* Mutant: the lock is not waited for.
AcquireBusy(p) ==
  /\ pc[p] = "acquire"
  /\ lock' = TRUE
  /\ Goto(p, "nalloc")
  /\ UNCHANGED <<boot, req, reg, tracker, bcache, disk, kills>>

Acquire(p) ==
  /\ pc[p] = "acquire" /\ ~lock
  /\ lock' = TRUE
  /\ Goto(p, "nalloc")
  /\ UNCHANGED <<boot, req, reg, tracker, bcache, disk, kills>>

\* Mutant: the lock is not released.
ReleaseNothing(p) ==
  /\ pc[p] = "release"
  /\ bcache' = [bcache EXCEPT ![req[p].buf].valid = TRUE]
  /\ Goto(p, "hold")
  /\ UNCHANGED <<boot, req, lock, reg, tracker, disk, kills>>

\* And the return to bread, which sets valid, or to bwrite, where it is set.
Release(p) ==
  /\ pc[p] = "release"
  /\ lock' = FALSE
  /\ bcache' = [bcache EXCEPT ![req[p].buf].valid = TRUE]
  /\ Goto(p, "hold")
  /\ UNCHANGED <<boot, req, reg, tracker, disk, kills>>

-----------------------------------------------------------------------------
(* blkdev_xfer.                                                            *)

WaitTracker(p) ==
  /\ pc[p] = "nalloc" /\ NAlloc # 0
  /\ Goto(p, "addr")
  /\ UNCHANGED <<boot, req, lock, reg, tracker, bcache, disk, kills>>

StoreRegister(p) ==
  /\ pc[p] \in DOMAIN After
  /\ reg' = [reg EXCEPT ![pc[p]] = Request(p)[pc[p]]]
  /\ Goto(p, After[pc[p]])
  /\ UNCHANGED <<boot, req, lock, tracker, bcache, disk, kills>>

\* Reading `allocate` takes a tracker and issues the request; without a free
\* tracker nothing is issued.
Launch(p) ==
  /\ pc[p] = "alloc"
  /\ IF NAlloc = 0 THEN tracker' = tracker
     ELSE \E t \in Tags :
            /\ tracker[t].st = "free"
            /\ tracker' = [tracker EXCEPT ![t] = [st |-> "busy", req |-> reg]]
  /\ Goto(p, "ncomplete")
  /\ UNCHANGED <<boot, req, lock, reg, bcache, disk, kills>>

WaitComplete(p) ==
  /\ pc[p] = "ncomplete" /\ NComplete # 0
  /\ Goto(p, "complete")
  /\ UNCHANGED <<boot, req, lock, reg, tracker, bcache, disk, kills>>

\* A loop that goes round: of panic, and of a count that is 0.
Spin(p) ==
  /\ \/ pc[p] = "panic"
     \/ pc[p] = "nalloc" /\ NAlloc = 0
     \/ pc[p] = "ncomplete" /\ NComplete = 0
  /\ UNCHANGED vars

\* Mutant: the completion is seen and not consumed.
PopNothing(p) ==
  /\ pc[p] = "complete"
  /\ Goto(p, "release")
  /\ UNCHANGED <<boot, req, lock, reg, tracker, bcache, disk, kills>>

\* The tag is ignored: any completion is taken for the process's own.
Pop(p) ==
  /\ pc[p] = "complete"
  /\ IF NComplete = 0 THEN tracker' = tracker
     ELSE \E t \in Tags : /\ tracker[t].st = "done"
                          /\ tracker' = [tracker EXCEPT ![t] = Free]
  /\ Goto(p, "release")
  /\ UNCHANGED <<boot, req, lock, reg, bcache, disk, kills>>

-----------------------------------------------------------------------------
(* The device and the host (external).                                     *)

\* What storing new over old at addr leaves there: a burst of 64 bytes that is
\* not aligned to 64 is cut off at the next multiple.
Stores(addr, old, new) == IF addr % 64 = 0 \/ old = new THEN new ELSE Torn

\* The host serves a request and the device moves the data.  A request outside
\* the backing store is never served, and its tracker stays busy.
Serve(t) ==
  /\ tracker[t].st = "busy" /\ Inside(t)
  /\ LET r == tracker[t].req IN
       \E i \in Bufs :
         /\ DataAddr(i) = r.addr
         /\ IF r.write
            THEN /\ disk' = [disk EXCEPT ![r.offset] = bcache[i].data]
                 /\ bcache' = bcache
            ELSE /\ bcache' = [bcache EXCEPT ![i].data = Stores(r.addr, @, disk[r.offset])]
                 /\ disk' = disk
  /\ tracker' = [tracker EXCEPT ![t].st = "done"]
  /\ UNCHANGED <<boot, pc, req, lock, reg, kills>>

\* fesvr is killed and started again: it loads a new kernel, whose .bss is
\* zero; the registers and trackers of the device survive.
KillFesvr ==
  /\ kills < MaxKills
  /\ kills' = kills + 1
  /\ boot' = "init"
  /\ pc' = [p \in Procs |-> "user"]
  /\ req' = Unlocked
  /\ lock' = FALSE
  /\ bcache' = Bss
  /\ UNCHANGED <<reg, tracker, disk>>

-----------------------------------------------------------------------------
Step(p) ==
  \/ Check(p) \/ WaitTracker(p) \/ StoreRegister(p) \/ Launch(p)
  \/ WaitComplete(p) \/ Pop(p) \/ Release(p)

Boot == InitRead \/ DrainPop \/ DrainDone

Next ==
  \/ Boot \/ KillFesvr
  \/ \E p \in Procs :
       \/ \E b \in Blocks, i \in Bufs : Bread(p, b, i)
       \/ \E d \in Data : Bwrite(p, d)
       \/ Brelse(p) \/ Acquire(p) \/ Step(p) \/ Spin(p)
  \/ \E t \in Tags : Serve(t)

Spec == Init /\ [][Next]_vars

\* The kernel runs on, the host serves every request, and a spinlock that is
\* free again and again is got: its holder runs with interrupts disabled.
Fairness ==
  /\ WF_vars(Boot)
  /\ \A p \in Procs : WF_vars(Step(p)) /\ SF_vars(Acquire(p))
  /\ \A t \in Tags : WF_vars(Serve(t))

FairSpec == Spec /\ Fairness

-----------------------------------------------------------------------------
(* Properties.                                                             *)

Requests == [addr : Nat, offset : Nat, len : {0, SECTORS_PER_BLOCK}, write : BOOLEAN]

Labels == {"user", "hold", "check", "panic", "acquire", "nalloc", "addr", "offset",
           "len", "write", "alloc", "ncomplete", "complete", "release"}

\* Where a process holds blkdev_lock.
Holding == Labels \ {"user", "hold", "check", "panic", "acquire"}

\* Types of the driver, the cache, the device and the backing store; the lock
\* is held exactly while a process is in a transfer, and a process is in the
\* driver or back from it with a buffer that no other process has locked.
TypeOK ==
  /\ boot \in {"init", "drain", "up"}
  /\ pc \in [Procs -> Labels]
  /\ req \in [Procs -> [buf : Bufs \cup {NoBuf}, write : BOOLEAN]]
  /\ lock \in BOOLEAN
  /\ reg \in Requests
  /\ tracker \in [Tags -> [st : {"free", "busy", "done"}, req : Requests]]
  /\ bcache \in [Bufs -> [dev : {0, 1}, blockno : Blocks \cup {0}, valid : BOOLEAN,
                          data : Data \cup {Torn}]]
  /\ disk \in [Offsets -> Data \cup {Torn}]
  /\ kills \in 0..MaxKills
  /\ lock <=> \E p \in Procs : pc[p] \in Holding
  /\ \A p \in Procs : pc[p] = "user" <=> req[p].buf = NoBuf
  /\ \A p, q \in Procs : p # q /\ req[p].buf = req[q].buf => req[p].buf = NoBuf

\* When blkdev_xfer returns, the transfer has happened, whole: the buffer and
\* its block on the disk agree, for a read and for a write.  A completion of a
\* previous run taken for the process's own would break this, and so would a
\* buffer whose data is not aligned for the DMA ("the tail of the transfer is
\* silently never written").
TransferDone ==
  \A p \in Procs : pc[p] = "release" =>
    LET o == Offset(Blockno(p)) IN o \in Offsets /\ bcache[req[p].buf].data = disk[o]

\* Once the kernel is up, every transfer the device has done or will do is the one
\* the holder of blkdev_lock waits for: no DMA touches another buffer or block.
DmaOwned ==
  boot = "up" =>
    \A t \in Tags : tracker[t].st # "free" /\ Inside(t) =>
      \E p \in Procs : /\ pc[p] \in {"ncomplete", "complete"}
                       /\ tracker[t].req = Request(p)
                       /\ \A u \in Tags \ {t} : tracker[u].st = "free" \/ ~Inside(u)

\* Every request issued is inside the backing store and for the sectors of the
\* block asked for.  The two ways out of the range check are those of the code:
\* without a store nothing is checked, and the sum and the product are uint32.
RequestsInRange ==
  /\ \A t \in Tags : tracker[t].st # "free" =>
       LET end == tracker[t].req.offset + tracker[t].req.len
       IN  end <= NSectors \/ NSectors = 0 \/ end >= WordSize
  /\ \A p \in Procs : pc[p] \in {"ncomplete", "complete"} =>
       LET first == Blockno(p) * SECTORS_PER_BLOCK
       IN  reg.offset = first \/ first >= WordSize

\* Whatever the device may still do is what a process waits for, and inside the
\* store: the next kernel, another process and the rest of the disk are safe.
DmaSafe == DmaOwned /\ RequestsInRange

\* A process waits for a request that is not inside the store, or all trackers are
\* used up by such requests.
Wedged ==
  \/ \E q \in Procs : pc[q] = "ncomplete" /\ Offset(Blockno(q)) \notin Offsets
  \/ \A t \in Tags : tracker[t].st = "busy" /\ ~Inside(t)

\* bread and bwrite return or panic: no transfer, retry or leftover of a previous
\* run uses up the trackers or wedges the lock, but requests outside the store.
CallsReturn ==
  \A p \in Procs :
    pc[p] \notin {"user", "hold"} ~> pc[p] \in {"user", "hold", "panic"} \/ Wedged

\* The abstract state.  A transfer has taken effect when the device has served
\* it; a process back from bread or bwrite has what its buffer holds.
Served(p) ==
  \/ pc[p] \in {"release", "hold"}
  \/ pc[p] \in {"ncomplete", "complete"} /\ NComplete # 0

CallOf(p) ==
  LET b == Blockno(p)
      d == bcache[req[p].buf].data
  IN  IF pc[p] = "user" THEN [st |-> "idle"]
      ELSE IF Served(p) THEN [st |-> "done", block |-> b, data |-> d]
      ELSE IF req[p].write THEN [st |-> "write", block |-> b, data |-> d]
      ELSE [st |-> "read", block |-> b]

\* Writes that the device knows of and no kernel waits for.
Orphans ==
  {b \in Stored : boot # "up" /\ \E t \in Tags :
     /\ tracker[t].st = "busy" /\ tracker[t].req.write
     /\ tracker[t].req.offset = Offset(b)}

Disk == INSTANCE DiskService WITH
  Callers  <- Procs,
  Contents <- Data,
  call     <- [p \in Procs |-> CallOf(p)],
  store    <- [b \in Stored |-> disk[Offset(b)]],
  orphans  <- Orphans

\* Cache, driver and device implement the block store: whatever a process reads,
\* from the disk or from a buffer that was valid, is what was last written to
\* the block, each transfer takes effect once, and a kill of fesvr damages the
\* blocks then being written and nothing that a later kernel reads or writes.
DiskImplemented == Disk!Spec
=============================================================================
