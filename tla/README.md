# A verification project for the xv6-on-Rocket port (PYNQ-Z1)

The repository turns a PYNQ-Z1 board into an xv6 machine: a first-stage boot loader
brings the Zynq up, Linux on its ARM cores runs the host program `fesvr-zynq`, and
xv6 runs on a Rocket core in the programmable logic, with a console and a disk that
are both served by that host program. This directory holds TLA+ specifications of
the parts with logic of their own, configurations that check them with TLC, and
proofs checked by TLAPS.

## 1. Inventory

| component | state it keeps | operations | talks to | what is hard |
|---|---|---|---|---|
| HTIF console driver (`src/xv6/htif.c`) | `tohost`, `fromhost`, `read_pending`, `htif_tx_lock` | `htif_send`, `htif_getc`, `uartwrite`, `uartputc_sync`, `uartintr` | fesvr through two words of memory; console.c, printk.c, the tick and the idle loop call it | lock-free and re-entrant: a tick may interrupt `htif_send` half-way and send commands itself; the host works concurrently |
| block device driver (`src/xv6/blkdev.c`, `bio.c` and `buf.h` in the patch) | `blkdev_lock`, `blkdev_nsectors`, the cached buffers; the device's registers and trackers | `blkdev_init`, `blkdev_rw` (`blkdev_xfer`), `bread`, `bwrite` | testchipip's device, which outlives the host program; the file system | any completion is taken for one's own; a killed host leaves requests behind; DMA that loses the tail of a misaligned buffer without an error |
| machine-mode traps (`kernelvec.S`, `start.c`, `trap.c` in `src/xv6/0001-xv6-rocket-port.patch`) | `mscratch`, `timer_scratch`, CLINT, trap CSRs | `timervec`, `reflect`, `timerinit`, `devintr`'s new branch | the CLINT; the supervisor trap code | interrupts nobody can mask; a tick during the handling of a tick; late ticks; traps that cannot be delegated |
| first-stage boot loader (`src/fsbl/main.c`) | REBOOT_STATUS, MULTIBOOT, SLCR lock, watchdog (survive or stop at resets); globals | `main`, `FsblFallback`, `FsblHandoff`, `OutputStatus`, exception handlers, `NextValidImageCheck`, `CheckWDTReset` | boot ROM, devcfg, flash drivers, hooks | every step can fail, be interrupted by an exception or a watchdog reset; recursion on failure; writes lost to a lock; a status on a UART that is disabled; exceptions in the short stretches where a lock, a fuse and the handlers are ahead of the call that goes with them; flash reads whose failure nobody sees |
| serial listener (`src/tools/serial-listen.py`) | the set `watched`, one thread per node | scanner, `watch` | udev, the tty driver | nodes vanish and return, under the same or another name, between any two steps; a dead descriptor may raise or say nothing |
| kernel sender (`src/tools/send-kernel.py`) | none between runs; `/root/k.gz`, `/root/k.new` and the destination on the board | preflight, transfer, verification, installation | a shell behind an echoing line without flow control | lost bytes, which can make another command of a command; sleeps that are too short, answers taken for others, a run killed half-way |
| memory routines (patch: `string.c`; `memcpy_rom`, `strcpy_rom` in `src/fsbl/main.c`) | memory | `memset`, `memmove`, the boot loader's copies | everything | words only where aligned (a misaligned access ends the kernel), overlaps, heads and tails |
| bare-metal test (`src/riscv-test/hello.c`, `crt.S`) | `tohost`, `fromhost`, `syscall_buf` | `_start`, `htif_syscall`, `htif_exit` | fesvr, through memory | stores that the host may see out of order; an answer of one call taken for the next call's |
| PL probe (`src/tools/pl-probe.c`) | none | reads ten registers and gives a verdict | the adapter's registers, which fesvr uses at the same time | a read that pops a FIFO takes a word away from fesvr |
| xv6 allocator and page tables (patch: `kalloc.c`, `vm.c`) | free list | `kinit`, `kfree`, `kvmmake` | the rest of xv6 | not modelled, see 6 |
| board files, RTL wrapper, build scripts, toolchain patches, `serial-drive.py`, `stack_init_override.c` | none of their own | register tables, recipes, I/O | | not modelled, see 6 |

`PROJECT.json` lists the hazards of this code, each at its line with the properties
that would catch it.

## 2. Modules

| module | what it is |
|---|---|
| `ConsoleService` | what the console promises: linearizable character writes, a FIFO of keys |
| `HtifConsole` | htif.c on one hart with tick, scheduler and host; implements `ConsoleService` |
| `MCHtifConsole` | TLC instance (symmetry) |
| `HtifConsole_proofs` | typing, exclusion in htif_send, the console's reads and the refinement, proved |
| `DiskService` | what bread, bwrite and the driver promise: a linearizable block store, and what a crash may damage |
| `BlockDevice` | blkdev.c below bread and bwrite, with the device, the host and kills of the host; implements `DiskService` |
| `BlockDevice_proofs` | the lock, the cache and the trackers, and the refinement, proved |
| `MachineTrap`, `MCMachineTrap` | timervec, reflect and devintr on one hart |
| `MachineTrap_proofs` | what the handler keeps and what software sees of it, proved |
| `Fsbl` | main.c of the boot loader over the boots of a board |
| `Fsbl_proofs` | watchdog, mark, SLCR lock, fuse and transmitter along every path, and the bound on the search, proved |
| `HtifSyscall` | hello.c and crt.S with the hart's memory and the host that serves them |
| `PlProbe` | pl-probe.c |
| `ProbedTest` | both on one adapter: `HtifSyscall` and an instance of `PlProbe` share the FIFO `tsi_out` |
| `ProbedTest_proofs` | handshake, terminal and verdict, proved |
| `SerialListen` | serial-listen.py across power cycles |
| `SerialListen_proofs` | the set of watched names and its threads, proved |
| `SendKernel` | send-kernel.py with the line, the board's shell and kills of the script |
| `SendKernel_proofs` | what is on the line and on the board at each step, proved |
| `MemoryRoutines`, `MCMemoryRoutines` | memset, memmove, memcpy_rom, strcpy_rom, loop by loop |
| `MemoryRoutines_proofs` | what each of them leaves in memory, proved |

### HtifConsole

Each load and store of the three globals is a step, named after its place:
`SendWait`, `SendStore`, `SendDone` (htif_send), `GetcLoad`, `GetcClear`,
`GetcClearPending`, `GetcCheck`, `GetcSetPending` (htif_getc), `Consoleintr` (the
loop of uartintr). `Uartwrite`, `Printk`, `Panic` begin an output; `NextChar` and
`EndOutput` are its loop. `Tick` pushes the handler's context on the hart wherever
interrupts are enabled and `TickReturn` may switch to another process, as
kerneltrap's yield does; `IdlePoll` is the scheduler's poll. The host program
(external: fesvr's loop of poll, acknowledge, handle, tick, reply) is
`HostPoll`..`HostReply`, and any of its steps may fall between any two of the hart's.

The callers are upstream xv6 and not in the repository. What is used of them is which
locks they hold, because `acquire` disables interrupts: uartwrite and normal printk
run with interrupts off. After a panic has begun printk takes no lock, so a process
may be inside `htif_send` with interrupts on; `Unlocked` names the processes that may.

A `char` is a model value; the 0x100 mark of a reply is the field `mark`, because
htif_getc tests it.

### BlockDevice

`boot` is "init", "drain" or "up"; a process locks a buffer in `Bread`, may store to it
(`Bwrite`) and lets go of it (`Brelse`). A transfer is `Check`, `Acquire`,
`WaitTracker`, four `StoreRegister`, `Launch`, `WaitComplete`, `Pop`, `Release`. The
trackers are "free", "busy" or "done"; `Pop` frees some done tracker, not one's own,
because the code throws the tag away. `KillFesvr` restarts the kernel and keeps
registers, trackers and disk. With `Settled`, requests in flight at a kill complete
before the next kernel drains; without, they may complete at any time.

`bget`, `brelse` and the fields of struct buf before `data` are upstream's and external;
of them it matters that a buffer is locked by one process and that a block has one
buffer. Addresses are bytes: `DataAddr` lays the buffers out as the compiler does with
`aligned(64)`, and a misaligned DMA store leaves `Torn` in the buffer.

The arithmetic is uint32, modulo `WordSize`: `Offset` and the sum in `OutOfRange` wrap,
and with `NSectors` = 0 (no `+blkdev` file) nothing is checked. So a request outside the
backing store can be issued. The host program's answer to it is not in the repository; it
is taken never to be served (`Serve` wants `Inside`), which leaves its process waiting in
blkdev_xfer with the lock (`Spin`) and the tracker busy, over kills too. `Wedged` is
either: such a process, or all trackers used up by such requests of killed runs.

`Disk == INSTANCE DiskService` is the refinement. A call takes effect when the device
has served it, and what a process holds is its buffer; `orphans` are the writes that the
trackers still know of when the kernel that issued them is gone.

### MachineTrap

Words are sets of bits, so the masks and shifts of `reflect` are what the model
computes with. `snap` remembers what software could see when the trap was taken; it
is the yardstick of `HandlerTransparent`. Supervisor software is the least that
surrounds the handler: system calls, faults, interrupts on and off, `devintr`.

### Fsbl

One step per call of `main`, `FsblFallback` and `FsblHandoff` that changes state, so that
an exception or the watchdog may come between any two of them. Three pairs of calls have
a window between them (`Windows`), and `struck` remembers an exception there: "uart",
between the enabling of exceptions (`RegisterHandlers`) and the store to UART0
(`UartEnable`); "aes", between the read of the fuse (`ReadControl`) and the watchdog's stop
(`StopForAes`); "relock", between ps7_post_config, which locks the SLCR (`PostConfig`), and
SlcrUnlock (`PostUnlock`). What goes wrong there is the first remark of 3. The
registers that survive a reset are variables of their own; the globals are the record
`g`, zeroed by the boot ROM. Writes to SLCR registers do nothing while it is locked.
A slot of the flash has no header, a bad checksum, an image that does not load, or
one that does. A watchdog reset, an exception (through ErrorLockdown into
FsblFallback), a handoff that returns and a failed read of a header may come at any
step, `MaxFaults` times. `depth` counts the nested calls of FsblFallback.

`SearchBegin` and `ScanSlot` are NextValidImageCheck, one slot per step, with its local
`MultiBootReg`, which an exception in the middle of the search loses. A failed read
(`HeaderPasses`) leaves the decision to stale locals, so either outcome may follow.
`tx` says whether UART0's transmitter is enabled: `OutputStatus`, on every path that
reports, ends in "unsent" when it is not, which ps7_init may leave so and `UartEnable`,
the store that main.c adds for this board, puts right. `GiveUp` is ClearFSBLIn at each of
the four places where FsblFallback gives up, before its hook.

Taken from outside `src/`: REBOOT_STATUS, MULTIBOOT and the SLCR behave as main.c's
comments say; `FsblHookFallback` does not return; LoadBootImage either returns an
address or falls back; an application that returns has left the devices as they were;
ps7_init and ps7_post_config leave the SLCR locked. Exceptions before the handlers are
registered, inside the hooks or in the application are not main.c's. When the software
reset is lost to the lock, FsblFallback returns to whom it was called by, an interrupted
instruction perhaps: the boot is over as far as main.c is concerned, in "noreset".

### HtifSyscall, PlProbe, ProbedTest

The program is `ZeroBss` (crt.S), `Main`, `Fill`, `Fence`, `StoreTohost`,
`WaitFromhost`, `ClearFromhost`, `Exit`. A store goes to `stores` and becomes visible by
`Visible`, in any order but for a fence and for stores to one place. Four of the eight
words of the request are always zero; one stands for them. `fault` is the datapath
error that main looks for. The host (external) polls tohost, acknowledges, fetches the
request word by word, prints, writes the buffer back and answers when fromhost is 0.
It reads the target's memory through TSI: a request, and a pop of the answer from
`tsi_out`.

`PlProbe` reads the registers of its table one by one. In `ProbedTest` its steps fall
anywhere between the others'; it may stop anywhere, because nobody waits for it.

### SerialListen

`main` is the scanner (`Glob`, `Adopt`, `Rescan`, `Join`); each thread goes through
`Open`, `Setup` (open_ro's tcgetattr and tcsetattr), `Read`, `Close`. A node is its
incarnation number, so a descriptor of an earlier incarnation is told from the node
that now has the name. The loop of `watch` ends at the deadline (`Read`), or when the read
or the log raises an OSError (`ReadRaises`), which a dead descriptor may do or not: an
empty read and a select that never reports keep the thread in its loop, and its name in
the set.

### SendKernel

The script's steps are `Interrupt`, `Probe`, `Preflight`, `Prepare`, `Base64`,
`SendLine`, `Eof`, `Drain`, `Check`, `Compare`, `Install`; `Restart` starts it again,
after its end or a kill, for another file, once the board has read its line. The line
holds what the board has not read; each write arrives whole, or loses bytes (`lost`, at
most `MaxLost` times). A write that loses bytes may vanish, arrive damaged
(`whole` is FALSE), or lose its newline, and the next one then joins it and is damaged by
that (`torn`). `hurt` says that the last write did not arrive whole. The board
(external: sh, base64, xv6's shell) reads a line when it gets to it, so an answer may
come after the script's sleep. What the script takes from an answer is two strings,
"LINUX-" and an md5; `unread` is the set of those that have arrived. A run is `clean`
when nothing was lost and every answer was in time.

What is left of a damaged line may be a command still, and does some of what the whole one
does, or the like of it to another file: `HurtProbe`, `HurtPrepare`, `HurtBase64`,
`HurtCheck`, `HurtMv`, `HurtData` and `Base64Hurt` are the outcomes, for each line that the
script sends. A mv that has lost a byte of its destination moves the file to another name;
one that has lost its first operand's may take the old file away; "stty -echo" may have
become "stty echo"; `Stray` is a base64 with another output, or an md5sum without its
file, which reads the terminal until ^D. Two limits are set: no damaged command but the mv,
which alone has it in its text, names the destination, and loss makes no line whole that
was not sent. `gunzip` gives a file only for the whole of its lines, and md5 tells files
apart.

### MemoryRoutines

`fn` is the routine, chosen with its arguments in `Init`; `pc` is the loop. A step is
one iteration, so the source is read after what the iterations before it have stored.
Words of eight bytes go to "trapped" when misaligned. Sums of `uint` do not wrap: the
memory is small against 2^32.

## 3. Runs

| run | bounds | result |
|---|---|---|
| `console_safe` | two processes, two characters, two calls of up to two characters, two keys, one unlocked process | `TypeOK`, `OneReadOutstanding`, `CommandsSurvive`, `BufferUnbroken` hold; the driver implements `ConsoleService` |
| `console_live` | two calls of one character, two keys, fairness | every write returns, every key is received |
| `blkdev` | two processes, two buffers, two trackers, two whole blocks, one that is stored half and one whose end wraps to 0, two kills, fairness | `TypeOK` and `DmaSafe` (`DmaOwned`, `RequestsInRange`) hold; every call returns or panics, or a request outside the store is waited for; the driver implements `DiskService` |
| `blkdev_late` | a request may complete after the drain | **violated**: its completion is taken for the new kernel's own |
| `timer_trap` | interval 2, handler time 1, mtime up to 7, three exceptions, fairness | all five properties hold |
| `fsbl` | seven boot modes, two silicon versions, fuse or not, every flash of three slots, two faults, fairness | all nine properties hold, but for the three windows they name |
| `hello` | a sound datapath and each of two wrong ones, a live and a dead PL, a probe, fairness | all four properties hold |
| `listen` | two names, three incarnations, a dead descriptor that raises or not | all three properties hold |
| `listen_lost_name` | one name, two incarnations | **violated**: the name is never adopted again |
| `send` | three runs, files of three lines, two losses, each of any outcome | all three properties hold |
| `send_xv6` | one run, xv6 running, the ^C lost | **violated**: the preflight passes |
| `memory` | 32 bytes; every source, destination and length; a negative and a large fill | all five properties hold |

Where the type invariant and other invariants of one module say one thing together, the
runs check their conjunction: `DmaSafe`, `TrapInv`, `Handshake`, `WatchInv`, `BoardInv`.
`TransferDone`, that a transfer which returned has happened, follows from `DiskService`
in the run `blkdev`, and is what `blkdev_late` refutes.

Why the bounds are enough. The console has one lock, one mailbox each way and one
handler: two threads and the handler give every pair of parties, and two characters tell
order and mixing apart. The driver of the disk serializes on one lock, so two processes
and two trackers give every overlap of a transfer with a leftover; one more kill makes a
leftover of a leftover. Two buffers are as few as two processes need, so every third
block recycles one. Block 2 is stored only half and is refused; block 7 of 16 sector
numbers ends at 16, which is 0 and passes the check. The run was also made without a
backing store (`NSectors = 0`) and holds, and with blocks 8 and 15, whose product wraps:
all but `DiskImplemented` holds, since block 8 is then read and written as block 0
(`NoAlias` in 5). The tick's interval of 2
is the smallest that leaves room for a tick to become due inside the handler. Three
slots are an image that fails and two for the search to find; MULTIBOOT's field is wide
enough not to wrap within the flash and the faults (8 slots for 3 + 2, on the board 8192
for 512); on a flash as large as the field's range the search would not end
(`FsblAssumption`). `MaxDepth` is one more than `SearchBounded` allows on silicon 2.0;
on silicon 1.0, where MULTIBOOT is not incremented and the search finds the failed image
again, the recursion has no bound and `MaxDepth` cuts it. A name, its re-use and another
name are what the listener can tell apart. Three lines of a file are a first, a middle
and a last one to lose, and the third run finds what two runs left. Thirty-two bytes
hold a head, words and a tail in every phase, and every overlap; what the memory
routines do is proved for every size besides.

Deadlock is not checked where the system really stops: the boot loader ends, the
listener and the sender are done, a memory routine returns.

### Findings

Each is a run that TLC finds violated; `PROJECT.json` quotes the lines.

1. `blkdev_late`: the drain of blkdev_init cannot see a request that has not finished.
2. `listen_lost_name`: the listener loses a name when the node vanishes inside
   `open_ro`, whose `termios.error` nobody catches.
3. `send_xv6`: the preflight of send-kernel.py accepts the echo of its own probe.

Remarks that are not runs:

- The boot loader's three windows. Each property that names one (`"relock" \notin struck`
  and the like) is violated when it is stated without that exception. An exception between ps7_post_config and
  SlcrUnlock (main.c:748-752) reaches FsblFallback with the SLCR locked: the mark stays set
  in the hook (`HookClean`) or, when the search finds an image without a bitstream, at the
  handoff (`HandoffClean`), and the software reset does not happen (`FallbackResets`), so
  ErrorLockdown returns, of which main.c:858 says "This function does not return, the PS
  block is reset". Between the read of the fuse and the stop of the watchdog (359-371) an
  expiry resets a board which is "not allowed to do any system resets", and an exception
  gives up with the watchdog running (`AesNoReset`). Between Xil_ExceptionEnable and the
  store to UART0 (994, 289) an exception waits for ever for a transmitter that is off
  (`StatusSent`).
- htif_send is safe with one sender that may be interrupted (checked, and proved under the
  hypothesis `AtMostOneUnlocked`), not with two, which a panic makes possible: both find
  tohost empty, and the second store costs a character of the panic's output.
- The comment of `CheckWDTReset` in main.c says that after a watchdog reset of an FSBL run
  it needs to fall back; the function reports the reset and main goes on.
- The listener's docstring (21-25) and docs/JTAG-DEBUGGING.md (151-156) say that a listener
  never notices a dead descriptor; the comment at line 88 says that the read "raises once
  the node is gone". The model allows both. When it does not raise, the rescan finds the
  node under any other name, but not under the old one: `Haunted`, the exception of
  `NodeAdopted`, until the deadline.
- send-kernel.py returns 0 without looking at what its mv did: a mv that loses bytes may
  install nothing, or to another name. `SuccessVerified` says what a result of 0 means when
  the mv arrives whole (`~hurt`), and no more is true.
- blkdev_rw does not check a request when there is no backing store, and the uint32 sum of
  its check wraps to 0 for the last block number: `RequestsInRange` names both.

## 4. Fairness

- `HtifConsole`: the host loops for ever. Code with interrupts disabled runs on
  (weak). A process that a tick may interrupt or deschedule is strongly fair: the
  handler is shorter than the tick's period and the scheduler is round-robin. A
  pending tick is taken as soon as interrupts are enabled (strong, because spinlocks
  keep disabling them).
- `HtifSyscall`: the hart executes, a store becomes visible in the end, the host loops
  (weak). The probe has no fairness: it may never run or stop in the middle.
- `MachineTrap`: the hart executes the handler and the supervisor's trap code (weak); the
  kernel leaves its critical sections (weak, `EnableInterrupts`: release, the intr_on of
  the scheduler's loop, or the return to the user); an interrupt that is enabled again
  and again is taken (strong; the hardware takes it before the next instruction). Time
  need not pass, and `MaxTime` bounds the ticks, so `TickServed` is about each tick and
  the ticks that arrive on top of it, not about a rate.
- `BlockDevice`: the kernel and the host run on (weak); `Acquire` is strongly fair,
  because a lock whose holder spins with interrupts disabled becomes free again and
  again; the host serves every request that is inside the store (weak). No fairness makes
  a kill happen.
- `Fsbl`: the processor executes (weak); nothing makes a fault happen or an exit return.
- `SerialListen`: the interpreter runs its threads (weak), select's timeout included;
  nothing makes a dead descriptor raise; nodes come and go freely.
- `SendKernel` and `MemoryRoutines` state safety only.

## 5. Proofs

Every safety property of a passing run is proved by TLAPS, for every value of the
constants that the modules' assumptions allow, and so are the refinements of both
abstract services. A proof has one step per action and names what the action disturbs.

`HtifConsole_proofs`: `Typing`, `BuffersAreUnbroken` and, when at most one process
prints with interrupts enabled (`AtMostOneUnlocked`), `CommandsAreNotOverwritten`,
`OneReadIsOutstanding` and `ImplementsTheConsole`. The hypothesis is what the code
relies on: uartwrite holds a lock, printk does until a panic, and two printers without
it do lose a character (the first remark of 3). The invariant has five layers:

- `TypeInv`: types, and that a character handed to consoleintr came from a marked reply.
- `ExclusionInv`: who can be inside htif_send. A thread that is not running is either
  at rest or was preempted with interrupts enabled; the handler runs masked; a
  process inside uartwrite is masked. `CommandsSurvive` alone is not inductive: it
  says nothing of who may be about to store.
- `MailInv`: the command in tohost was stored by `owner`; a sender that is past its
  test of tohost finds it empty or was itself preempted by the sender that filled it
  and waited for the acknowledgement; the host acknowledges what it holds.
- `ReadInv`: a read is in one place at a time (a sender's, tohost, the host's, a
  reply), and `read_pending` says so but in two windows, which `Windows` describes: the
  poll that is in one runs until it has left it, because uartintr is not re-entered.
- `Delivered`: every key but the last read has reached consoleintr, in order, and the
  last is in fromhost, with the host or in the hands of one poll, or has reached it too.

Under the refinement mapping a write is called with its character and returns with
`SendDone`; it takes effect when the host acknowledges it (`HostAck`), and a key is
received where `Consoleintr` takes it, which may call the write of its echo at once. The
steps of the mailbox, the lock, preemption and the host's loop stutter.

`BlockDevice_proofs`: `Typing`, `RequestsAreInRange`, under `Settled` `NoStrayTransfer`,
and under `Settled` and `NoAlias` `TransferHasHappened` and `ImplementsTheStore`, for every
backing store, none included. `BaseInv` holds at every kill: the lock has one holder, a
buffer one process, the registers are what the holder has stored so far, and a tracker
holds a transfer that some kernel asked for and that the check let through (`Admitted`: in
range, without a store, or with a sum that wraps). `Owned` says that at most one request
inside the store is being served, none during the drain, and that from then on it is the
holder's. `Cached` relates cache and disk: a block has one buffer, and a valid buffer
without a transfer or a store of its process on it, or whose transfer is done, is of a
stored block and agrees with the disk; the last needs the alignment of struct buf's data.
`Settled` is the hypothesis that requests in flight at a kill end before the next kernel
drains; the run `blkdev_late` refutes `TransferDone` without it. `NoAlias` is that the
product of blkdev.c:137 wraps for no block asked for: with it two blocks never share a
sector. The sum of line 139 may wrap.

`MachineTrap_proofs`: `TrapIsReady`, `TickIsInTheFuture`, `TickIsNotLost` and
`HandlerIsTransparent`, for every interval longer than the handler's time and every set
of exceptions. `HandlerInv` says where the interrupted registers are at each instruction
(`Registers`), how far the handler has got with what it changes (`Progress`), which of
its two paths it is on (`Paths`) and, for supervisor code, that a trap in the kernel's
trap code comes only with interrupts off (`Nesting`). At mret `Registers` and `Progress`
together are `HandlerTransparent`.

`Fsbl_proofs`: `Typing`, `HandoffIsClean`, `HookIsClean`, `FallbackDoesReset`,
`DevcfgIsReady`, `AesDoesNotReset` and `StatusIsSent` for every flash size, version,
mode and number of faults. `BootInv` says for each stretch of the boot whether the
watchdog may run, the fuse is known, the mark is set and the SLCR may be locked. The
heart of it is `MarkClear`: an SLCR that is locked after the start was locked with the
mark clear, so the writes that the lock swallows could not have mattered, unless an
exception struck in the window "relock"; the theorems say so of each of the three windows. `Reporting`
says where the transmitter is on for good, which every `OutputStatus` after ps7_init
needs; `LoadInv` adds that a slot which is loaded was found inside the flash, with the
flash initialized. `SearchIsBounded` has the hypothesis `NoWrap`: MULTIBOOT's field is
wider than the flash and the faults together (8192 slots on the chip, against the few
hundred of a boot flash). Its `DepthBound` is an accounting: each nested call of
FsblFallback is paid for by a slot that MULTIBOOT has left behind or by a fault, because
the silicon version is known wherever an image was loaded (`SiliconKnown`); a fault
that comes before it is known does not move MULTIBOOT, but is itself the payment.

`ProbedTest_proofs`: `HandshakeHolds`, `TerminalIsRight` and `ProbeIsRight`, for every
datapath fault, with the probe anywhere. `Turn` says, for each place of the program,
which of its stores may still be invisible and where the request, the acknowledgement
and the answer can be; `Fifo` what is in `tsi_out`, which is why a poll that came too
early reads 0 and no more; `Output` that the call under way is on the terminal exactly
when it has been served. A word that the probe took away leaves the host waiting in
"asked" or "polled", which breaks liveness at most.

`SerialListen_proofs`: `NamesAreWatched`. `Owners` ties set and threads together; without
the hazard of `listen_lost_name`, what a thread has opened is still there when it sets
it up (`Opened`), so no thread dies with its name in the set.

`SendKernel_proofs`: `DestinationIsWhole`, `SuccessIsVerified` and `CleanRunSucceeds`,
for every number of runs, lines of a file and losses. `Verified` says what may be on the
line or unread at each step, whole or damaged: a checksum that the script can take for its
own was made of what is in k.new now, because a run begins on a board that has read what
the earlier run sent, throws old answers away, sends one check only, which is the last
line, and a mv only after the comparison, whatever becomes of it. `InStep` is what a clean
run adds: no line is torn, and what the shell has taken and what is on the line are the two
halves of the script's own stream.

`MemoryRoutines_proofs`: `Typing`, `MemsetFills`, `MemmoveMoves`, `RomLoopsCopy` and
`NoTrap` for every size, content and argument. Results hold at the end of a call, so
the invariant `Inv` says what a loop has done so far: `Stored` is the part that is
moved or filled, `Alignment` that the loops which align end within eight bytes (memset's
has no other bound) with d aligned, and the source with it because the phases agree.
`NoClobber` is why a loop that goes up, by words too, reads nothing it has written:
memmove's own test excludes the other overlaps.

Assumptions are the named ASSUMEs of the modules (`ConsoleAssumption`, `BlockAssumption`,
`TrapAssumption`, `FsblAssumption`, `SyscallAssumption`, `ListenAssumption`,
`SendAssumption`, `MemoryAssumption`), which TLC evaluates in the runs, and the four
hypotheses named above, `AtMostOneUnlocked`, `Settled`, `NoAlias` and `NoWrap`, which the
instances of `console_safe`, `blkdev` (the middle two) and `fsbl` satisfy; nothing else.

Only model-checked: the liveness properties (`SendsReturn`, `KeysReceived`, `CallsReturn`,
`TickServed`, `BootEnds`, `NodeAdopted`, `Finishes`, `RunEnds`), because fairness and
ENABLED are out of the prover's reach; and, violated, `NodeAdopted` with `GoneInOpen` and
`PreflightAtLinux`.

## 6. What is abstracted

- Characters, blocks and images are model values; payload masking and message texts
  are left out.
- In `HtifConsole` and `BlockDevice` the stores of the hart are seen in program order.
  The two fences of blkdev.c are therefore not steps, and htif.c, which has none,
  relies on it: its whole message is the one word it stores. `HtifSyscall`, whose
  message is in memory, lets stores become visible out of order.
- A message of `HtifSyscall` is its address, with a length of its own.
- One hart: the configuration has one Rocket core.
- What the host program does with a request outside its backing file is not in the
  repository; the model never serves one. The product of blkdev.c:137 wraps in the model as
  in the code, but the run `blkdev` asks for no block whose product does.
- The boot loader is the build with all peripherals; the board's own build is the same
  with fewer boot modes. The watchdog's period (ConvertTime_WdtCounter) is not computed:
  the watchdog may expire at any step.

Not modelled: `serial-drive.py`, whose logic is the order of a list of commands and
prompts of programs that are not in the repository; `stack_init_override.c`, an empty
function; the changes to kalloc.c and vm.c, which compile a memset out and map another
device, inside functions that are not in the repository; register tables, the RTL
wrapper, build scripts and toolchain patches, which have no behaviour of their own.

## 7. Plan

1. A composition of the tick with the console: what `NoRefire` and `TickServed` give
   `KeysReceived`, whose fairness about the tick would then be a property of `MachineTrap`.
2. Proofs: shorter arguments where two components use the same step (a FIFO that loses its
   head, a record with one field changed), as lemmas.
