-------------------------------- MODULE Fsbl --------------------------------
(***************************************************************************)
(* The first-stage boot loader of src/fsbl/main.c on one Zynq: main,       *)
(* FsblFallback, FsblHandoff, the exception handlers, the watchdog and the *)
(* search for the next image, over the boots of one board.  The boot ROM,  *)
(* the devices, the hooks of fsbl_hooks.h and LoadBootImage are external.  *)
(*                                                                         *)
(* Every call that changes state is a step of its own: an exception or the *)
(* watchdog comes between any two of them.                                 *)
(*                                                                         *)
(* The build is the one with every peripheral in the BSP (QSPI, NAND, SD,  *)
(* watchdog, DDR) and PS7_POST_CONFIG, without MMC_SUPPORT or RSA_SUPPORT. *)
(***************************************************************************)
EXTENDS Naturals

CONSTANTS
  Modes,        \* boot modes strapped, a subset of AllModes
  Versions,     \* silicon versions (XDcfg_GetPsVersion)
  FlashSlots,   \* 32 KB slots of the boot flash
  MBootSlots,   \* slots the MULTIBOOT offset field can name (13 bits)
  MaxFaults,    \* bound on the faults counted by the variable faults
  MaxDepth      \* bound on nested calls of FsblFallback

AllModes   == {"qspi", "nand", "nor", "sd", "mmc", "jtag", "illegal"}
FlashModes == {"qspi", "nand", "nor"}

SILICON_VERSION_1 == 0      \* also what the zeroed global holds

ASSUME FsblAssumption ==
  /\ Modes \subseteq AllModes
  /\ Versions \subseteq Nat
  /\ FlashSlots \in Nat \ {0} /\ MBootSlots \in Nat \ {0}
  /\ FlashSlots < MBootSlots
  /\ MaxFaults \in Nat /\ MaxDepth \in Nat

FSBL_IN_MASK   == {29, 30}
FSBL_FAIL_MASK == 28..31

\* What a slot of the flash holds: no XLNX header, one whose checksum is
\* wrong, an image that does not load, one that loads.
Images == {"none", "checksum", "broken", "good"}

VARIABLES
  hw,         \* the board: boot mode, silicon, AES fuse, images; never changes
  pc,         \* where the boot loader is
  g,          \* its globals
  addr,       \* HandoffAddress: "app", or "none" for 0
  mark,       \* REBOOT_STATUS[31:28], a set of bits
  reason,     \* REBOOT_STATUS[23:16]: the reasons of the last reset
  multiboot,  \* the MULTIBOOT register
  locked,     \* the SLCR is write protected
  wdt,        \* the watchdog is running
  tx,         \* UART0's transmitter is enabled
  MultiBootReg, \* NextValidImageCheck's local copy of multiboot
  faults,     \* exceptions, watchdog resets, illegal returns, failed reads so far
  marked,     \* history: MarkFSBLIn ran in this boot
  depth,      \* history: nested calls of FsblFallback in this boot
  struck      \* history: the windows in which an exception struck in this boot

registers == <<mark, reason, multiboot, locked, wdt>>
fixed     == <<hw, tx, MultiBootReg>>
history   == <<marked, depth, struck>>
vars      == <<pc, g, addr, registers, fixed, faults, history>>

\* Three pairs of calls leave a state between them that the code does not expect
\* to be left in: the handlers enabled and the UART not yet, the AES fuse known
\* and the watchdog not yet stopped, the SLCR locked by ps7_post_config.
Windows == {"uart", "aes", "relock"}

Bss == [Silicon_Version |-> 0, PcapAes |-> FALSE, SystemInitFlag |-> FALSE,
        BitstreamFlag |-> FALSE, devcfg |-> FALSE, FlashReadBaseAddress |-> FALSE]

Init ==
  /\ hw \in [mode : Modes, version : Versions, aes : BOOLEAN,
             image : [0..(FlashSlots - 1) -> Images]]
  /\ pc = "rom"
  /\ g = Bss /\ addr = "none"
  /\ mark = {} /\ reason = {} /\ multiboot = 0 /\ locked = TRUE /\ wdt = FALSE
  /\ tx = FALSE /\ MultiBootReg = 0
  /\ faults = 0
  /\ marked = FALSE /\ depth = 0 /\ struck = {}

-----------------------------------------------------------------------------
(* Reset and boot ROM (external).                                          *)

ImageBaseAddr(m) == m % MBootSlots

ImageCheckID(s)   == hw.image[s] # "none"
HeaderChecksum(s) == hw.image[s] # "checksum"
ValidHeader(s)    == ImageCheckID(s) /\ HeaderChecksum(s)

\* Every reset starts again in the boot ROM; REBOOT_STATUS and MULTIBOOT stay.
Reset(why) ==
  /\ pc' = "rom"
  /\ reason' = {why} /\ locked' = TRUE /\ wdt' = FALSE
  /\ marked' = FALSE /\ depth' = 0 /\ struck' = {}

\* The boot ROM runs the boot loader of the first image from MULTIBOOT on, with
\* its globals zero; without one it locks down.  It may clear the failure mark.
BootRom ==
  /\ pc = "rom"
  /\ mark' \in IF mark = FSBL_FAIL_MASK THEN {mark, {}} ELSE {mark}
  /\ g' = Bss /\ addr' = "none"
  /\ IF hw.mode \in FlashModes
     THEN \/ \E s \in 0..(FlashSlots - 1) :
               /\ s >= ImageBaseAddr(multiboot) /\ ValidHeader(s)
               /\ \A r \in ImageBaseAddr(multiboot)..(s - 1) : ~ValidHeader(r)
               /\ multiboot' = s /\ pc' = "ps7"
          \/ /\ \A s \in ImageBaseAddr(multiboot)..(FlashSlots - 1) : ~ValidHeader(s)
             /\ pc' = "lockdown" /\ multiboot' = multiboot
     ELSE pc' = "ps7" /\ multiboot' = multiboot
  /\ UNCHANGED <<fixed, reason, locked, wdt, faults, history>>

\* The watchdog expires: it is running, and it was not restarted in time.
WdtReset ==
  /\ wdt /\ faults < MaxFaults
  /\ faults' = faults + 1
  /\ Reset("SWDT")
  /\ UNCHANGED <<fixed, g, addr, mark, multiboot>>

-----------------------------------------------------------------------------
(* Writes to SLCR registers, which have no effect while it is locked.      *)

MarkFSBLIn ==
  mark' = IF locked THEN mark ELSE mark \cup FSBL_IN_MASK

\* Mutant: only the bits that MarkFSBLIn sets are cleared.
ClearInOnly ==
  mark' = IF locked THEN mark ELSE mark \ FSBL_IN_MASK

ClearFSBLIn ==
  mark' = IF locked THEN mark ELSE mark \ FSBL_FAIL_MASK

-----------------------------------------------------------------------------
(* main: initialization.                                                   *)

Others == UNCHANGED <<addr, faults, history>>
Stay   == Others /\ UNCHANGED fixed

\* OutputStatus waits for ever for the FIFO of a disabled transmitter to drain.
OutputStatus(next) == pc' = IF tx THEN next ELSE "unsent"


\* ps7_init, which may leave the transmitter disabled; its failure is reported
\* and goes to the hook with nothing else initialized.
Ps7Init ==
  /\ pc = "ps7" /\ tx' \in BOOLEAN
  /\ pc' \in {"unlock", IF tx' THEN "hook" ELSE "unsent"}
  /\ UNCHANGED <<hw, MultiBootReg, g, registers>> /\ Others

SlcrUnlock ==
  /\ pc = "unlock" /\ pc' = "handlers"
  /\ locked' = FALSE
  /\ UNCHANGED <<g, mark, reason, multiboot, wdt>> /\ Stay

\* The handlers are registered and exceptions enabled: from here on, one that
\* was pending strikes.
RegisterHandlers ==
  /\ pc = "handlers" /\ pc' = "uart"
  /\ UNCHANGED <<g, registers>> /\ Stay

\* Mutant: the transmitter is left as ps7_init left it.
UartAsItIs ==
  /\ pc = "uart" /\ pc' = "ddr"
  /\ UNCHANGED <<g, registers>> /\ Stay

\* UART0's transmitter, "explicitly forced".
UartEnable ==
  /\ pc = "uart" /\ pc' = "ddr"
  /\ tx' = TRUE
  /\ UNCHANGED <<hw, MultiBootReg, g, registers>> /\ Others

DDRInitCheck ==
  /\ pc = "ddr"
  /\ pc' = "pcap" \/ OutputStatus("hook")
  /\ UNCHANGED <<g, registers>> /\ Stay

InitPcap ==
  /\ pc = "pcap"
  /\ \/ pc' = "silicon" /\ g' = [g EXCEPT !.devcfg = TRUE]
     \/ OutputStatus("hook") /\ g' = g
  /\ UNCHANGED registers /\ Stay

GetSiliconVersion ==
  /\ pc = "silicon" /\ pc' = "wdtcheck"
  /\ g' = [g EXCEPT !.Silicon_Version = hw.version]
  /\ UNCHANGED registers /\ Stay

\* On silicon 1.0 main.c reads RESET_REASON instead, which holds the same.
GetResetReason == reason

\* A watchdog reset of a marked run is reported, and the boot goes on: from
\* silicon 2.0 on, REBOOT_STATUS is overwritten with the unshifted reason.
CheckWDTReset ==
  /\ pc = "wdtcheck" /\ pc' = "wdtinit"
  /\ IF "SWDT" \in GetResetReason /\ mark = FSBL_IN_MASK
     THEN IF g.Silicon_Version = SILICON_VERSION_1
          THEN reason' = {} /\ mark' = mark
          ELSE reason' = {} /\ mark' = {}
     ELSE UNCHANGED <<reason, mark>>
  /\ UNCHANGED <<g, multiboot, locked, wdt>> /\ Stay

InitWatchDog ==
  /\ pc = "wdtinit"
  /\ \/ pc' = "control" /\ wdt' = TRUE
     \/ OutputStatus("fallback") /\ wdt' = wdt
  /\ UNCHANGED <<g, mark, reason, multiboot, locked>> /\ Stay

\* PcapCtrlRegVal, with the AES fuse bit.
ReadControl ==
  /\ pc = "control" /\ pc' = "aes"
  /\ g' = [g EXCEPT !.PcapAes = hw.aes]
  /\ UNCHANGED registers /\ Stay

\* Mutant: the watchdog keeps running on a board with the AES fuse.
StopForNobody ==
  /\ pc = "aes" /\ pc' = "mark"
  /\ UNCHANGED <<g, registers>> /\ Stay

\* With the AES fuse the watchdog is stopped.
StopForAes ==
  /\ pc = "aes" /\ pc' = "mark"
  /\ wdt' = (wdt /\ ~g.PcapAes)
  /\ UNCHANGED <<g, mark, reason, multiboot, locked>> /\ Stay

Mark ==
  /\ pc = "mark" /\ pc' = "mode"
  /\ MarkFSBLIn /\ marked' = TRUE
  /\ UNCHANGED <<fixed, g, addr, reason, multiboot, locked, wdt, faults, depth, struck>>

\* The boot mode.  InitQspi and InitNor report nothing: a failure is only seen
\* as a FlashReadBaseAddress that was not set.
BootMode ==
  /\ pc = "mode"
  /\ CASE hw.mode \in {"qspi", "nor"} ->
            pc' = "flash" /\ \E ok \in BOOLEAN : g' = [g EXCEPT !.FlashReadBaseAddress = ok]
       [] hw.mode \in {"nand", "sd", "mmc"} ->
            \/ pc' = "flash" /\ g' = [g EXCEPT !.FlashReadBaseAddress = TRUE]
            \/ OutputStatus("fallback") /\ g' = g
       [] hw.mode = "jtag"    -> pc' \in {"postconfig", "stop"} /\ g' = g
       [] hw.mode = "illegal" -> OutputStatus("fallback") /\ g' = g
  /\ UNCHANGED registers /\ Stay

\* Mutant: the flash address is not checked.
CheckNothing ==
  /\ pc = "flash" /\ pc' = "load"
  /\ g' = [g EXCEPT !.SystemInitFlag = TRUE]
  /\ UNCHANGED registers /\ Stay

\* The flash address is checked, the watchdog restarted (it is not started).
CheckFlash ==
  /\ pc = "flash"
  /\ IF g.FlashReadBaseAddress
     THEN pc' = "load" /\ g' = [g EXCEPT !.SystemInitFlag = TRUE]
     ELSE OutputStatus("fallback") /\ g' = g
  /\ UNCHANGED registers /\ Stay

\* LoadBootImage (external): the image at MULTIBOOT, with or without a
\* bitstream and an execution address; it falls back on an image that fails.
LoadBootImage ==
  /\ pc = "load"
  /\ \/ /\ hw.mode \in FlashModes => hw.image[ImageBaseAddr(multiboot)] = "good"
        /\ addr' \in {"app", "none"}
        /\ \E b \in BOOLEAN : /\ g' = [g EXCEPT !.BitstreamFlag = b]
                              /\ pc' = IF b THEN "postconfig" ELSE "userhook"
     \/ /\ hw.mode \in FlashModes => hw.image[ImageBaseAddr(multiboot)] # "good"
        /\ pc' = "fallback" /\ UNCHANGED <<addr, g>>
  /\ UNCHANGED <<fixed, registers, faults, history>>

-----------------------------------------------------------------------------
(* FsblHandoff, and the same last steps of main in JTAG mode.              *)

\* ps7_post_config (generated) leaves the SLCR locked, as ps7_init does.
PostConfig ==
  /\ pc = "postconfig" /\ pc' = "relock"
  /\ locked' = TRUE
  /\ UNCHANGED <<g, mark, reason, multiboot, wdt>> /\ Stay

\* Mutant: the SLCR is left locked by ps7_post_config.
PostNoUnlock ==
  /\ pc = "relock"
  /\ pc' = IF hw.mode = "jtag" THEN "stop" ELSE "userhook"
  /\ UNCHANGED <<g, registers>> /\ Stay

\* The SlcrUnlock that follows it.
PostUnlock ==
  /\ pc = "relock"
  /\ pc' = IF hw.mode = "jtag" THEN "stop" ELSE "userhook"
  /\ locked' = FALSE
  /\ UNCHANGED <<g, mark, reason, multiboot, wdt>> /\ Stay

\* FsblHookBeforeHandoff (external).
UserHook ==
  /\ pc = "userhook"
  /\ pc' = "stop" \/ OutputStatus("fallback")
  /\ UNCHANGED <<g, registers>> /\ Stay

\* Mutant: the watchdog is left running for the application.
StopNothing ==
  /\ pc = "stop" /\ pc' = "clear"
  /\ UNCHANGED <<g, registers>> /\ Stay

StopWatchdog ==
  /\ pc = "stop" /\ pc' = "clear"
  /\ wdt' = FALSE
  /\ UNCHANGED <<g, mark, reason, multiboot, locked>> /\ Stay

\* main in JTAG mode has no address: HandoffAddress is still 0.
ClearMark ==
  /\ pc = "clear"
  /\ pc' = IF addr = "none" THEN "slcrlock" ELSE "exit"
  /\ ClearFSBLIn
  /\ UNCHANGED <<g, reason, multiboot, locked, wdt>> /\ Stay

SlcrLock ==
  /\ pc = "slcrlock" /\ pc' = "exit"
  /\ locked' = TRUE
  /\ UNCHANGED <<g, mark, reason, multiboot, wdt>> /\ Stay

\* FsblHandoffExit, reported, or FsblHandoffJtagExit: they do not return.
HandoffExit ==
  /\ pc = "exit"
  /\ IF addr = "none" THEN pc' = "exited" ELSE OutputStatus("exited")
  /\ UNCHANGED <<g, registers>> /\ Stay

\* If one does, FsblHandoff calls it an illegal return and falls back.  (In
\* JTAG mode main goes on to the flash check, which no flash passes.)
IllegalReturn ==
  /\ pc = "exited" /\ faults < MaxFaults
  /\ faults' = faults + 1
  /\ IF hw.mode = "jtag" THEN pc' = "flash" ELSE OutputStatus("fallback")
  /\ UNCHANGED <<fixed, g, addr, registers, history>>

-----------------------------------------------------------------------------
(* FsblFallback and the exceptions.                                        *)

\* The handlers are registered, and this is not the application yet.
Handled == pc \notin {"rom", "lockdown", "ps7", "unlock", "handlers", "hook",
                      "unsent", "exited", "noreset"}

ErrorLockdown == OutputStatus("fallback")

\* An exception in the boot loader, of any kind.
Exception ==
  /\ Handled /\ faults < MaxFaults
  /\ faults' = faults + 1
  /\ struck' = struck \cup ({pc} \cap Windows)
  /\ ErrorLockdown
  /\ UNCHANGED <<fixed, g, addr, registers, marked, depth>>

\* A boot mode without fallback gives up.
FallbackMode ==
  /\ pc = "fallback" /\ depth < MaxDepth
  /\ depth' = depth + 1
  /\ pc' = IF hw.mode \in FlashModes THEN "multiboot" ELSE "giveup"
  /\ UNCHANGED <<fixed, g, addr, registers, faults, marked, struck>>

\* ClearFSBLIn and then FsblHookFallback (external), at each of the four places
\* where FsblFallback gives up.
GiveUp ==
  /\ pc = "giveup" /\ pc' = "tohook"
  /\ ClearFSBLIn
  /\ UNCHANGED <<g, reason, multiboot, locked, wdt>> /\ Stay

FsblHookFallback ==
  /\ pc = "tohook" /\ pc' = "hook"
  /\ UNCHANGED <<g, registers>> /\ Stay

\* Mutant: the silicon version is not looked at.
UpdateAnyVersion ==
  /\ pc = "multiboot" /\ pc' = "fail"
  /\ multiboot' = multiboot + 1
  /\ UNCHANGED <<g, mark, reason, locked, wdt>> /\ Stay

\* Mutant: the incremented value is not written back.
UpdateNothing ==
  /\ pc = "multiboot" /\ pc' = "fail"
  /\ UNCHANGED <<g, registers>> /\ Stay

UpdateMultiBoot ==
  /\ pc = "multiboot" /\ pc' = "fail"
  /\ multiboot' = IF g.Silicon_Version # SILICON_VERSION_1 THEN multiboot + 1
                                                            ELSE multiboot
  /\ UNCHANGED <<g, mark, reason, locked, wdt>> /\ Stay

\* The failure mark; only a board with the AES fuse looks for the next image
\* itself, and only when the flash was initialized.
FallbackFail ==
  /\ pc = "fail"
  /\ mark' = IF locked THEN mark ELSE mark \cup FSBL_FAIL_MASK
  /\ pc' = IF ~g.PcapAes THEN "reset"
           ELSE IF g.SystemInitFlag THEN "fabric" ELSE "giveup"
  /\ UNCHANGED <<g, reason, multiboot, locked, wdt>> /\ Stay

FabricInit ==
  /\ pc = "fabric" /\ pc' \in {"search", "giveup"}
  /\ UNCHANGED <<g, registers>> /\ Stay

\* NextValidImageCheck reads MULTIBOOT into a local.
SearchBegin ==
  /\ pc = "search" /\ pc' = "scan"
  /\ MultiBootReg' = multiboot
  /\ UNCHANGED <<hw, tx, g, registers>> /\ Others

\* The header of slot s passes ImageCheckID and HeaderChecksum, or not.  They
\* ignore MoveImage's status: when a read fails, stale locals decide.
HeaderPasses(s, passes) ==
  \/ passes = ValidHeader(s) /\ faults' = faults
  \/ faults < MaxFaults /\ faults' = faults + 1

\* Mutant: the loop does not advance.
ScanInPlace ==
  /\ pc = "scan"
  /\ LET s == ImageBaseAddr(MultiBootReg) IN
       \/ /\ s < FlashSlots /\ HeaderPasses(s, TRUE)
          /\ pc' = "load" /\ multiboot' = MultiBootReg
       \/ /\ s < FlashSlots /\ HeaderPasses(s, FALSE)
          /\ pc' = "scan" /\ multiboot' = multiboot
       \/ /\ s >= FlashSlots
          /\ pc' = "giveup" /\ UNCHANGED <<multiboot, faults>>
  /\ MultiBootReg' = IF pc' = "scan" THEN MultiBootReg ELSE 0
  /\ UNCHANGED <<hw, tx, g, addr, mark, reason, locked, wdt, history>>

\* One iteration of its loop: the slot passes and MULTIBOOT is written, or the
\* next one is looked at, until the end of the flash.
ScanSlot ==
  /\ pc = "scan"
  /\ LET s == ImageBaseAddr(MultiBootReg) IN
       \/ /\ s < FlashSlots /\ HeaderPasses(s, TRUE)
          /\ pc' = "load" /\ multiboot' = MultiBootReg
       \/ /\ s < FlashSlots /\ HeaderPasses(s, FALSE)
          /\ pc' = "scan" /\ multiboot' = multiboot
       \/ /\ s >= FlashSlots
          /\ pc' = "giveup" /\ UNCHANGED <<multiboot, faults>>
  /\ MultiBootReg' = IF pc' = "scan" THEN MultiBootReg + 1 ELSE 0
  /\ UNCHANGED <<hw, tx, g, addr, mark, reason, locked, wdt, history>>

\* The software reset, another SLCR register.
FallbackReset ==
  /\ pc = "reset"
  /\ IF locked
     THEN pc' = "noreset" /\ UNCHANGED <<reason, locked, wdt, history>>
     ELSE Reset("soft")
  /\ UNCHANGED <<fixed, g, addr, mark, multiboot, faults>>

-----------------------------------------------------------------------------
\* The boot loader's own steps.
FsblStep ==
  \/ Ps7Init \/ SlcrUnlock \/ RegisterHandlers \/ UartEnable \/ DDRInitCheck \/ InitPcap
  \/ GetSiliconVersion \/ CheckWDTReset \/ InitWatchDog \/ ReadControl \/ StopForAes
  \/ Mark \/ BootMode \/ CheckFlash \/ LoadBootImage
  \/ PostConfig \/ PostUnlock \/ UserHook \/ StopWatchdog \/ ClearMark \/ SlcrLock
  \/ HandoffExit
  \/ FallbackMode \/ UpdateMultiBoot \/ FallbackFail \/ FabricInit \/ SearchBegin
  \/ ScanSlot \/ GiveUp \/ FsblHookFallback \/ FallbackReset

Next == BootRom \/ FsblStep \/ WdtReset \/ Exception \/ IllegalReturn

Spec == Init /\ [][Next]_vars

\* The processor executes; nothing fair makes a fault happen.
FairSpec == Spec /\ WF_vars(BootRom \/ FsblStep)

-----------------------------------------------------------------------------
(* Properties.                                                             *)

Labels ==
  {"rom", "lockdown", "ps7", "unlock", "handlers", "uart", "ddr", "pcap", "silicon",
   "wdtcheck", "wdtinit", "control", "aes", "mark", "mode", "flash", "load",
   "postconfig", "relock", "userhook", "stop", "clear", "slcrlock", "exit", "exited",
   "hook", "fallback", "multiboot", "fail", "fabric", "search", "scan", "giveup",
   "tohook", "reset", "noreset", "unsent"}

\* Types; and an image is loaded from a slot of the flash, only with the flash
\* initialized.
TypeOK ==
  /\ pc \in Labels
  /\ g \in [Silicon_Version : Versions \cup {SILICON_VERSION_1}, PcapAes : BOOLEAN,
            SystemInitFlag : BOOLEAN, BitstreamFlag : BOOLEAN, devcfg : BOOLEAN,
            FlashReadBaseAddress : BOOLEAN]
  /\ addr \in {"app", "none"}
  /\ mark \subseteq FSBL_FAIL_MASK /\ reason \subseteq {"SWDT", "soft"}
  /\ multiboot \in Nat /\ MultiBootReg \in Nat
  /\ {locked, wdt, tx, marked} \subseteq BOOLEAN
  /\ faults \in 0..MaxFaults /\ depth \in 0..MaxDepth /\ struck \subseteq Windows
  /\ pc = "load" => /\ g.FlashReadBaseAddress
                    /\ hw.mode \in FlashModes => ImageBaseAddr(multiboot) < FlashSlots

\* Whoever gets the board next, the application or the JTAG debugger, gets it
\* with the watchdog stopped (it would reset the application) and the mark
\* cleared (a later reset would look like a failed boot), on every path,
\* fallback and image search included.  One exception: an exception between
\* ps7_post_config and SlcrUnlock leaves the SLCR locked, and with the AES fuse
\* the next image that is found may be handed over with the mark.
HandoffClean == pc = "exited" => ~wdt /\ ("relock" \notin struck => mark = {})

\* A run that marked itself and gives up in the fallback hook is unmarked too,
\* whichever of the four ways it got there, but for the same window.
HookClean == pc = "hook" /\ marked /\ "relock" \notin struck => mark = {}

\* The MULTIBOOT register is reached through the devcfg driver, by the fallback
\* and by the search: never before InitPcap ("devcfg driver is not yet
\* initialized"), wherever the exception struck.
DevcfgReady == [][pc # "rom" /\ multiboot' # multiboot => g.devcfg]_vars

\* Once the AES fuse was looked at, no reset follows, by fallback or watchdog
\* ("Watch dog Timer disabled", "not allowed to do any system resets"), unless an
\* exception struck between the read of the fuse and the stop of the watchdog.
AesNoReset ==
  [][g.PcapAes /\ pc \notin {"rom", "aes"} /\ "aes" \notin struck => pc' # "rom"]_vars

\* A fallback always resets the board: its writes are not lost to a locked
\* SLCR, except after the lock of a handoff without an address, or an exception
\* that found the SLCR locked by ps7_post_config.
FallbackResets == pc = "noreset" => addr = "none" \/ "relock" \in struck

\* "Search for next valid image": from silicon 2.0 on the recursion FsblFallback,
\* LoadBootImage, FsblFallback of the search never meets an image a second time,
\* so it is bounded by the slots of the flash.  On silicon 1.0 MULTIBOOT is not
\* incremented and the search finds the image that has just failed.
SearchBounded ==
  hw.version # SILICON_VERSION_1 => depth <= FlashSlots + faults + 1

\* The boot loader waits for ever in OutputStatus at most for reporting that
\* ps7_init failed, or an exception that struck the moment they were enabled:
\* from the store to the UART on ("observed left disabled"), every status reaches
\* the line, the boot loader's last word included.
StatusSent ==
  pc = "unsent" => g = Bss /\ ~marked /\ (locked \/ "uart" \in struck)

\* However images and initializations fail, every boot comes to an end from
\* silicon 2.0 on: a handoff, the hook, a boot ROM that has run out of images, or
\* the failed ps7_init of StatusSent.
BootEnds ==
  pc = "rom" /\ hw.version # SILICON_VERSION_1
     ~> pc \in {"exited", "hook", "lockdown", "noreset", "unsent"}
=============================================================================
