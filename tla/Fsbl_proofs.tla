---------------------------- MODULE Fsbl_proofs ----------------------------
(***************************************************************************)
(* Proofs about Fsbl, for every flash size, silicon version, set of boot   *)
(* modes and number of faults: what the watchdog, the mark, the SLCR lock  *)
(* and the AES fuse are at every point of a boot, the slots that a search  *)
(* leaves behind, and the properties that follow.                          *)
(***************************************************************************)
EXTENDS Fsbl, TLAPS

USE FsblAssumption DEF registers, fixed, history, AllModes, FlashModes, FSBL_FAIL_MASK,
                       FSBL_IN_MASK, SILICON_VERSION_1, Stay, Others, Reset,
                       OutputStatus, Windows

\* The types the other parts of the invariant need.
BoardTyped ==
  /\ hw.aes \in BOOLEAN /\ hw.version \in Nat /\ hw.mode \in AllModes
  /\ g \in [Silicon_Version : Nat, PcapAes : BOOLEAN, SystemInitFlag : BOOLEAN,
            BitstreamFlag : BOOLEAN, devcfg : BOOLEAN, FlashReadBaseAddress :
                BOOLEAN]
  /\ mark \subseteq FSBL_FAIL_MASK
  /\ {locked, wdt, tx, marked} \subseteq BOOLEAN
  /\ struck \subseteq Windows

\* Before the SLCR is unlocked; before the fuse is read; before the mark is set.
Locking   == {"rom", "lockdown", "ps7", "unlock"}
BeforeAes == {"lockdown", "ps7", "unlock", "handlers", "uart", "ddr", "pcap",
              "silicon", "wdtcheck", "wdtinit", "control"}
BeforeMark == Locking \cup BeforeAes \cup {"aes", "mark"}

\* The watchdog is stopped for a handoff, in the boot ROM, and for good once
\* the fuse was looked at.
WatchdogOff ==
  /\ pc \in {"clear", "slcrlock", "exit", "exited", "rom"} => ~wdt
  /\ g.PcapAes /\ pc \notin {"rom", "aes"} /\ "aes" \notin struck => ~wdt
  /\ pc \in BeforeAes => ~g.PcapAes
  /\ pc = "reset" => ~g.PcapAes

\* The devcfg driver is up once the silicon version is not the zeroed global's,
\* and once the fuse is known, which a search needs.
DriverUp ==
  /\ pc \in {"silicon", "wdtcheck", "wdtinit", "control"} => g.devcfg
  /\ g.Silicon_Version # SILICON_VERSION_1 => g.devcfg
  /\ g.PcapAes => g.devcfg
  /\ pc \in {"fabric", "search", "scan"} => g.PcapAes

\* An SLCR that is locked after the start was locked with the mark clear, so a
\* write that is lost could not have mattered: unless an exception found it
\* locked by ps7_post_config.
MarkClear ==
  /\ pc \in BeforeMark => ~marked
  /\ "relock" \notin struck =>
       /\ pc \in {"slcrlock", "exit", "exited", "tohook"} => mark = {}
       /\ pc = "hook" /\ marked => mark = {}
       /\ locked /\ pc \notin Locking \cup {"relock"}
            /\ ~(pc \in {"hook", "unsent"} /\ ~marked) => mark = {}

\* Without the fuse and that window, a locked SLCR means a handoff without an
\* address, and nothing but the fallback comes after it.
LockedTail ==
  /\ hw.mode = "jtag" => ~g.FlashReadBaseAddress
  /\ pc = "slcrlock" => addr = "none"
  /\ locked /\ ~g.PcapAes /\ "relock" \notin struck
       /\ pc \notin Locking \cup {"relock", "hook", "unsent"} =>
         /\ addr = "none"
         /\ pc \in {"exit", "exited", "flash", "fallback", "multiboot", "fail", "reset",
                   "noreset", "giveup", "tohook"}
         /\ pc = "flash" => hw.mode = "jtag"
  /\ pc = "noreset" => addr = "none" \/ "relock" \in struck

\* The transmitter is on from the store to the UART to the handoff, and nothing
\* has happened before it.
Reporting ==
  /\ pc \notin Locking \cup {"handlers", "uart", "hook", "unsent"} => tx
  /\ pc \in {"rom", "ps7", "unlock"} => locked /\ ~marked
  /\ pc = "unsent" => ~marked /\ (locked \/ "uart" \in struck)
  /\ pc \in {"ps7", "unlock", "handlers", "uart", "unsent"} => g = Bss

BootInv == BoardTyped /\ WatchdogOff /\ DriverUp /\ MarkClear /\ LockedTail /\ Reporting

LEMMA BootInit == Init => BootInv
<1>. SUFFICES ASSUME Init PROVE BootInv
  OBVIOUS
<1>. USE DEF Init, Bss
<1>1. BoardTyped
  <2>1. hw.aes \in BOOLEAN /\ hw.version \in Versions /\ hw.mode \in Modes
    OBVIOUS
  <2>. QED  BY <2>1 DEF BoardTyped
<1>2. WatchdogOff /\ DriverUp
  BY DEF WatchdogOff, DriverUp, BeforeAes
<1>3. MarkClear /\ LockedTail /\ Reporting
  BY DEF MarkClear, LockedTail, Reporting, Locking, BeforeAes, BeforeMark
<1>. QED  BY <1>1, <1>2, <1>3 DEF BootInv

\* Every step is one of the actions.
LEMMA StepCases ==
  ASSUME Next
  PROVE  \/ BootRom \/ Ps7Init \/ SlcrUnlock \/ DDRInitCheck \/ InitPcap
         \/ GetSiliconVersion \/ CheckWDTReset \/ InitWatchDog \/ ReadControl \/ Mark
         \/ BootMode \/ CheckFlash \/ LoadBootImage \/ PostConfig \/ UserHook
         \/ StopWatchdog \/ ClearMark \/ HandoffExit \/ FallbackMode
         \/ UpdateMultiBoot \/ FallbackFail \/ FabricInit \/ SearchBegin
         \/ ScanSlot \/ FallbackReset \/ WdtReset \/ Exception \/ IllegalReturn
         \/ RegisterHandlers \/ UartEnable \/ StopForAes \/ PostUnlock \/ SlcrLock
         \/ GiveUp \/ FsblHookFallback
BY DEF Next, FsblStep

\* Types are kept.
LEMMA TypedStep ==
  ASSUME BootInv, [Next]_vars PROVE BoardTyped'
<1>. USE DEF BootInv, BoardTyped
<1>1. CASE BootRom
  BY <1>1 DEF BootRom, Bss
<1>2. CASE Ps7Init
  BY <1>2 DEF Ps7Init
<1>3. CASE SlcrUnlock
  BY <1>3 DEF SlcrUnlock
<1>4. CASE DDRInitCheck
  BY <1>4 DEF DDRInitCheck
<1>5. CASE InitPcap
  BY <1>5 DEF InitPcap
<1>6. CASE GetSiliconVersion
  BY <1>6 DEF GetSiliconVersion
<1>7. CASE CheckWDTReset
  BY <1>7 DEF CheckWDTReset
<1>8. CASE InitWatchDog
  BY <1>8 DEF InitWatchDog
<1>9. CASE ReadControl
  BY <1>9 DEF ReadControl
<1>10. CASE Mark
  BY <1>10 DEF Mark, MarkFSBLIn
<1>11. CASE BootMode
  BY <1>11 DEF BootMode
<1>12. CASE CheckFlash
  BY <1>12 DEF CheckFlash
<1>13. CASE LoadBootImage
  BY <1>13 DEF LoadBootImage
<1>14. CASE PostConfig
  BY <1>14 DEF PostConfig
<1>15. CASE UserHook
  BY <1>15 DEF UserHook
<1>16. CASE StopWatchdog
  BY <1>16 DEF StopWatchdog
<1>17. CASE ClearMark
  BY <1>17 DEF ClearMark, ClearFSBLIn
<1>18. CASE HandoffExit
  BY <1>18 DEF HandoffExit
<1>19. CASE FallbackMode
  BY <1>19 DEF FallbackMode
<1>20. CASE UpdateMultiBoot
  BY <1>20 DEF UpdateMultiBoot
<1>21. CASE FallbackFail
  BY <1>21 DEF FallbackFail
<1>22. CASE FabricInit
  BY ZenonT(60), <1>22 DEF FabricInit
<1>23. CASE SearchBegin
  BY <1>23 DEF SearchBegin
<1>29. CASE ScanSlot
  BY ZenonT(60), <1>29 DEF ScanSlot
<1>24. CASE FallbackReset
  BY <1>24 DEF FallbackReset
<1>25. CASE WdtReset
  BY <1>25 DEF WdtReset
<1>26. CASE Exception
  BY <1>26 DEF Exception, ErrorLockdown, Handled
<1>27. CASE IllegalReturn
  BY <1>27 DEF IllegalReturn
<1>30. CASE RegisterHandlers
  BY <1>30 DEF RegisterHandlers
<1>31. CASE UartEnable
  BY <1>31 DEF UartEnable
<1>32. CASE StopForAes
  BY <1>32 DEF StopForAes
<1>33. CASE PostUnlock
  BY <1>33 DEF PostUnlock
<1>34. CASE SlcrLock
  BY <1>34 DEF SlcrLock
<1>35. CASE GiveUp
  BY <1>35 DEF GiveUp, ClearFSBLIn
<1>36. CASE FsblHookFallback
  BY <1>36 DEF FsblHookFallback
<1>28. CASE UNCHANGED vars
  BY <1>28 DEF vars
<1>. QED  BY StepCases, <1>1, <1>2, <1>3, <1>4, <1>5, <1>6, <1>7, <1>8, <1>9, <1>10,
          <1>11, <1>12, <1>13, <1>14, <1>15, <1>16, <1>17, <1>18, <1>19, <1>20,
          <1>21, <1>22, <1>23, <1>24, <1>25, <1>26, <1>27, <1>28,
          <1>29, <1>30, <1>31, <1>32, <1>33, <1>34, <1>35, <1>36

\* The watchdog is only started where the fuse is not known yet.
LEMMA WatchdogStep ==
  ASSUME BootInv, [Next]_vars PROVE WatchdogOff'
<1>. USE DEF BootInv, BoardTyped, WatchdogOff, BeforeAes
<1>1. CASE BootRom
  BY <1>1 DEF BootRom, Bss
<1>2. CASE Ps7Init
  BY <1>2 DEF Ps7Init
<1>3. CASE SlcrUnlock
  BY <1>3 DEF SlcrUnlock
<1>4. CASE DDRInitCheck
  BY <1>4 DEF DDRInitCheck
<1>5. CASE InitPcap
  BY <1>5 DEF InitPcap
<1>6. CASE GetSiliconVersion
  BY <1>6 DEF GetSiliconVersion
<1>7. CASE CheckWDTReset
  BY <1>7 DEF CheckWDTReset
<1>8. CASE InitWatchDog
  BY <1>8 DEF InitWatchDog
<1>9. CASE ReadControl
  BY <1>9 DEF ReadControl
<1>10. CASE Mark
  BY <1>10 DEF Mark, MarkFSBLIn
<1>11. CASE BootMode
  BY <1>11 DEF BootMode
<1>12. CASE CheckFlash
  BY <1>12 DEF CheckFlash
<1>13. CASE LoadBootImage
  BY <1>13 DEF LoadBootImage
<1>14. CASE PostConfig
  BY <1>14 DEF PostConfig
<1>15. CASE UserHook
  BY <1>15 DEF UserHook
<1>16. CASE StopWatchdog
  BY <1>16 DEF StopWatchdog
<1>17. CASE ClearMark
  BY <1>17 DEF ClearMark, ClearFSBLIn
<1>18. CASE HandoffExit
  BY <1>18 DEF HandoffExit
<1>19. CASE FallbackMode
  BY <1>19 DEF FallbackMode
<1>20. CASE UpdateMultiBoot
  BY <1>20 DEF UpdateMultiBoot
<1>21. CASE FallbackFail
  BY <1>21 DEF FallbackFail
<1>22. CASE FabricInit
  BY <1>22 DEF FabricInit
<1>23. CASE SearchBegin
  BY <1>23 DEF SearchBegin
<1>29. CASE ScanSlot
  BY <1>29 DEF ScanSlot
<1>24. CASE FallbackReset
  BY <1>24 DEF FallbackReset
<1>25. CASE WdtReset
  BY <1>25 DEF WdtReset
<1>26. CASE Exception
  BY <1>26 DEF Exception, ErrorLockdown, Handled
<1>27. CASE IllegalReturn
  BY <1>27 DEF IllegalReturn
<1>30. CASE RegisterHandlers
  BY <1>30 DEF RegisterHandlers
<1>31. CASE UartEnable
  BY <1>31 DEF UartEnable
<1>32. CASE StopForAes
  BY <1>32 DEF StopForAes
<1>33. CASE PostUnlock
  BY <1>33 DEF PostUnlock
<1>34. CASE SlcrLock
  BY <1>34 DEF SlcrLock
<1>35. CASE GiveUp
  BY <1>35 DEF GiveUp, ClearFSBLIn
<1>36. CASE FsblHookFallback
  BY <1>36 DEF FsblHookFallback
<1>28. CASE UNCHANGED vars
  BY <1>28 DEF vars
<1>. QED  BY StepCases, <1>1, <1>2, <1>3, <1>4, <1>5, <1>6, <1>7, <1>8, <1>9, <1>10,
          <1>11, <1>12, <1>13, <1>14, <1>15, <1>16, <1>17, <1>18, <1>19, <1>20,
          <1>21, <1>22, <1>23, <1>24, <1>25, <1>26, <1>27, <1>28,
          <1>29, <1>30, <1>31, <1>32, <1>33, <1>34, <1>35, <1>36

\* The silicon version is read with the driver up.
LEMMA DriverStep ==
  ASSUME BootInv, [Next]_vars PROVE DriverUp'
<1>. USE DEF BootInv, BoardTyped, DriverUp
<1>1. CASE BootRom
  BY <1>1 DEF BootRom, Bss
<1>2. CASE Ps7Init
  BY <1>2 DEF Ps7Init
<1>3. CASE SlcrUnlock
  BY <1>3 DEF SlcrUnlock
<1>4. CASE DDRInitCheck
  BY <1>4 DEF DDRInitCheck
<1>5. CASE InitPcap
  BY <1>5 DEF InitPcap
<1>6. CASE GetSiliconVersion
  BY <1>6 DEF GetSiliconVersion
<1>7. CASE CheckWDTReset
  BY <1>7 DEF CheckWDTReset
<1>8. CASE InitWatchDog
  BY <1>8 DEF InitWatchDog
<1>9. CASE ReadControl
  BY <1>9 DEF ReadControl
<1>10. CASE Mark
  BY <1>10 DEF Mark, MarkFSBLIn
<1>11. CASE BootMode
  BY <1>11 DEF BootMode
<1>12. CASE CheckFlash
  BY <1>12 DEF CheckFlash
<1>13. CASE LoadBootImage
  BY <1>13 DEF LoadBootImage
<1>14. CASE PostConfig
  BY <1>14 DEF PostConfig
<1>15. CASE UserHook
  BY <1>15 DEF UserHook
<1>16. CASE StopWatchdog
  BY <1>16 DEF StopWatchdog
<1>17. CASE ClearMark
  BY <1>17 DEF ClearMark, ClearFSBLIn
<1>18. CASE HandoffExit
  BY <1>18 DEF HandoffExit
<1>19. CASE FallbackMode
  BY <1>19 DEF FallbackMode
<1>20. CASE UpdateMultiBoot
  BY <1>20 DEF UpdateMultiBoot
<1>21. CASE FallbackFail
  BY <1>21 DEF FallbackFail
<1>22. CASE FabricInit
  BY <1>22 DEF FabricInit
<1>23. CASE SearchBegin
  BY <1>23 DEF SearchBegin
<1>29. CASE ScanSlot
  BY <1>29 DEF ScanSlot
<1>24. CASE FallbackReset
  BY <1>24 DEF FallbackReset
<1>25. CASE WdtReset
  BY <1>25 DEF WdtReset
<1>26. CASE Exception
  BY <1>26 DEF Exception, ErrorLockdown, Handled
<1>27. CASE IllegalReturn
  BY <1>27 DEF IllegalReturn
<1>30. CASE RegisterHandlers
  BY <1>30 DEF RegisterHandlers
<1>31. CASE UartEnable
  BY <1>31 DEF UartEnable
<1>32. CASE StopForAes
  BY <1>32 DEF StopForAes
<1>33. CASE PostUnlock
  BY <1>33 DEF PostUnlock
<1>34. CASE SlcrLock
  BY <1>34 DEF SlcrLock
<1>35. CASE GiveUp
  BY <1>35 DEF GiveUp, ClearFSBLIn
<1>36. CASE FsblHookFallback
  BY <1>36 DEF FsblHookFallback
<1>28. CASE UNCHANGED vars
  BY <1>28 DEF vars
<1>. QED  BY StepCases, <1>1, <1>2, <1>3, <1>4, <1>5, <1>6, <1>7, <1>8, <1>9, <1>10,
          <1>11, <1>12, <1>13, <1>14, <1>15, <1>16, <1>17, <1>18, <1>19, <1>20,
          <1>21, <1>22, <1>23, <1>24, <1>25, <1>26, <1>27, <1>28,
          <1>29, <1>30, <1>31, <1>32, <1>33, <1>34, <1>35, <1>36

\* The mark is cleared before the SLCR is locked.
LEMMA MarkStep ==
  ASSUME BootInv, [Next]_vars PROVE MarkClear'
<1>. USE DEF BootInv, BoardTyped, MarkClear, Locking, BeforeAes, BeforeMark
<1>1. CASE BootRom
  BY <1>1 DEF BootRom, Bss
<1>2. CASE Ps7Init
  BY <1>2 DEF Ps7Init
<1>3. CASE SlcrUnlock
  BY <1>3 DEF SlcrUnlock
<1>4. CASE DDRInitCheck
  BY <1>4 DEF DDRInitCheck
<1>5. CASE InitPcap
  BY <1>5 DEF InitPcap
<1>6. CASE GetSiliconVersion
  BY <1>6 DEF GetSiliconVersion
<1>7. CASE CheckWDTReset
  BY <1>7 DEF CheckWDTReset
<1>8. CASE InitWatchDog
  BY <1>8 DEF InitWatchDog
<1>9. CASE ReadControl
  BY <1>9 DEF ReadControl
<1>10. CASE Mark
  BY <1>10 DEF Mark, MarkFSBLIn
<1>11. CASE BootMode
  BY <1>11 DEF BootMode
<1>12. CASE CheckFlash
  BY <1>12 DEF CheckFlash
<1>13. CASE LoadBootImage
  BY <1>13 DEF LoadBootImage
<1>14. CASE PostConfig
  BY <1>14 DEF PostConfig
<1>15. CASE UserHook
  BY <1>15 DEF UserHook
<1>16. CASE StopWatchdog
  BY <1>16 DEF StopWatchdog
<1>17. CASE ClearMark
  BY <1>17 DEF ClearMark, ClearFSBLIn
<1>18. CASE HandoffExit
  BY <1>18 DEF HandoffExit
<1>19. CASE FallbackMode
  BY <1>19 DEF FallbackMode
<1>20. CASE UpdateMultiBoot
  BY <1>20 DEF UpdateMultiBoot
<1>21. CASE FallbackFail
  BY <1>21 DEF FallbackFail
<1>22. CASE FabricInit
  BY <1>22 DEF FabricInit
<1>23. CASE SearchBegin
  BY <1>23 DEF SearchBegin
<1>29. CASE ScanSlot
  BY <1>29 DEF ScanSlot
<1>24. CASE FallbackReset
  BY <1>24 DEF FallbackReset
<1>25. CASE WdtReset
  BY <1>25 DEF WdtReset
<1>26. CASE Exception
  BY <1>26 DEF Exception, ErrorLockdown, Handled
<1>27. CASE IllegalReturn
  BY <1>27 DEF IllegalReturn
<1>30. CASE RegisterHandlers
  BY <1>30 DEF RegisterHandlers
<1>31. CASE UartEnable
  BY <1>31 DEF UartEnable
<1>32. CASE StopForAes
  BY <1>32 DEF StopForAes
<1>33. CASE PostUnlock
  BY <1>33 DEF PostUnlock
<1>34. CASE SlcrLock
  BY <1>34 DEF SlcrLock
<1>35. CASE GiveUp
  BY <1>35 DEF GiveUp, ClearFSBLIn
<1>36. CASE FsblHookFallback
  BY <1>36 DEF FsblHookFallback
<1>28. CASE UNCHANGED vars
  BY <1>28 DEF vars
<1>. QED  BY StepCases, <1>1, <1>2, <1>3, <1>4, <1>5, <1>6, <1>7, <1>8, <1>9, <1>10,
          <1>11, <1>12, <1>13, <1>14, <1>15, <1>16, <1>17, <1>18, <1>19, <1>20,
          <1>21, <1>22, <1>23, <1>24, <1>25, <1>26, <1>27, <1>28,
          <1>29, <1>30, <1>31, <1>32, <1>33, <1>34, <1>35, <1>36

\* A locked SLCR stays in the fallback.
LEMMA LockedStep ==
  ASSUME BootInv, [Next]_vars PROVE LockedTail'
<1>. USE DEF BootInv, BoardTyped, WatchdogOff, LockedTail, Locking, BeforeAes
<1>1. CASE BootRom
  BY <1>1 DEF BootRom, Bss
<1>2. CASE Ps7Init
  BY <1>2 DEF Ps7Init
<1>3. CASE SlcrUnlock
  BY <1>3 DEF SlcrUnlock
<1>4. CASE DDRInitCheck
  BY <1>4 DEF DDRInitCheck
<1>5. CASE InitPcap
  BY <1>5 DEF InitPcap
<1>6. CASE GetSiliconVersion
  BY <1>6 DEF GetSiliconVersion
<1>7. CASE CheckWDTReset
  BY <1>7 DEF CheckWDTReset
<1>8. CASE InitWatchDog
  BY <1>8 DEF InitWatchDog
<1>9. CASE ReadControl
  BY <1>9 DEF ReadControl
<1>10. CASE Mark
  BY <1>10 DEF Mark, MarkFSBLIn
<1>11. CASE BootMode
  BY <1>11 DEF BootMode
<1>12. CASE CheckFlash
  BY <1>12 DEF CheckFlash
<1>13. CASE LoadBootImage
  BY <1>13 DEF LoadBootImage
<1>14. CASE PostConfig
  BY <1>14 DEF PostConfig
<1>15. CASE UserHook
  BY <1>15 DEF UserHook
<1>16. CASE StopWatchdog
  BY <1>16 DEF StopWatchdog
<1>17. CASE ClearMark
  BY <1>17 DEF ClearMark, ClearFSBLIn
<1>18. CASE HandoffExit
  BY <1>18 DEF HandoffExit
<1>19. CASE FallbackMode
  BY <1>19 DEF FallbackMode
<1>20. CASE UpdateMultiBoot
  BY <1>20 DEF UpdateMultiBoot
<1>21. CASE FallbackFail
  BY <1>21 DEF FallbackFail
<1>22. CASE FabricInit
  BY <1>22 DEF FabricInit
<1>23. CASE SearchBegin
  BY <1>23 DEF SearchBegin
<1>29. CASE ScanSlot
  BY <1>29 DEF ScanSlot
<1>24. CASE FallbackReset
  BY <1>24 DEF FallbackReset
<1>25. CASE WdtReset
  BY <1>25 DEF WdtReset
<1>26. CASE Exception
  BY <1>26 DEF Exception, ErrorLockdown, Handled
<1>27. CASE IllegalReturn
  BY <1>27 DEF IllegalReturn
<1>30. CASE RegisterHandlers
  BY <1>30 DEF RegisterHandlers
<1>31. CASE UartEnable
  BY <1>31 DEF UartEnable
<1>32. CASE StopForAes
  BY <1>32 DEF StopForAes
<1>33. CASE PostUnlock
  BY <1>33 DEF PostUnlock
<1>34. CASE SlcrLock
  BY <1>34 DEF SlcrLock
<1>35. CASE GiveUp
  BY <1>35 DEF GiveUp, ClearFSBLIn
<1>36. CASE FsblHookFallback
  BY <1>36 DEF FsblHookFallback
<1>28. CASE UNCHANGED vars
  BY <1>28 DEF vars
<1>. QED  BY StepCases, <1>1, <1>2, <1>3, <1>4, <1>5, <1>6, <1>7, <1>8, <1>9, <1>10,
          <1>11, <1>12, <1>13, <1>14, <1>15, <1>16, <1>17, <1>18, <1>19, <1>20,
          <1>21, <1>22, <1>23, <1>24, <1>25, <1>26, <1>27, <1>28,
          <1>29, <1>30, <1>31, <1>32, <1>33, <1>34, <1>35, <1>36

\* The transmitter is never disabled once it is forced on.
LEMMA ReportingStep ==
  ASSUME BootInv, [Next]_vars PROVE Reporting'
<1>. USE DEF BootInv, BoardTyped, MarkClear, LockedTail, Reporting, Locking,
                           BeforeAes, BeforeMark, Bss
<1>1. CASE BootRom
  BY <1>1 DEF BootRom
<1>2. CASE Ps7Init
  BY <1>2 DEF Ps7Init
<1>3. CASE SlcrUnlock
  BY <1>3 DEF SlcrUnlock
<1>4. CASE DDRInitCheck
  BY <1>4 DEF DDRInitCheck
<1>5. CASE InitPcap
  BY <1>5 DEF InitPcap
<1>6. CASE GetSiliconVersion
  BY <1>6 DEF GetSiliconVersion
<1>7. CASE CheckWDTReset
  BY <1>7 DEF CheckWDTReset
<1>8. CASE InitWatchDog
  BY <1>8 DEF InitWatchDog
<1>9. CASE ReadControl
  BY <1>9 DEF ReadControl
<1>10. CASE Mark
  BY <1>10 DEF Mark, MarkFSBLIn
<1>11. CASE BootMode
  BY <1>11 DEF BootMode
<1>12. CASE CheckFlash
  BY <1>12 DEF CheckFlash
<1>13. CASE LoadBootImage
  BY <1>13 DEF LoadBootImage
<1>14. CASE PostConfig
  BY <1>14 DEF PostConfig
<1>15. CASE UserHook
  BY <1>15 DEF UserHook
<1>16. CASE StopWatchdog
  BY <1>16 DEF StopWatchdog
<1>17. CASE ClearMark
  BY <1>17 DEF ClearMark, ClearFSBLIn
<1>18. CASE HandoffExit
  BY <1>18 DEF HandoffExit
<1>19. CASE FallbackMode
  BY <1>19 DEF FallbackMode
<1>20. CASE UpdateMultiBoot
  BY <1>20 DEF UpdateMultiBoot
<1>21. CASE FallbackFail
  BY <1>21 DEF FallbackFail
<1>22. CASE FabricInit
  BY <1>22 DEF FabricInit
<1>23. CASE SearchBegin
  BY <1>23 DEF SearchBegin
<1>29. CASE ScanSlot
  BY <1>29 DEF ScanSlot
<1>24. CASE FallbackReset
  BY <1>24 DEF FallbackReset
<1>25. CASE WdtReset
  BY <1>25 DEF WdtReset
<1>26. CASE Exception
  BY <1>26 DEF Exception, ErrorLockdown, Handled
<1>27. CASE IllegalReturn
  BY <1>27 DEF IllegalReturn
<1>30. CASE RegisterHandlers
  BY <1>30 DEF RegisterHandlers
<1>31. CASE UartEnable
  BY <1>31 DEF UartEnable
<1>32. CASE StopForAes
  BY <1>32 DEF StopForAes
<1>33. CASE PostUnlock
  BY <1>33 DEF PostUnlock
<1>34. CASE SlcrLock
  BY <1>34 DEF SlcrLock
<1>35. CASE GiveUp
  BY <1>35 DEF GiveUp, ClearFSBLIn
<1>36. CASE FsblHookFallback
  BY <1>36 DEF FsblHookFallback
<1>28. CASE UNCHANGED vars
  BY <1>28 DEF vars
<1>. QED  BY StepCases, <1>1, <1>2, <1>3, <1>4, <1>5, <1>6, <1>7, <1>8, <1>9, <1>10,
          <1>11, <1>12, <1>13, <1>14, <1>15, <1>16, <1>17, <1>18, <1>19, <1>20,
          <1>21, <1>22, <1>23, <1>24, <1>25, <1>26, <1>27, <1>28,
          <1>29, <1>30, <1>31, <1>32, <1>33, <1>34, <1>35, <1>36

LEMMA Invariance == Spec => []BootInv
<1>1. BootInv /\ [Next]_vars => BootInv'
  BY TypedStep, WatchdogStep, DriverStep, MarkStep, LockedStep, ReportingStep
     DEF BootInv
<1>. QED  BY <1>1, BootInit, PTL DEF Spec

-----------------------------------------------------------------------------
\* The application and the debugger get the board with the watchdog stopped and
\* the mark clear (StopWatchdog, ClearFSBLIn before SlcrLock), if no exception
\* struck where ps7_post_config had locked the SLCR.
THEOREM HandoffIsClean == Spec => []HandoffClean
<1>1. BootInv => HandoffClean
  BY DEF BootInv, WatchdogOff, MarkClear, HandoffClean
<1>. QED  BY <1>1, Invariance, PTL

\* A marked run that ends in the fallback hook has cleared its mark, if no
\* exception struck where ps7_post_config had locked the SLCR.
THEOREM HookIsClean == Spec => []HookClean
<1>1. BootInv => HookClean
  BY DEF BootInv, MarkClear, HookClean
<1>. QED  BY <1>1, Invariance, PTL

\* After ps7_init, no status waits for a transmitter that is disabled, but for an
\* exception between Xil_ExceptionEnable and the store to the UART.
THEOREM StatusIsSent == Spec => []StatusSent
<1>1. BootInv => StatusSent
  BY DEF BootInv, Reporting, StatusSent
<1>. QED  BY <1>1, Invariance, PTL

\* FsblFallback's reset is lost to the SLCR lock only after a handoff without
\* an address, or an exception where ps7_post_config had locked it.
THEOREM FallbackDoesReset == Spec => []FallbackResets
<1>1. BootInv => FallbackResets
  BY DEF BootInv, LockedTail, FallbackResets
<1>. QED  BY <1>1, Invariance, PTL

\* An exception before InitPcap leaves the MULTIBOOT register alone, and no search
\* begins without the driver.
THEOREM DevcfgIsReady == Spec => DevcfgReady
<1>1. BootInv /\ [Next]_vars
        => [pc # "rom" /\ multiboot' # multiboot => g.devcfg]_vars
  <2>. SUFFICES ASSUME BootInv, Next, pc # "rom", multiboot' # multiboot
                PROVE  g.devcfg
    OBVIOUS
  <2>1. ~(BootRom \/ Ps7Init \/ SlcrUnlock \/ RegisterHandlers \/ UartEnable
          \/ DDRInitCheck \/ InitPcap \/ GetSiliconVersion \/ CheckWDTReset
          \/ InitWatchDog \/ ReadControl \/ StopForAes \/ Mark \/ BootMode
          \/ CheckFlash \/ LoadBootImage)
    BY DEF BootRom, Ps7Init, SlcrUnlock, RegisterHandlers, UartEnable, DDRInitCheck,
           InitPcap, GetSiliconVersion, CheckWDTReset, InitWatchDog, ReadControl,
           StopForAes, Mark, BootMode, CheckFlash, LoadBootImage
  <2>2. ~(PostConfig \/ PostUnlock \/ UserHook \/ StopWatchdog \/ ClearMark \/ SlcrLock
          \/ HandoffExit \/ FallbackMode \/ FallbackFail \/ FabricInit \/ SearchBegin
          \/ GiveUp \/ FsblHookFallback \/ FallbackReset \/ WdtReset \/ Exception
          \/ IllegalReturn)
    BY DEF PostConfig, PostUnlock, UserHook, StopWatchdog, ClearMark, SlcrLock,
           HandoffExit, FallbackMode, FallbackFail, FabricInit, SearchBegin, GiveUp,
           FsblHookFallback, FallbackReset, WdtReset, Exception, ErrorLockdown,
           IllegalReturn
  <2>3. UpdateMultiBoot \/ ScanSlot
    BY StepCases, <2>1, <2>2
  <2>. QED  BY <2>3 DEF UpdateMultiBoot, ScanSlot, BootInv, DriverUp
<1>. QED  BY <1>1, Invariance, PTL DEF Spec, DevcfgReady

\* With the AES fuse looked at, neither the fallback nor the watchdog resets, if no
\* exception struck between the read of the fuse and the stop of the watchdog.
THEOREM AesDoesNotReset == Spec => AesNoReset
<1>1. BootInv /\ [Next]_vars
        => [g.PcapAes /\ pc \notin {"rom", "aes"} /\ "aes" \notin struck
              => pc' # "rom"]_vars
  <2>. SUFFICES ASSUME BootInv, Next, g.PcapAes, pc \notin {"rom", "aes"},
                       "aes" \notin struck, pc' = "rom"
                PROVE  FALSE
    OBVIOUS
  <2>1. ~(BootRom \/ Ps7Init \/ SlcrUnlock \/ RegisterHandlers \/ UartEnable
          \/ DDRInitCheck \/ InitPcap \/ GetSiliconVersion \/ CheckWDTReset
          \/ InitWatchDog)
    BY DEF BootRom, Ps7Init, SlcrUnlock, RegisterHandlers, UartEnable, DDRInitCheck,
           InitPcap, GetSiliconVersion, CheckWDTReset, InitWatchDog
  <2>2. ~(ReadControl \/ StopForAes \/ Mark \/ CheckFlash \/ LoadBootImage \/ PostConfig
          \/ PostUnlock \/ UserHook \/ StopWatchdog \/ ClearMark \/ SlcrLock
          \/ HandoffExit)
    BY DEF ReadControl, StopForAes, Mark, CheckFlash, LoadBootImage, PostConfig,
           PostUnlock, UserHook, StopWatchdog, ClearMark, SlcrLock, HandoffExit
  <2>3. ~BootMode
    BY DEF BootMode, BootInv, BoardTyped
  <2>4. ~(FallbackMode \/ UpdateMultiBoot \/ FallbackFail \/ FabricInit
          \/ SearchBegin \/ ScanSlot \/ GiveUp \/ FsblHookFallback \/ Exception
          \/ IllegalReturn)
    BY DEF FallbackMode, UpdateMultiBoot, FallbackFail, FabricInit, SearchBegin,
           ScanSlot, GiveUp, FsblHookFallback, Exception, ErrorLockdown, IllegalReturn
  <2>5. WdtReset \/ FallbackReset
    BY StepCases, <2>1, <2>2, <2>3, <2>4
  <2>. QED  BY <2>5 DEF WdtReset, FallbackReset, BootInv, WatchdogOff
<1>. QED  BY <1>1, Invariance, PTL DEF Spec, AesNoReset

-----------------------------------------------------------------------------
(* Images and slots.                                                       *)

\* Until an image runs, MULTIBOOT names a slot of the flash: the one it is in.
Loading == BeforeAes \cup {"aes", "mark", "mode", "flash", "load"}
Started == {"postconfig", "relock", "userhook", "stop", "clear", "slcrlock", "exit",
            "exited"}

AtSlot ==
  /\ hw.version \in Versions
  /\ hw.mode \in FlashModes /\ pc \in Loading \ {"lockdown"}
       => ImageBaseAddr(multiboot) < FlashSlots

\* Nobody searches a flash that was not initialized.
FlashUp ==
  /\ g.SystemInitFlag => g.FlashReadBaseAddress
  /\ pc \in (BeforeMark \ {"rom"}) \cup {"mode"} => ~g.SystemInitFlag
  /\ pc \in {"load", "fabric", "search", "scan"} => g.SystemInitFlag

\* The other types.
Counted ==
  /\ pc \in Labels /\ addr \in {"app", "none"} /\ reason \subseteq {"SWDT", "soft"}
  /\ multiboot \in Nat /\ MultiBootReg \in Nat
  /\ faults \in 0..MaxFaults /\ depth \in 0..MaxDepth
  /\ g.Silicon_Version \in Versions \cup {SILICON_VERSION_1}

LoadInv == BootInv /\ Counted /\ AtSlot /\ FlashUp

\* The driver knows the silicon where it needs it.
Known == {"wdtcheck", "wdtinit", "control", "aes", "mark", "mode", "flash", "load", "fabric",
          "search", "scan"} \cup Started

SiliconKnown ==
  /\ pc \in Known => g.Silicon_Version = hw.version
  /\ pc # "rom" /\ g.PcapAes => g.Silicon_Version = hw.version
  /\ g.Silicon_Version \in {SILICON_VERSION_1, hw.version}

\* MULTIBOOT is at most as far behind the flash as there were faults, and where
\* a fallback begins there is room for its increment.
SlotBound ==
  hw.mode \in FlashModes =>
    /\ multiboot <= FlashSlots + faults
    /\ pc \in {"fallback", "multiboot"} => multiboot < FlashSlots + faults
    /\ pc \in (Loading \ {"lockdown"}) \cup Started => multiboot < FlashSlots
    /\ pc = "scan" => multiboot <= MultiBootReg /\ MultiBootReg <= FlashSlots + faults

\* Every call of FsblFallback is paid for by a slot it leaves behind or a fault.
DepthBound ==
  /\ pc = "rom" => depth = 0
  /\ hw.mode \notin FlashModes =>
       /\ depth <= faults + 1
       /\ pc \notin {"giveup", "tohook", "hook"} => depth <= faults
  /\ hw.mode \in FlashModes /\ hw.version # SILICON_VERSION_1 =>
       /\ depth <= FlashSlots + faults
       /\ pc = "fallback" => depth < FlashSlots + faults
       /\ pc # "multiboot" => depth <= multiboot + faults
       /\ pc = "multiboot" => depth <= multiboot + faults + 1
       /\ g.Silicon_Version = SILICON_VERSION_1 /\ pc # "rom" =>
            /\ depth <= faults
            /\ pc = "fallback" => depth < faults

SearchInv == LoadInv /\ SiliconKnown /\ SlotBound /\ DepthBound

\* The MULTIBOOT field is wider than the flash by more than the faults (13 bits,
\* against the few hundred slots of a boot flash).
NoWrap == FlashSlots + MaxFaults < MBootSlots

\* A slot of the flash is the slot its own number names.
LEMMA SlotOf == \A s \in Nat : s < MBootSlots => ImageBaseAddr(s) = s
BY DEF ImageBaseAddr

\* The four ways a boot mode goes on.
LEMMA BootModeStep ==
  ASSUME LoadInv, BootMode
  PROVE  /\ pc = "mode" /\ UNCHANGED <<registers, fixed, addr, faults, history>>
         /\ \/ /\ pc' = "flash"
               /\ \E ok \in BOOLEAN : g' = [g EXCEPT !.FlashReadBaseAddress = ok]
            \/ pc' \in {"postconfig", "stop"} /\ hw.mode = "jtag" /\ g' = g
            \/ pc' \in {"fallback", "unsent"} /\ g' = g
<1>1. /\ hw.mode \in AllModes /\ pc = "mode"
      /\ UNCHANGED <<registers, fixed, addr, faults, history>>
  BY DEF LoadInv, BootInv, BoardTyped, BootMode
<1>2. CASE hw.mode \in {"qspi", "nor"}
  BY <1>1, <1>2 DEF BootMode
<1>3. CASE hw.mode \in {"nand", "sd", "mmc"}
  BY <1>1, <1>3 DEF BootMode
<1>4. CASE hw.mode = "jtag"
  BY <1>1, <1>4 DEF BootMode
<1>5. CASE hw.mode = "illegal"
  BY <1>1, <1>5 DEF BootMode
<1>. QED  BY <1>1, <1>2, <1>3, <1>4, <1>5

LEMMA LoadInit == Init => SearchInv
<1>. SUFFICES ASSUME Init PROVE SearchInv
  OBVIOUS
<1>1. hw.version \in Versions /\ hw.mode \in Modes
  BY DEF Init
<1>2. Counted
  BY <1>1 DEF Init, Counted, Bss, Labels
<1>3. AtSlot /\ FlashUp
  BY <1>1 DEF Init, AtSlot, FlashUp, Bss, Loading, BeforeAes
<1>4. SiliconKnown /\ SlotBound /\ DepthBound
  BY <1>1 DEF Init, Bss, SiliconKnown, Known, Started, SlotBound, DepthBound, Loading,
              BeforeAes
<1>. QED  BY <1>2, <1>3, <1>4, BootInit DEF SearchInv, LoadInv

\* Labels, counters and slots are kept.
LEMMA CountedStep ==
  ASSUME LoadInv, [Next]_vars PROVE Counted'
<1>. USE DEF LoadInv, AtSlot, BootInv, BoardTyped, Counted, Labels
<1>1. CASE BootRom
  BY <1>1 DEF BootRom, Bss
<1>2. CASE Ps7Init \/ SlcrUnlock \/ RegisterHandlers \/ UartEnable
  BY <1>2 DEF Ps7Init, SlcrUnlock, RegisterHandlers, UartEnable
<1>20. CASE DDRInitCheck \/ InitPcap
  BY <1>20 DEF DDRInitCheck, InitPcap
<1>3. CASE GetSiliconVersion \/ CheckWDTReset \/ InitWatchDog
  BY <1>3 DEF GetSiliconVersion, CheckWDTReset, InitWatchDog
<1>4. CASE ReadControl \/ StopForAes \/ Mark
  BY <1>4 DEF ReadControl, StopForAes, Mark, MarkFSBLIn
<1>5. CASE BootMode
  BY <1>5, BootModeStep
<1>6. CASE CheckFlash
  BY <1>6 DEF CheckFlash
<1>7. CASE LoadBootImage
  BY <1>7 DEF LoadBootImage
<1>8. CASE PostConfig \/ PostUnlock \/ UserHook \/ StopWatchdog
  BY <1>8 DEF PostConfig, PostUnlock, UserHook, StopWatchdog
<1>9. CASE ClearMark \/ SlcrLock \/ HandoffExit
  BY <1>9 DEF ClearMark, ClearFSBLIn, SlcrLock, HandoffExit
<1>21. CASE GiveUp \/ FsblHookFallback
  BY <1>21 DEF GiveUp, ClearFSBLIn, FsblHookFallback
<1>10. CASE FallbackMode
  BY <1>10 DEF FallbackMode
<1>11. CASE UpdateMultiBoot
  BY <1>11 DEF UpdateMultiBoot
<1>12. CASE FallbackFail
  BY <1>12 DEF FallbackFail
<1>13. CASE FabricInit \/ SearchBegin
  BY <1>13 DEF FabricInit, SearchBegin
<1>14. CASE ScanSlot
  BY <1>14 DEF ScanSlot, HeaderPasses
<1>15. CASE FallbackReset
  <2>. USE <1>15 DEF FallbackReset
  <2>1. CASE locked
    BY <2>1
  <2>2. CASE ~locked
    BY <2>2
  <2>. QED  BY <2>1, <2>2
<1>16. CASE WdtReset
  BY <1>16 DEF WdtReset
<1>17. CASE Exception
  BY <1>17 DEF Exception, ErrorLockdown, Handled
<1>18. CASE IllegalReturn
  BY <1>18 DEF IllegalReturn
<1>19. CASE UNCHANGED vars
  BY <1>19 DEF vars
<1>. QED  BY StepCases, <1>1, <1>2, <1>3, <1>4, <1>5, <1>6, <1>7, <1>8, <1>9,
             <1>10, <1>11, <1>12, <1>13, <1>14, <1>15, <1>16, <1>17, <1>18, <1>19,
             <1>20, <1>21

\* MULTIBOOT changes to a slot of the flash, or in a fallback.
LEMMA AtSlotStep ==
  ASSUME LoadInv, [Next]_vars PROVE AtSlot'
<1>. USE DEF LoadInv, Counted, AtSlot, LockedTail, WatchdogOff, BootInv, BoardTyped,
             Loading, BeforeAes
<1>1. CASE BootRom
  BY <1>1, SlotOf DEF BootRom, Bss
<1>2. CASE Ps7Init \/ SlcrUnlock \/ RegisterHandlers \/ UartEnable
  BY <1>2 DEF Ps7Init, SlcrUnlock, RegisterHandlers, UartEnable
<1>20. CASE DDRInitCheck \/ InitPcap
  BY <1>20 DEF DDRInitCheck, InitPcap
<1>3. CASE GetSiliconVersion \/ CheckWDTReset \/ InitWatchDog
  BY <1>3 DEF GetSiliconVersion, CheckWDTReset, InitWatchDog
<1>4. CASE ReadControl \/ StopForAes \/ Mark
  BY <1>4 DEF ReadControl, StopForAes, Mark, MarkFSBLIn
<1>5. CASE BootMode
  BY <1>5, BootModeStep
<1>6. CASE CheckFlash
  BY <1>6 DEF CheckFlash
<1>7. CASE LoadBootImage
  BY <1>7 DEF LoadBootImage
<1>8. CASE PostConfig \/ PostUnlock \/ UserHook \/ StopWatchdog
  BY <1>8 DEF PostConfig, PostUnlock, UserHook, StopWatchdog
<1>9. CASE ClearMark \/ SlcrLock \/ HandoffExit
  BY <1>9 DEF ClearMark, ClearFSBLIn, SlcrLock, HandoffExit
<1>21. CASE GiveUp \/ FsblHookFallback
  BY <1>21 DEF GiveUp, ClearFSBLIn, FsblHookFallback
<1>10. CASE FallbackMode
  BY <1>10 DEF FallbackMode
<1>11. CASE UpdateMultiBoot
  BY <1>11 DEF UpdateMultiBoot
<1>12. CASE FallbackFail
  BY <1>12 DEF FallbackFail
<1>13. CASE FabricInit \/ SearchBegin
  BY <1>13 DEF FabricInit, SearchBegin
<1>14. CASE ScanSlot
  BY <1>14 DEF ScanSlot, HeaderPasses
<1>15. CASE FallbackReset
  BY <1>15 DEF FallbackReset
<1>16. CASE WdtReset
  BY <1>16 DEF WdtReset
<1>17. CASE Exception
  BY <1>17 DEF Exception, ErrorLockdown, Handled
<1>18. CASE IllegalReturn
  BY <1>18 DEF IllegalReturn
<1>19. CASE UNCHANGED vars
  BY <1>19 DEF vars
<1>. QED  BY StepCases, <1>1, <1>2, <1>3, <1>4, <1>5, <1>6, <1>7, <1>8, <1>9,
             <1>10, <1>11, <1>12, <1>13, <1>14, <1>15, <1>16, <1>17, <1>18, <1>19,
             <1>20, <1>21

\* SystemInitFlag is set once the flash address was checked.
LEMMA FlashUpStep ==
  ASSUME LoadInv, [Next]_vars PROVE FlashUp'
<1>. USE DEF LoadInv, Counted, FlashUp, BootInv, BoardTyped, WatchdogOff, LockedTail,
             BeforeMark, Locking, BeforeAes
<1>1. CASE BootRom
  BY <1>1 DEF BootRom, Bss
<1>2. CASE Ps7Init \/ SlcrUnlock \/ RegisterHandlers \/ UartEnable
  BY <1>2 DEF Ps7Init, SlcrUnlock, RegisterHandlers, UartEnable
<1>20. CASE DDRInitCheck \/ InitPcap
  BY <1>20 DEF DDRInitCheck, InitPcap
<1>3. CASE GetSiliconVersion \/ CheckWDTReset \/ InitWatchDog
  BY <1>3 DEF GetSiliconVersion, CheckWDTReset, InitWatchDog
<1>4. CASE ReadControl \/ StopForAes \/ Mark
  BY <1>4 DEF ReadControl, StopForAes, Mark, MarkFSBLIn
<1>5. CASE BootMode
  BY <1>5, BootModeStep
<1>6. CASE CheckFlash
  BY <1>6 DEF CheckFlash
<1>7. CASE LoadBootImage
  BY <1>7 DEF LoadBootImage
<1>8. CASE PostConfig \/ PostUnlock \/ UserHook \/ StopWatchdog
  BY <1>8 DEF PostConfig, PostUnlock, UserHook, StopWatchdog
<1>9. CASE ClearMark \/ SlcrLock \/ HandoffExit
  BY <1>9 DEF ClearMark, ClearFSBLIn, SlcrLock, HandoffExit
<1>21. CASE GiveUp \/ FsblHookFallback
  BY <1>21 DEF GiveUp, ClearFSBLIn, FsblHookFallback
<1>10. CASE FallbackMode
  BY <1>10 DEF FallbackMode
<1>11. CASE UpdateMultiBoot
  BY <1>11 DEF UpdateMultiBoot
<1>12. CASE FallbackFail
  BY <1>12 DEF FallbackFail
<1>13. CASE FabricInit \/ SearchBegin
  BY <1>13 DEF FabricInit, SearchBegin
<1>14. CASE ScanSlot
  BY <1>14 DEF ScanSlot, HeaderPasses
<1>15. CASE FallbackReset
  BY <1>15 DEF FallbackReset
<1>16. CASE WdtReset
  BY <1>16 DEF WdtReset
<1>17. CASE Exception
  BY <1>17 DEF Exception, ErrorLockdown, Handled
<1>18. CASE IllegalReturn
  BY <1>18 DEF IllegalReturn
<1>19. CASE UNCHANGED vars
  BY <1>19 DEF vars
<1>. QED  BY StepCases, <1>1, <1>2, <1>3, <1>4, <1>5, <1>6, <1>7, <1>8, <1>9,
             <1>10, <1>11, <1>12, <1>13, <1>14, <1>15, <1>16, <1>17, <1>18, <1>19,
             <1>20, <1>21

\* The silicon version is read before the fuse.
LEMMA SiliconStep ==
  ASSUME SearchInv, [Next]_vars PROVE SiliconKnown'
<1>. USE DEF SearchInv, LoadInv, Counted, BootInv, BoardTyped, WatchdogOff,
             SiliconKnown, Known, Started, BeforeAes, Bss
<1>1. CASE BootRom
  BY <1>1 DEF BootRom, Bss
<1>2. CASE Ps7Init \/ SlcrUnlock \/ RegisterHandlers \/ UartEnable
  BY <1>2 DEF Ps7Init, SlcrUnlock, RegisterHandlers, UartEnable
<1>20. CASE DDRInitCheck \/ InitPcap
  BY <1>20 DEF DDRInitCheck, InitPcap
<1>3. CASE GetSiliconVersion \/ CheckWDTReset \/ InitWatchDog
  BY <1>3 DEF GetSiliconVersion, CheckWDTReset, InitWatchDog
<1>4. CASE ReadControl \/ StopForAes \/ Mark
  BY <1>4 DEF ReadControl, StopForAes, Mark, MarkFSBLIn
<1>5. CASE BootMode
  BY <1>5, BootModeStep
<1>6. CASE CheckFlash
  BY <1>6 DEF CheckFlash
<1>7. CASE LoadBootImage
  BY <1>7 DEF LoadBootImage
<1>8. CASE PostConfig \/ PostUnlock \/ UserHook \/ StopWatchdog
  BY <1>8 DEF PostConfig, PostUnlock, UserHook, StopWatchdog
<1>9. CASE ClearMark \/ SlcrLock \/ HandoffExit
  BY <1>9 DEF ClearMark, ClearFSBLIn, SlcrLock, HandoffExit
<1>21. CASE GiveUp \/ FsblHookFallback
  BY <1>21 DEF GiveUp, ClearFSBLIn, FsblHookFallback
<1>10. CASE FallbackMode
  BY <1>10 DEF FallbackMode
<1>11. CASE UpdateMultiBoot
  BY <1>11 DEF UpdateMultiBoot
<1>12. CASE FallbackFail
  BY <1>12 DEF FallbackFail
<1>13. CASE FabricInit \/ SearchBegin
  BY <1>13 DEF FabricInit, SearchBegin
<1>14. CASE ScanSlot
  BY <1>14 DEF ScanSlot, HeaderPasses
<1>15. CASE FallbackReset
  BY <1>15 DEF FallbackReset
<1>16. CASE WdtReset
  BY <1>16 DEF WdtReset
<1>17. CASE Exception
  BY <1>17 DEF Exception, ErrorLockdown, Handled
<1>18. CASE IllegalReturn
  BY <1>18 DEF IllegalReturn
<1>19. CASE UNCHANGED vars
  BY <1>19 DEF vars
<1>. QED  BY StepCases, <1>1, <1>2, <1>3, <1>4, <1>5, <1>6, <1>7, <1>8, <1>9,
             <1>10, <1>11, <1>12, <1>13, <1>14, <1>15, <1>16, <1>17, <1>18, <1>19,
             <1>20, <1>21

\* MULTIBOOT moves on by a slot in a fallback, and to a slot in a search.
LEMMA SlotStep ==
  ASSUME NoWrap, SearchInv, [Next]_vars PROVE SlotBound'
<1>. USE DEF SearchInv, LoadInv, Counted, BootInv, BoardTyped, LockedTail, SlotBound,
             Loading, Started, BeforeAes
<1>1. CASE BootRom
  BY <1>1, SlotOf DEF NoWrap, BootRom, Bss
<1>2. CASE Ps7Init \/ SlcrUnlock \/ RegisterHandlers \/ UartEnable
  BY <1>2 DEF Ps7Init, SlcrUnlock, RegisterHandlers, UartEnable
<1>20. CASE DDRInitCheck \/ InitPcap
  BY <1>20 DEF DDRInitCheck, InitPcap
<1>3. CASE GetSiliconVersion \/ CheckWDTReset \/ InitWatchDog
  BY <1>3 DEF GetSiliconVersion, CheckWDTReset, InitWatchDog
<1>4. CASE ReadControl \/ StopForAes \/ Mark
  BY <1>4 DEF ReadControl, StopForAes, Mark, MarkFSBLIn
<1>5. CASE BootMode
  BY <1>5, BootModeStep
<1>6. CASE CheckFlash
  BY <1>6 DEF CheckFlash
<1>7. CASE LoadBootImage
  BY <1>7 DEF LoadBootImage
<1>8. CASE PostConfig \/ PostUnlock \/ UserHook \/ StopWatchdog
  BY <1>8 DEF PostConfig, PostUnlock, UserHook, StopWatchdog
<1>9. CASE ClearMark \/ SlcrLock \/ HandoffExit
  BY <1>9 DEF ClearMark, ClearFSBLIn, SlcrLock, HandoffExit
<1>21. CASE GiveUp \/ FsblHookFallback
  BY <1>21 DEF GiveUp, ClearFSBLIn, FsblHookFallback
<1>10. CASE FallbackMode
  BY <1>10 DEF FallbackMode
<1>11. CASE UpdateMultiBoot
  BY <1>11 DEF UpdateMultiBoot
<1>12. CASE FallbackFail
  BY <1>12 DEF FallbackFail
<1>13. CASE FabricInit \/ SearchBegin
  BY <1>13 DEF FabricInit, SearchBegin
<1>14. CASE ScanSlot
  <2>. SUFFICES ASSUME hw.mode \in FlashModes PROVE SlotBound'
    BY <1>14 DEF ScanSlot
  <2>1. MultiBootReg < MBootSlots
    BY <1>14 DEF ScanSlot, NoWrap
  <2>2. ImageBaseAddr(MultiBootReg) = MultiBootReg
    BY <2>1, SlotOf
  <2>. HIDE DEF SearchInv
  <2>3. /\ pc = "scan" /\ hw' = hw
        /\ faults <= faults' /\ faults \in Nat /\ faults' \in Nat
        /\ multiboot <= MultiBootReg /\ MultiBootReg <= FlashSlots + faults
        /\ multiboot \in Nat /\ MultiBootReg \in Nat
    BY <1>14 DEF ScanSlot, HeaderPasses, SearchInv
  <2>4. \/ /\ pc' = "load" /\ multiboot' = MultiBootReg /\ MultiBootReg < FlashSlots
        \/ /\ pc' = "scan" /\ multiboot' = multiboot /\ MultiBootReg < FlashSlots
           /\ MultiBootReg' = MultiBootReg + 1
        \/ pc' = "giveup" /\ multiboot' = multiboot
    BY <1>14, <2>2 DEF ScanSlot
  <2>. QED  BY <2>3, <2>4 DEF SlotBound, Loading, Started, BeforeAes
<1>15. CASE FallbackReset
  BY <1>15 DEF FallbackReset
<1>16. CASE WdtReset
  BY <1>16 DEF WdtReset
<1>17. CASE Exception
  BY <1>17 DEF Exception, ErrorLockdown, Handled
<1>18. CASE IllegalReturn
  BY <1>18 DEF IllegalReturn
<1>19. CASE UNCHANGED vars
  BY <1>19 DEF vars
<1>. QED  BY StepCases, <1>1, <1>2, <1>3, <1>4, <1>5, <1>6, <1>7, <1>8, <1>9,
             <1>10, <1>11, <1>12, <1>13, <1>14, <1>15, <1>16, <1>17, <1>18, <1>19,
             <1>20, <1>21

\* A fallback is entered after a fault or from a slot that is left behind.
LEMMA DepthStep ==
  ASSUME NoWrap, SearchInv, [Next]_vars PROVE DepthBound'
<1>. USE DEF SearchInv, LoadInv, Counted, BootInv, BoardTyped, WatchdogOff,
             SiliconKnown, Known, SlotBound, DepthBound, Loading, Started, BeforeAes
<1>1. CASE BootRom
  BY <1>1 DEF BootRom, Bss
<1>2. CASE Ps7Init \/ SlcrUnlock \/ RegisterHandlers \/ UartEnable
  BY <1>2 DEF Ps7Init, SlcrUnlock, RegisterHandlers, UartEnable
<1>20. CASE DDRInitCheck \/ InitPcap
  BY <1>20 DEF DDRInitCheck, InitPcap
<1>3. CASE GetSiliconVersion \/ CheckWDTReset \/ InitWatchDog
  BY <1>3 DEF GetSiliconVersion, CheckWDTReset, InitWatchDog
<1>4. CASE ReadControl \/ StopForAes \/ Mark
  BY <1>4 DEF ReadControl, StopForAes, Mark, MarkFSBLIn
<1>5. CASE BootMode
  BY <1>5, BootModeStep
<1>6. CASE CheckFlash
  BY <1>6 DEF CheckFlash
<1>7. CASE LoadBootImage
  BY <1>7 DEF LoadBootImage
<1>8. CASE PostConfig \/ PostUnlock \/ UserHook \/ StopWatchdog
  BY <1>8 DEF PostConfig, PostUnlock, UserHook, StopWatchdog
<1>9. CASE ClearMark \/ SlcrLock \/ HandoffExit
  BY <1>9 DEF ClearMark, ClearFSBLIn, SlcrLock, HandoffExit
<1>21. CASE GiveUp \/ FsblHookFallback
  BY <1>21 DEF GiveUp, ClearFSBLIn, FsblHookFallback
<1>10. CASE FallbackMode
  BY <1>10 DEF FallbackMode
<1>11. CASE UpdateMultiBoot
  BY <1>11 DEF UpdateMultiBoot
<1>12. CASE FallbackFail
  BY <1>12 DEF FallbackFail
<1>13. CASE FabricInit \/ SearchBegin
  BY <1>13 DEF FabricInit, SearchBegin
<1>14. CASE ScanSlot
  BY <1>14 DEF ScanSlot, HeaderPasses
<1>15. CASE FallbackReset
  BY <1>15 DEF FallbackReset
<1>16. CASE WdtReset
  BY <1>16 DEF WdtReset
<1>17. CASE Exception
  BY <1>17 DEF Exception, ErrorLockdown, Handled
<1>18. CASE IllegalReturn
  BY <1>18 DEF IllegalReturn
<1>19. CASE UNCHANGED vars
  BY <1>19 DEF vars
<1>. QED  BY StepCases, <1>1, <1>2, <1>3, <1>4, <1>5, <1>6, <1>7, <1>8, <1>9,
             <1>10, <1>11, <1>12, <1>13, <1>14, <1>15, <1>16, <1>17, <1>18, <1>19,
             <1>20, <1>21

LEMMA LoadStep == ASSUME LoadInv, [Next]_vars PROVE LoadInv'
<1>1. BootInv'
  BY TypedStep, WatchdogStep, DriverStep, MarkStep, LockedStep, ReportingStep
     DEF LoadInv, BootInv
<1>. QED  BY <1>1, AtSlotStep, FlashUpStep, CountedStep DEF LoadInv

LEMMA LoadTypes == LoadInv => TypeOK
<1>. SUFFICES ASSUME LoadInv PROVE TypeOK
  OBVIOUS
<1>1. pc = "load" => /\ g.FlashReadBaseAddress
                     /\ hw.mode \in FlashModes => ImageBaseAddr(multiboot) < FlashSlots
  BY DEF LoadInv, FlashUp, AtSlot, Loading
<1>2. g \in [Silicon_Version : Versions \cup {SILICON_VERSION_1}, PcapAes : BOOLEAN,
             SystemInitFlag : BOOLEAN, BitstreamFlag : BOOLEAN, devcfg : BOOLEAN,
             FlashReadBaseAddress : BOOLEAN]
  BY DEF LoadInv, BootInv, BoardTyped, Counted
<1>3. mark \subseteq FSBL_FAIL_MASK /\ {locked, wdt, tx, marked} \subseteq BOOLEAN
      /\ struck \subseteq Windows
  BY DEF LoadInv, BootInv, BoardTyped
<1>. QED  BY <1>1, <1>2, <1>3 DEF TypeOK, LoadInv, Counted

\* The boot loader's globals, the registers and the labels keep their types, and
\* an image is loaded from a slot of the flash, with the flash initialized.
THEOREM Typing == Spec => []TypeOK
<1>1. LoadInv /\ [Next]_vars => LoadInv'
  BY LoadStep
<1>2. Init => LoadInv
  BY LoadInit DEF SearchInv
<1>3. LoadInv => TypeOK
  BY LoadTypes
<1>. QED  BY <1>1, <1>2, <1>3, PTL DEF Spec

\* From silicon 2.0 on the calls of FsblFallback nested in one boot are bounded by
\* the slots of the flash and the faults: the search does not meet an image twice.
THEOREM SearchIsBounded == ASSUME NoWrap PROVE Spec => []SearchBounded
<1>1. SearchInv /\ [Next]_vars => SearchInv'
  <2>. SUFFICES ASSUME SearchInv, [Next]_vars PROVE SearchInv'
    OBVIOUS
  <2>1. LoadInv'
    BY LoadStep DEF SearchInv
  <2>. QED  BY <2>1, SiliconStep, SlotStep, DepthStep DEF SearchInv
<1>2. SearchInv => SearchBounded
  BY DEF SearchInv, LoadInv, BootInv, BoardTyped, Counted, DepthBound, SearchBounded
<1>. QED  BY <1>1, <1>2, LoadInit, PTL DEF Spec
=============================================================================
