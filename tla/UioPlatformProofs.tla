------------------------- MODULE UioPlatformProofs -------------------------
(***************************************************************************)
(* The safety properties of UioPlatform, for any number of initialisations *)
(* and any set of failing system calls.                                    *)
(***************************************************************************)
EXTENDS UioPlatform, TLAPS

\* The steps of the application between a successful creation of the thread
\* and the end of its join.
Running ==
  {"ready", "enable_getvalue", "enable_post", "cleanup_flag", "cleanup_post", "join"}

\* A living thread is the one s_intThread_id names, its entry exists, and the
\* application has not passed the join.
ThreadOwned == Alive => threadId = "live" /\ vec /\ app \in Running

\* The vector is filled before the thread is created.
FilledFirst == app = "create" => vec

\* fpga_enable_interrupt has seen the semaphore empty, and nobody else posts;
\* fpga_platform_cleanup has set the flag before it posts and joins.
PosterSawEmpty ==
  /\ app = "enable_post" => sem = 0
  /\ app \in {"cleanup_post", "join"} => exitFlag

\* A living thread is only told to leave by the cleanup that is under way.
ExitIsCleanup == Alive /\ exitFlag => app \in {"cleanup_post", "join"}

\* With no post under way or unused, a thread that must leave has seen the flag
\* or is going to read it before it sleeps.
WillSeeExit ==
  exitFlag /\ sem = 0 /\ app \notin Waking => th # "wait" /\ (th = "check" => sawExit)

\* ... and one with an enabled interrupt is not asleep.
WillSeeEnable == enable /\ sem = 0 /\ app \notin Waking => th # "wait"

ControlInv ==
  /\ ThreadOwned /\ FilledFirst /\ PosterSawEmpty
  /\ ExitIsCleanup /\ WillSeeExit /\ WillSeeEnable

Inv == TypeOK /\ ControlInv

USE PlatformAssumption

LEMMA InvInit == Init => Inv
<1> SUFFICES ASSUME Init PROVE Inv
  OBVIOUS
<1>1. inits \in 0..MaxInits
  BY DEF Init
<1>2. TypeOK
  BY <1>1, Zenon DEF Init, TypeOK, AppSteps
<1>3. ControlInv
  BY DEF Init, ControlInv, ThreadOwned, FilledFirst, PosterSawEmpty, ExitIsCleanup, WillSeeExit,
         WillSeeEnable, Alive
<1> QED
  BY <1>2, <1>3 DEF Inv

LEMMA InvNext == Inv /\ [Next]_vars => Inv'
<1> USE DEF Inv, ControlInv, TypeOK, AppSteps, ThreadOwned, FilledFirst, PosterSawEmpty, ExitIsCleanup,
            WillSeeExit, WillSeeEnable, Alive, Running, Waking,
            initVars, entryVars, threadVars, deviceVars, MayFail
<1> SUFFICES ASSUME Inv, [Next]_vars PROVE Inv'
  OBVIOUS
<1>1. ASSUME NEW p \in BOOLEAN, NEW s \in BOOLEAN, NEW c \in BOOLEAN, ParseArgs(p, s, c)
      PROVE  Inv'
  BY <1>1 DEF ParseArgs
<1>2. CASE uio_open_driver
  BY <1>2 DEF uio_open_driver
<1>3. CASE uio_map_mmio
  BY <1>3 DEF uio_map_mmio
<1>4. CASE uio_scan_interfaces
  <2>1. TypeOK'
    <3>1. vec' \in BOOLEAN /\ isr' \in BOOLEAN /\ enable' \in BOOLEAN
      BY <1>4, Zenon DEF uio_scan_interfaces
    <3> QED
      BY <1>4, <3>1 DEF uio_scan_interfaces
  <2>2. ControlInv'
    BY <1>4 DEF uio_scan_interfaces
  <2> QED
    BY <2>1, <2>2 DEF Inv
<1>5. CASE uio_create_interrupt_thread
  <2>1. TypeOK'
    <3>1. exitFlag' \in BOOLEAN
      BY <1>5, Zenon DEF uio_create_interrupt_thread
    <3> QED
      BY <1>5, <3>1 DEF uio_create_interrupt_thread
  <2>2. ControlInv'
    BY <1>5 DEF uio_create_interrupt_thread
  <2> QED
    BY <2>1, <2>2 DEF Inv
<1>6. CASE fpga_register_isr
  BY <1>6 DEF fpga_register_isr
<1>7. CASE fpga_disable_interrupt
  <2>1. TypeOK'
    <3>1. enable' \in BOOLEAN
      BY <1>7, Zenon DEF fpga_disable_interrupt
    <3> QED
      BY <1>7, <3>1 DEF fpga_disable_interrupt
  <2>2. ControlInv'
    BY <1>7 DEF fpga_disable_interrupt
  <2> QED
    BY <2>1, <2>2 DEF Inv
<1>8. CASE fpga_enable_interrupt
  BY <1>8 DEF fpga_enable_interrupt
<1>9. CASE EnableGetValue
  BY <1>9 DEF EnableGetValue, NeedsPost
<1>10. CASE EnablePost
  BY <1>10 DEF EnablePost
<1>11. CASE fpga_platform_cleanup
  BY <1>11 DEF fpga_platform_cleanup
<1>12. CASE CleanupSetFlag
  <2>1. TypeOK'
    <3>1. exitFlag' \in BOOLEAN
      BY <1>12, Zenon DEF CleanupSetFlag
    <3> QED
      BY <1>12, <3>1 DEF CleanupSetFlag
  <2>2. ControlInv'
    BY <1>12 DEF CleanupSetFlag
  <2> QED
    BY <2>1, <2>2 DEF Inv
<1>13. CASE CleanupPost
  BY <1>13 DEF CleanupPost
<1>14. CASE Join
  BY <1>14 DEF Join
<1>15. CASE CleanupFree
  BY <1>15 DEF CleanupFree
<1>16. CASE ReadFlags
  BY <1>16 DEF ReadFlags, ThreadGoes, ThreadDies
<1>17. CASE CheckFlags
  BY <1>17 DEF CheckFlags, ThreadGoes
<1>18. CASE SemWait
  BY <1>18 DEF SemWait, ThreadGoes, ThreadDies
<1>19. CASE OpenUio
  <2>1. TypeOK'
    <3>1. event' \in BOOLEAN
      BY <1>19, Zenon DEF OpenUio, ThreadGoes, ThreadDies
    <3> QED
      BY <1>19, <3>1 DEF OpenUio, ThreadGoes, ThreadDies
  <2>2. ControlInv'
    BY <1>19 DEF OpenUio, ThreadGoes, ThreadDies
  <2> QED
    BY <2>1, <2>2 DEF Inv
<1>20. CASE WriteArm
  <2>1. TypeOK'
    <3>1. armed' \in BOOLEAN
      BY <1>20, Zenon DEF WriteArm, ThreadGoes, ThreadDies
    <3> QED
      BY <1>20, <3>1 DEF WriteArm, ThreadGoes, ThreadDies
  <2>2. ControlInv'
    BY <1>20 DEF WriteArm, ThreadGoes, ThreadDies
  <2> QED
    BY <2>1, <2>2 DEF Inv
<1>21. CASE Poll
  BY <1>21 DEF Poll, ThreadGoes
<1>22. CASE CallIsr
  BY <1>22 DEF CallIsr, ThreadGoes
<1>23. CASE DeviceAsserts
  BY <1>23 DEF DeviceAsserts
<1>24. CASE InterruptFires
  <2>1. TypeOK'
    <3>1. armed' \in BOOLEAN /\ event' \in BOOLEAN
      BY <1>24, Zenon DEF InterruptFires
    <3> QED
      BY <1>24, <3>1 DEF InterruptFires
  <2>2. ControlInv'
    BY <1>24 DEF InterruptFires
  <2> QED
    BY <2>1, <2>2 DEF Inv
<1>25. CASE UNCHANGED vars
  BY <1>25 DEF vars
<1> QED
  BY <1>1, <1>2, <1>3, <1>4, <1>5, <1>6, <1>7, <1>8, <1>9, <1>10, <1>11, <1>12, <1>13,
     <1>14, <1>15, <1>16, <1>17, <1>18, <1>19, <1>20, <1>21, <1>22, <1>23, <1>24, <1>25, Zenon
  DEF Next, InitSteps, EnableSteps, CleanupSteps, ThreadSteps

\* The inductive invariant of the platform layer: fpga_platform_init, cleanup,
\* the application's calls and uio_interrupt_thread preserve all of Inv.
THEOREM PlatformInvariant == Spec => []Inv
  BY InvInit, InvNext, PTL DEF Spec

\* Types, and the semaphore never exceeds 1 before fpga_platform_cleanup posts
\* it, although fpga_enable_interrupt samples and posts it in separate steps.
THEOREM SemaphoreIsBinary == Spec => []TypeOK
<1>1. Inv => TypeOK
  BY DEF Inv
<1> QED
  BY PlatformInvariant, <1>1, PTL

\* uio_interrupt_thread never reads a freed interface entry: the end of
\* fpga_platform_cleanup cannot overtake its join.
THEOREM EntryKept == Spec => []EntryOutlivesThread
<1>1. Inv => EntryOutlivesThread
  BY DEF Inv, ControlInv, ThreadOwned, EntryOutlivesThread
<1> QED
  BY PlatformInvariant, <1>1, PTL

\* The interrupt thread never sleeps through an enabled interrupt or a request
\* to leave, although the posting side skips sem_post when it sees a post that
\* the thread has not used yet.
THEOREM WakeUpsKept == Spec => []NoLostWakeup
<1>1. Inv => NoLostWakeup
  BY DEF Inv, ControlInv, WillSeeExit, WillSeeEnable, NoLostWakeup
<1> QED
  BY PlatformInvariant, <1>1, PTL

\* fpga_platform_cleanup never joins a thread that sleeps on the semaphore with
\* nobody left to post it.
THEOREM JoinFindsItAwake == Spec => []JoinedAwake
<1>1. Inv => JoinedAwake
  BY DEF Inv, ControlInv, PosterSawEmpty, WillSeeExit, Waking, JoinedAwake
<1> QED
  BY PlatformInvariant, <1>1, PTL

\* With the flag set each step of uio_interrupt_thread brings it nearer to its
\* end, whatever interrupts, failures and enabled entries it meets on the way.
LEMMA ThreadNearsEnd ==
  ASSUME exitFlag, ThreadSteps
  PROVE  Remaining' < Remaining
<1>1. CASE ReadFlags
  <2>1. th = "top" /\ (th' = "exited" \/ (th' = "check" /\ sawExit'))
    BY <1>1 DEF ReadFlags, ThreadGoes, ThreadDies
  <2> QED BY <2>1 DEF Remaining
<1>2. CASE CheckFlags
  <2>1. /\ th = "check" /\ (sawExit => th' = "exited")
        /\ th' \in {"exited", "open", "wait"}
    BY <1>2 DEF CheckFlags, ThreadGoes
  <2>2. CASE sawExit
    BY <2>1, <2>2 DEF Remaining
  <2>3. CASE ~sawExit
    BY <2>1, <2>3 DEF Remaining
  <2> QED BY <2>2, <2>3
<1>3. CASE SemWait
  <2>1. th = "wait" /\ th' \in {"top", "exited"}
    BY <1>3, Zenon DEF SemWait, ThreadGoes, ThreadDies
  <2> QED BY <2>1 DEF Remaining
<1>4. CASE OpenUio
  <2>1. th = "open" /\ th' \in {"arm", "exited"}
    BY <1>4, Zenon DEF OpenUio, ThreadGoes, ThreadDies
  <2> QED BY <2>1 DEF Remaining
<1>5. CASE WriteArm
  <2>1. th = "arm" /\ th' \in {"poll", "exited"}
    BY <1>5, Zenon DEF WriteArm, ThreadGoes, ThreadDies
  <2> QED BY <2>1 DEF Remaining
<1>6. CASE Poll
  <2>1. th = "poll" /\ th' \in {"call", "top"}
    BY <1>6 DEF Poll, ThreadGoes
  <2> QED BY <2>1 DEF Remaining
<1>7. CASE CallIsr
  <2>1. th = "call" /\ th' \in {"top", "exited"}
    BY <1>7 DEF CallIsr, ThreadGoes
  <2> QED BY <2>1 DEF Remaining
<1> QED
  BY <1>1, <1>2, <1>3, <1>4, <1>5, <1>6, <1>7 DEF ThreadSteps

\* So the join takes at most seven more steps of the thread it waits for.
THEOREM JoinComesToAnEnd == Spec => JoinedNearsEnd
<1>1. Inv /\ [Next]_vars => [app = "join" /\ ThreadSteps => Remaining' < Remaining]_vars
  <2> SUFFICES ASSUME Inv, app = "join", ThreadSteps
               PROVE  Remaining' < Remaining
    OBVIOUS
  <2>1. exitFlag
    BY DEF Inv, ControlInv, PosterSawEmpty
  <2> QED
    BY <2>1, ThreadNearsEnd
<1> QED
  BY PlatformInvariant, <1>1, PTL DEF Spec, JoinedNearsEnd
=============================================================================
