---------------------------- MODULE UioPlatform ----------------------------
(***************************************************************************)
(* The UIO platform layer: fpga_platform_init and fpga_platform_cleanup    *)
(* with everything they acquire and release, the interrupt thread they     *)
(* create and join, and the calls an application makes in between          *)
(* (fpga_register_isr, fpga_enable_interrupt, fpga_disable_interrupt).     *)
(*                                                                         *)
(* Application and interrupt thread share s_intFlags (under a lock), the   *)
(* semaphore g_intSem and, without any lock, the entry of the interface    *)
(* vector.  The kernel's UIO driver is modelled from its use: a fired      *)
(* interrupt is disabled until the thread writes 1, and a file handle only *)
(* reports interrupts that fired after it was opened.  Interrupts are      *)
(* level-triggered; the registered ISR acknowledges the device.            *)
(***************************************************************************)
EXTENDS Integers

CONSTANTS
  MaxInits,   \* bound: calls of fpga_platform_init
  Failures    \* the system calls that may fail

ASSUME PlatformAssumption ==
  /\ MaxInits \in Nat \ {0}
  /\ Failures \subseteq {"sysfs", "open", "mmap", "create", "lock", "reopen", "write", "wait"}

VARIABLES
  (* application thread *)
  app,         \* the step it has reached
  inits,       \* bound counter
  path,        \* s_uio_drv_path is not NULL
  single,      \* s_uio_single_component_mode
  drv,         \* s_uio_drv_handle: -1, an open file, or the number of a closed one
  threadId,    \* s_intThread_id: 0, a thread not yet joined, or no thread's id
  (* shared *)
  vec,         \* the interface vector has its entry
  isr, enable, \* isr_callback (registered or NULL) and interrupt_enable of that entry
  exitFlag,    \* s_intFlags & FPGA_PLATFORM_INT_THREAD_EXIT
  sem,         \* g_intSem
  (* interrupt thread *)
  th,          \* the step it has reached
  sawExit,     \* its copy of the flag
  (* device and kernel *)
  irq,         \* the device asserts its interrupt
  armed,       \* the interrupt is enabled in the kernel
  event        \* one fired since the thread opened its file handle

initVars   == <<inits, path, single, drv, threadId>>
entryVars  == <<vec, isr, enable>>
threadVars == <<th, sawExit>>
deviceVars == <<irq, armed, event>>
vars == <<app, initVars, entryVars, exitFlag, sem, threadVars, deviceVars>>

MayFail(call) == call \in Failures

Init ==
  /\ app = "off" /\ inits = 0
  /\ path = TRUE /\ single = TRUE /\ drv = "none" /\ threadId = "zero"
  /\ vec = FALSE /\ isr = FALSE /\ enable = FALSE
  /\ exitFlag = FALSE /\ sem = 0
  /\ th = "none" /\ sawExit = FALSE
  /\ irq = FALSE /\ armed = FALSE /\ event = FALSE

----------------------------------------------------------------------------
(* fpga_platform_init *)

\* uio_parse_args, uio_update_based_on_sysfs and uio_validate_args.  Arguments
\* can set the path and the mode but not clear them.  Without an address span
\* the span is looked up under the path's name, and strrchr is not asked
\* whether there is one.
ParseArgs(pathGiven, spanGiven, singleGiven) ==
  /\ app \in {"off", "failed"} /\ inits < MaxInits
  /\ inits' = inits + 1
  /\ path' = (path \/ pathGiven)
  /\ single' = (single \/ singleGiven)
  /\ \/ spanGiven /\ app' = IF path' THEN "open" ELSE "failed"
     \/ ~spanGiven /\ path' /\ app' = "open"
     \/ ~spanGiven /\ path' /\ MayFail("sysfs") /\ app' = "failed"
     \/ ~spanGiven /\ ~path' /\ app' = "crashed"
  /\ UNCHANGED <<drv, threadId, entryVars, exitFlag, sem, threadVars, deviceVars>>

uio_open_driver ==
  /\ app = "open"
  /\ \/ drv' = "open" /\ app' = "map"
     \/ MayFail("open") /\ drv' = "none" /\ app' = "failed"
  /\ UNCHANGED <<inits, path, single, threadId, entryVars, exitFlag, sem, threadVars, deviceVars>>

\* On failure the handle is closed and keeps its number.
uio_map_mmio ==
  /\ app = "map"
  /\ \/ app' = "scan" /\ UNCHANGED drv
     \/ MayFail("mmap") /\ drv' = "closed" /\ app' = "failed"
  /\ UNCHANGED <<inits, path, single, threadId, entryVars, exitFlag, sem, threadVars, deviceVars>>

\* The vector gets one entry of zeros.
uio_scan_interfaces ==
  /\ app = "scan"
  /\ vec' = single /\ isr' = FALSE /\ enable' = FALSE
  /\ app' = IF single THEN "create" ELSE "ready"
  /\ UNCHANGED <<initVars, exitFlag, sem, threadVars, deviceVars>>

\* When it fails fpga_platform_init still returns true.  What a failing
\* pthread_create leaves in s_intThread_id is unspecified.
uio_create_interrupt_thread ==
  /\ app = "create"
  /\ app' = "ready"
  /\ sem' = 0 /\ exitFlag' = FALSE
  /\ \/ threadId' = "live" /\ th' = "top"
     \/ MayFail("create") /\ threadId' \in {threadId, "none"} /\ UNCHANGED th
  /\ UNCHANGED <<inits, path, single, drv, entryVars, sawExit, deviceVars>>

----------------------------------------------------------------------------
(* The application's calls; without an entry they return -1. *)

fpga_register_isr ==
  /\ app = "ready" /\ vec
  /\ isr' = TRUE
  /\ UNCHANGED <<app, initVars, vec, enable, exitFlag, sem, threadVars, deviceVars>>

fpga_disable_interrupt ==
  /\ app = "ready" /\ vec
  /\ enable' = FALSE
  /\ UNCHANGED <<app, initVars, vec, isr, exitFlag, sem, threadVars, deviceVars>>

fpga_enable_interrupt ==
  /\ app = "ready" /\ vec
  /\ enable' = TRUE
  /\ app' = "enable_getvalue"
  /\ UNCHANGED <<initVars, vec, isr, exitFlag, sem, threadVars, deviceVars>>

\* sem_getvalue, then sem_post only for retVal <= 0.  Mutant: for retVal < 0.
NeedsPost_below == sem < 0
NeedsPost == sem <= 0

\* Mutant: the value is not looked at.
EnableGetValue_always ==
  /\ app = "enable_getvalue"
  /\ app' = "enable_post"
  /\ UNCHANGED <<initVars, entryVars, exitFlag, sem, threadVars, deviceVars>>

EnableGetValue ==
  /\ app = "enable_getvalue"
  /\ app' = IF NeedsPost THEN "enable_post" ELSE "ready"
  /\ UNCHANGED <<initVars, entryVars, exitFlag, sem, threadVars, deviceVars>>

EnablePost ==
  /\ app = "enable_post"
  /\ app' = "ready"
  /\ sem' = sem + 1
  /\ UNCHANGED <<initVars, entryVars, exitFlag, threadVars, deviceVars>>

----------------------------------------------------------------------------
(* fpga_platform_cleanup *)

\* main also calls it when it never came to call fpga_platform_init.
fpga_platform_cleanup ==
  /\ app \in {"ready", "failed"} \/ (app = "off" /\ inits = 0)
  /\ app' = IF threadId # "zero" THEN "cleanup_flag" ELSE "cleanup_free"
  /\ UNCHANGED <<initVars, entryVars, exitFlag, sem, threadVars, deviceVars>>

\* The flag is set under the lock; without the lock the program exits.
CleanupSetFlag ==
  /\ app = "cleanup_flag"
  /\ \/ app' = "cleanup_post" /\ exitFlag' = TRUE /\ UNCHANGED th
     \/ MayFail("lock") /\ app' = "crashed" /\ th' = "exited" /\ UNCHANGED exitFlag
  /\ UNCHANGED <<initVars, entryVars, sem, sawExit, deviceVars>>

\* Mutant: as in fpga_enable_interrupt, and for a value below zero only.
CleanupPost_below ==
  /\ app = "cleanup_post"
  /\ app' = "join"
  /\ sem' = IF NeedsPost_below THEN sem + 1 ELSE sem
  /\ UNCHANGED <<initVars, entryVars, exitFlag, threadVars, deviceVars>>

\* status is 0 after the unlocking, so that sem_getvalue is skipped, retVal is
\* its initial 0, and the semaphore is posted whatever its value.
CleanupPost ==
  /\ app = "cleanup_post"
  /\ app' = "join"
  /\ sem' = sem + 1
  /\ UNCHANGED <<initVars, entryVars, exitFlag, threadVars, deviceVars>>

\* Mutant: pthread_detach instead of pthread_join.
Join_detach ==
  /\ app = "join"
  /\ app' = "cleanup_free"
  /\ threadId' = "none"
  /\ UNCHANGED <<inits, path, single, drv, entryVars, exitFlag, sem, threadVars, deviceVars>>

\* pthread_join returns when the thread has ended, or at once with an error
\* (if nothing worse) when the id names no thread.  The id is not cleared.
Join ==
  /\ app = "join"
  /\ threadId = "live" => th = "exited"
  /\ app' = "cleanup_free"
  /\ threadId' = "none"
  /\ UNCHANGED <<inits, path, single, drv, entryVars, exitFlag, sem, threadVars, deviceVars>>

\* The driver's file is closed, the variables reset, the vector freed.
CleanupFree ==
  /\ app = "cleanup_free"
  /\ app' = "off"
  /\ drv' = "none" /\ path' = FALSE /\ single' = FALSE
  /\ vec' = FALSE /\ isr' = FALSE /\ enable' = FALSE
  /\ UNCHANGED <<inits, threadId, exitFlag, sem, threadVars, deviceVars>>

----------------------------------------------------------------------------
(* uio_interrupt_thread *)

ThreadGoes(from, to) ==
  /\ th = from /\ th' = to
  /\ UNCHANGED <<app, initVars, entryVars, exitFlag>>

ThreadDies(from, call) == MayFail(call) /\ ThreadGoes(from, "exited") /\ UNCHANGED <<sem, sawExit, deviceVars>>

ReadFlags ==
  \/ ThreadGoes("top", "check") /\ sawExit' = exitFlag /\ UNCHANGED <<sem, deviceVars>>
  \/ ThreadDies("top", "lock")

\* Mutant: an enabled interrupt is served before the exit flag is looked at.
CheckFlags_enable_first ==
  /\ ThreadGoes("check", IF enable THEN "open" ELSE IF sawExit THEN "exited" ELSE "wait")
  /\ UNCHANGED <<sem, sawExit, deviceVars>>

\* The flag as it was read, interrupt_enable as it is now.
CheckFlags ==
  /\ ThreadGoes("check", IF sawExit THEN "exited" ELSE IF enable THEN "open" ELSE "wait")
  /\ UNCHANGED <<sem, sawExit, deviceVars>>

SemWait ==
  \/ sem > 0 /\ ThreadGoes("wait", "top") /\ sem' = sem - 1 /\ UNCHANGED <<sawExit, deviceVars>>
  \/ ThreadDies("wait", "wait")

OpenUio ==
  \/ ThreadGoes("open", "arm") /\ event' = FALSE /\ UNCHANGED <<sem, sawExit, irq, armed>>
  \/ ThreadDies("open", "reopen")

\* Mutant: the interrupt is not enabled again.
WriteArm_forgotten ==
  ThreadGoes("arm", "poll") /\ UNCHANGED <<sem, sawExit, deviceVars>>

\* The write that enables the interrupt again.
WriteArm ==
  \/ ThreadGoes("arm", "poll") /\ armed' = TRUE /\ UNCHANGED <<sem, sawExit, irq, event>>
  \/ ThreadDies("arm", "write")

\* poll returns for an event or after 100 ms, in which an interrupt that is
\* asserted and enabled has fired.
Poll ==
  /\ ThreadGoes("poll", IF event THEN "call" ELSE "top")
  /\ event \/ ~(irq /\ armed)
  /\ UNCHANGED <<sem, sawExit, deviceVars>>

\* Without a registered ISR the thread ends.
CallIsr ==
  /\ ThreadGoes("call", IF isr THEN "top" ELSE "exited")
  /\ irq' = (irq /\ ~isr)
  /\ UNCHANGED <<sem, sawExit, armed, event>>

----------------------------------------------------------------------------
(* Device and kernel *)

DeviceAsserts ==
  /\ ~irq /\ irq' = TRUE
  /\ UNCHANGED <<app, initVars, entryVars, exitFlag, sem, threadVars, armed, event>>

InterruptFires ==
  /\ irq /\ armed
  /\ armed' = FALSE /\ event' = TRUE
  /\ UNCHANGED <<app, initVars, entryVars, exitFlag, sem, threadVars, irq>>

----------------------------------------------------------------------------
InitSteps ==
  \/ \E p, s, c \in BOOLEAN : ParseArgs(p, s, c)
  \/ uio_open_driver \/ uio_map_mmio \/ uio_scan_interfaces \/ uio_create_interrupt_thread

CleanupSteps == CleanupSetFlag \/ CleanupPost \/ Join \/ CleanupFree

EnableSteps == EnableGetValue \/ EnablePost

ThreadSteps ==
  ReadFlags \/ CheckFlags \/ SemWait \/ OpenUio \/ WriteArm \/ Poll \/ CallIsr

Next ==
  \/ InitSteps
  \/ fpga_register_isr \/ fpga_disable_interrupt \/ fpga_enable_interrupt \/ EnableSteps
  \/ fpga_platform_cleanup \/ CleanupSteps
  \/ ThreadSteps
  \/ DeviceAsserts \/ InterruptFires

Spec == Init /\ [][Next]_vars

\* Both threads are scheduled, the kernel delivers interrupts, and an ISR
\* returns; what the application calls and when is up to it.
Fairness ==
  /\ WF_vars(CleanupSteps) /\ WF_vars(EnableSteps)
  /\ WF_vars(ThreadSteps) /\ WF_vars(InterruptFires)

FairSpec == Spec /\ Fairness

----------------------------------------------------------------------------
(* Properties *)

AppSteps ==
  {"off", "open", "map", "scan", "create", "ready", "failed", "crashed",
   "enable_getvalue", "enable_post", "cleanup_flag", "cleanup_post", "join", "cleanup_free"}

\* Types; and, until the thread is told to leave, the semaphore never exceeds
\* 1, although fpga_enable_interrupt samples and posts it in two steps.
TypeOK ==
  /\ app \in AppSteps /\ inits \in 0..MaxInits
  /\ path \in BOOLEAN /\ single \in BOOLEAN
  /\ drv \in {"none", "open", "closed"} /\ threadId \in {"zero", "live", "none"}
  /\ vec \in BOOLEAN /\ isr \in BOOLEAN /\ enable \in BOOLEAN
  /\ exitFlag \in BOOLEAN /\ sem \in Nat
  /\ ~exitFlag => sem \in {0, 1}
  /\ th \in {"none", "top", "check", "wait", "open", "arm", "poll", "call", "exited"}
  /\ sawExit \in BOOLEAN
  /\ irq \in BOOLEAN /\ armed \in BOOLEAN /\ event \in BOOLEAN

Alive == th \notin {"none", "exited"}

\* The interrupt thread never looks at an interface entry that has been freed:
\* it reads interrupt_enable and isr_callback without a lock, and only the
\* join in fpga_platform_cleanup keeps the vector alive for it.
EntryOutlivesThread == Alive => vec

\* No wake-up is lost: when the thread sleeps on the empty semaphore and no
\* call that would wake it is under way, there is nothing to wake up for.  The
\* thread decides to sleep on what it read before, and fpga_enable_interrupt
\* does not post when it saw a post still unused.
Waking == {"enable_getvalue", "enable_post", "cleanup_post"}
NoLostWakeup == th = "wait" /\ sem = 0 /\ app \notin Waking => ~enable /\ ~exitFlag

Cleaning == app \in {"cleanup_flag", "cleanup_post", "join", "cleanup_free"}

\* Once the flag is set and posted, the thread that is being joined does not
\* sleep on the semaphore, and each of its steps (two of which wait for the
\* kernel) brings it nearer to its end, of which it is at most seven away.
Remaining ==
  CASE th = "exited" -> 0
    [] th = "check"  -> IF sawExit THEN 1 ELSE 7
    [] th = "top"    -> 2
    [] th \in {"wait", "call"} -> 3
    [] th = "poll"   -> 4
    [] th = "arm"    -> 5
    [] th = "open"   -> 6
    [] OTHER         -> 0

JoinedAwake == app = "join" => ~(th = "wait" /\ sem = 0)
JoinedNearsEnd == [][app = "join" /\ ThreadSteps => Remaining' < Remaining]_vars

\* fpga_platform_cleanup returns: its pthread_join cannot wait for ever.  (Only
\* a lock that cannot be taken ends the program instead.)
CleanupReturns == Cleaning ~> app \in {"off", "crashed"}

\* An interrupt asserted while interrupts are enabled is served, whatever was
\* enabled, disabled and missed before, even when it fired between two polls
\* and the handle it fired on was closed.
Due == irq /\ enable /\ isr /\ Alive /\ ~exitFlag
InterruptServed == Due ~> ~Due

\* fpga_platform_cleanup joins the thread fpga_platform_init created and no
\* other: "Re-initialize local variables." ends it, so that both can be called
\* again.
JoinsItsThread == app = "join" => threadId = "live"
=============================================================================
