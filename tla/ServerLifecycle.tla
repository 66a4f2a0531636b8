-------------------------- MODULE ServerLifecycle --------------------------
(***************************************************************************)
(* The life of the process: main's start and end of platform and server,   *)
(* and SIGINT, whose handler cleans up the platform, deletes the server    *)
(* object and exits, wherever main is at that moment.                      *)
(*                                                                         *)
(* Three contexts execute the same clean-up code: main itself, the handler *)
(* on main's thread ("sigMain", while which main stands still) and the     *)
(* handler on the interrupt thread ("sigInt").  SIGINT is blocked for the  *)
(* thread that is handling it.  As Linux does, a signal is delivered to    *)
(* the main thread unless that has it blocked.                             *)
(*                                                                         *)
(* Sessions (ClientSessions, ServerLoop) and the inner steps of platform   *)
(* and interrupt thread (UioPlatform) are abstracted: of the thread only   *)
(* its look at the exit flag under the read lock remains.                  *)
(***************************************************************************)
EXTENDS Integers

CONSTANTS
  MaxSigs,   \* bound: SIGINTs sent
  Failures   \* the calls that may fail

ASSUME LifecycleAssumption ==
  /\ MaxSigs \in Nat
  /\ Failures \subseteq {"args", "platform", "thread", "sigaction", "bind", "malloc", "init_driver"}

VARIABLES
  pc,         \* for each context the step it has reached
  ended,      \* "no", or how the process ended
  (* platform *)
  drv,        \* the UIO driver is open
  vec,        \* the interface vector: none, its entry closed, or opened
  threadId,   \* s_intThread_id: zero, a thread, or a thread already joined
  exitFlag,   \* s_intFlags & FPGA_PLATFORM_INT_THREAD_EXIT
  lock,       \* the thread that holds s_intLock for writing
  th,         \* the interrupt thread
  reader,     \* it holds s_intLock for reading
  (* server *)
  installed,  \* the SIGINT handler
  obj,        \* s_etherlink_server: null, live, or pointing to a deleted object
  conn,       \* s_server_conn_ptr: null, valid, or dangling
  bufs,       \* the send and receive buffers: none, held, or freed but not NULL yet
  fd,         \* server_fd: none, open, or closed but not INVALID_SOCKET yet
  (* history *)
  sigs,       \* SIGINTs sent
  caught,     \* one was delivered to the interrupt thread inside its read lock
  faults      \* accesses through bad pointers and second releases

platformVars == <<drv, vec, threadId, exitFlag, lock>>
threadVars   == <<th, reader>>
serverVars   == <<obj, conn, bufs, fd>>
signalVars   == <<installed, sigs, caught>>
vars == <<pc, ended, platformVars, threadVars, serverVars, signalVars, faults>>

Contexts == {"main", "sigMain", "sigInt"}
ThreadOf(c) == IF c = "sigInt" THEN "int" ELSE "main"
MayFail(call) == call \in Failures

Init ==
  /\ pc = [c \in Contexts |-> IF c = "main" THEN "args" ELSE "none"]
  /\ ended = "no"
  /\ drv = FALSE /\ vec = "none" /\ threadId = "zero" /\ exitFlag = FALSE /\ lock = "free"
  /\ th = "none" /\ reader = FALSE
  /\ installed = FALSE /\ obj = "null" /\ conn = "null" /\ bufs = "none" /\ fd = "none"
  /\ sigs = 0 /\ caught = FALSE /\ faults = {}

At(c, label) ==
  /\ ended = "no" /\ pc[c] = label
  /\ c = "main" => pc["sigMain"] = "none"
Goto(c, label) == pc' = [pc EXCEPT ![c] = label]
Goes(c, from, to) == At(c, from) /\ Goto(c, to) /\ UNCHANGED ended

\* The process ends; Fault is undefined behaviour on the way.
Ends(how) == ended' = how /\ UNCHANGED pc
Fault(f) == faults' = faults \cup {f}

----------------------------------------------------------------------------
(* main and run_etherlink *)

parse_cmd_args ==
  /\ Goes("main", "args", "init") \/ (MayFail("args") /\ Goes("main", "args", "cleanup"))
  /\ UNCHANGED <<platformVars, threadVars, serverVars, signalVars, faults>>

\* On failure everything is released again; without its thread the platform is
\* considered initialised all the same (UioPlatform has the id that is left then).
fpga_platform_init ==
  /\ \/ /\ Goes("main", "init", "install")
        /\ drv' = TRUE /\ vec' = "closed"
        /\ \/ threadId' = "thread" /\ th' = "running"
           \/ MayFail("thread") /\ UNCHANGED <<threadId, th>>
     \/ /\ MayFail("platform") /\ Goes("main", "init", "cleanup")
        /\ UNCHANGED <<drv, vec, threadId, th>>
  /\ UNCHANGED <<exitFlag, lock, reader, serverVars, signalVars, faults>>

install_sigint_handler ==
  /\ Goes("main", "install", "new")
  /\ installed' = TRUE \/ (MayFail("sigaction") /\ UNCHANGED installed)
  /\ UNCHANGED <<platformVars, threadVars, serverVars, sigs, caught, faults>>

NewServer ==
  /\ Goes("main", "new", "open")
  /\ obj' = "live"
  /\ UNCHANGED <<platformVars, threadVars, conn, bufs, fd, signalVars, faults>>

fpga_open ==
  /\ Goes("main", "open", "listen")
  /\ vec' = IF vec = "closed" THEN "opened" ELSE vec
  /\ UNCHANGED <<drv, threadId, exitFlag, lock, threadVars, serverVars, signalVars, faults>>

\* If it fails it closes the socket it may have made, and run returns an error.
initialize_server ==
  /\ \/ Goes("main", "listen", "enter") /\ fd' = "open"
     \/ MayFail("bind") /\ Goes("main", "listen", "delete") /\ UNCHANGED fd
  /\ UNCHANGED <<platformVars, threadVars, obj, conn, bufs, signalVars, faults>>

\* Mutant: only the end of server_main sets the pointer.
EnterServerMain_unset ==
  /\ Goes("main", "enter", "alloc")
  /\ UNCHANGED <<platformVars, threadVars, serverVars, signalVars, faults>>

\* server_main takes the address of a variable of the function that calls it.
EnterServerMain ==
  /\ Goes("main", "enter", "alloc")
  /\ conn' = "valid"
  /\ UNCHANGED <<platformVars, threadVars, obj, bufs, fd, signalVars, faults>>

\* If it fails server_main and its caller return and leave the pointer behind.
alloc_tcpip_recv_send_buffer ==
  /\ \/ Goes("main", "alloc", "serve") /\ bufs' = "held" /\ UNCHANGED conn
     \/ MayFail("malloc") /\ Goes("main", "alloc", "delete") /\ conn' = "dangling" /\ UNCHANGED bufs
  /\ UNCHANGED <<platformVars, threadVars, obj, fd, signalVars, faults>>

\* Clients are served for ever, until init_driver fails.
StopServing ==
  /\ MayFail("init_driver") /\ Goes("main", "serve", "close")
  /\ UNCHANGED <<platformVars, threadVars, serverVars, signalVars, faults>>

CloseListener ==
  /\ Goes("main", "close", "closed")
  /\ fd' = "closed"
  /\ UNCHANGED <<platformVars, threadVars, obj, conn, bufs, signalVars, faults>>

LeaveServerMain ==
  /\ Goes("main", "closed", "delete")
  /\ fd' = "none" /\ conn' = "dangling"
  /\ UNCHANGED <<platformVars, threadVars, obj, bufs, signalVars, faults>>

----------------------------------------------------------------------------
(* delete s_etherlink_server: ~StreamingDebug calls terminate *)

fpga_close(c) ==
  /\ Goes(c, "delete", "buffers")
  /\ vec' = IF vec = "opened" THEN "closed" ELSE vec
  /\ IF obj = "deleted" THEN Fault("second delete") ELSE UNCHANGED faults
  /\ UNCHANGED <<drv, threadId, exitFlag, lock, threadVars, serverVars, signalVars>>

\* free and the assignment of NULL are two steps.
free_tcpip_recv_send_buffer(c) ==
  /\ bufs # "freed"
  /\ Goes(c, "buffers", IF bufs = "held" THEN "freed" ELSE "socket")
  /\ bufs' = IF bufs = "held" THEN "freed" ELSE bufs
  /\ UNCHANGED <<platformVars, threadVars, obj, conn, fd, signalVars, faults>>

\* Mutant: free alone.
ClearBuffers_not_null(c) ==
  /\ Goes(c, "freed", "socket")
  /\ UNCHANGED <<platformVars, threadVars, serverVars, signalVars, faults>>

ClearBuffers(c) ==
  /\ Goes(c, "freed", "socket")
  /\ bufs' = "none"
  /\ UNCHANGED <<platformVars, threadVars, obj, conn, fd, signalVars, faults>>

DoubleFree(c) ==
  /\ At(c, "buffers") /\ bufs = "freed"
  /\ Fault("second free") /\ Ends("crashed")
  /\ UNCHANGED <<platformVars, threadVars, serverVars, signalVars>>

\* server_terminate looks for the listening socket where the pointer says.  A
\* socket closed a moment ago cannot be closed again, which is reported.
server_terminate(c) ==
  /\ conn = "valid"
  /\ Goes(c, "socket", IF fd = "open" THEN "shut" ELSE "clear")
  /\ fd' = IF fd = "open" THEN "closed" ELSE fd
  /\ UNCHANGED <<platformVars, threadVars, obj, conn, bufs, signalVars, faults>>

\* A variable that is no more: any file may get closed.
StrayClose(c) ==
  /\ conn = "dangling"
  /\ Goes(c, "socket", "clear")
  /\ Fault("dangling")
  /\ UNCHANGED <<platformVars, threadVars, serverVars, signalVars>>

NullDereference(c) ==
  /\ At(c, "socket") /\ conn = "null"
  /\ Fault("null") /\ Ends("crashed")
  /\ UNCHANGED <<platformVars, threadVars, serverVars, signalVars>>

InvalidateSocket(c) ==
  /\ Goes(c, "shut", "clear")
  /\ fd' = "none"
  /\ UNCHANGED <<platformVars, threadVars, obj, conn, bufs, signalVars, faults>>

ClearConn(c) ==
  /\ Goes(c, "clear", "free")
  /\ conn' = "null"
  /\ UNCHANGED <<platformVars, threadVars, obj, bufs, fd, signalVars, faults>>

FreeServer(c) ==
  /\ Goes(c, "free", "forget")
  /\ obj' = "deleted"
  /\ UNCHANGED <<platformVars, threadVars, conn, bufs, fd, signalVars, faults>>

\* s_etherlink_server = nullptr; then main cleans up, and a handler exits.
ForgetServer(c) ==
  /\ At(c, "forget")
  /\ obj' = "null"
  /\ IF c = "main" THEN Goto(c, "cleanup") /\ UNCHANGED ended ELSE Ends("exit 0")
  /\ UNCHANGED <<platformVars, threadVars, conn, bufs, fd, signalVars, faults>>

----------------------------------------------------------------------------
(* fpga_platform_cleanup *)

fpga_platform_cleanup(c) ==
  /\ Goes(c, "cleanup", IF threadId = "zero" THEN "release" ELSE "lock")
  /\ UNCHANGED <<platformVars, threadVars, serverVars, signalVars, faults>>

\* Mutant: a read lock.
LockFlags_shared(c) ==
  /\ Goes(c, "lock", "flag")
  /\ lock = "free" /\ lock' = ThreadOf(c)
  /\ UNCHANGED <<drv, vec, threadId, exitFlag, threadVars, serverVars, signalVars, faults>>

\* pthread_rwlock_wrlock waits for others, its own thread as a reader included.
LockFlags(c) ==
  /\ Goes(c, "lock", "flag")
  /\ lock = "free" /\ ~reader
  /\ lock' = ThreadOf(c)
  /\ UNCHANGED <<drv, vec, threadId, exitFlag, threadVars, serverVars, signalVars, faults>>

\* A thread that holds it for writing gets EDEADLK: the program exits.
LockFails(c) ==
  /\ At(c, "lock") /\ lock = ThreadOf(c)
  /\ Ends("exit 1")
  /\ UNCHANGED <<platformVars, threadVars, serverVars, signalVars, faults>>

\* Mutant: the flag is not set.
SetExitFlag_forgotten(c) ==
  /\ Goes(c, "flag", "join")
  /\ lock' = "free"
  /\ UNCHANGED <<drv, vec, threadId, exitFlag, threadVars, serverVars, signalVars, faults>>

\* Mutant: the thread is not waited for.
SetExitFlag_no_join(c) ==
  /\ Goes(c, "flag", "release")
  /\ exitFlag' = TRUE /\ lock' = "free"
  /\ UNCHANGED <<drv, vec, threadId, threadVars, serverVars, signalVars, faults>>

\* Mutant: the lock is kept.
SetExitFlag_locked(c) ==
  /\ Goes(c, "flag", "join")
  /\ exitFlag' = TRUE
  /\ UNCHANGED <<lock, drv, vec, threadId, threadVars, serverVars, signalVars, faults>>

SetExitFlag(c) ==
  /\ Goes(c, "flag", "join")
  /\ exitFlag' = TRUE /\ lock' = "free"
  /\ UNCHANGED <<drv, vec, threadId, threadVars, serverVars, signalVars, faults>>

\* Mutant: it is joined with a timeout.
JoinThread_timed(c) ==
  /\ Goes(c, "join", "release")
  /\ threadId' = IF th = "exited" THEN "joined" ELSE threadId
  /\ UNCHANGED <<drv, vec, exitFlag, lock, threadVars, serverVars, signalVars, faults>>

\* pthread_join waits for the thread to end, but a thread that joins itself
\* gets EDEADLK, which is only reported.
JoinThread(c) ==
  /\ threadId = "thread"
  /\ Goes(c, "join", "release")
  /\ th = "exited" \/ ThreadOf(c) = "int"
  /\ threadId' = IF th = "exited" THEN "joined" ELSE threadId
  /\ UNCHANGED <<drv, vec, exitFlag, lock, threadVars, serverVars, signalVars, faults>>

\* s_intThread_id still names the thread that was joined: anything may happen.
JoinAgain(c) ==
  /\ threadId = "joined" /\ At(c, "join")
  /\ Fault("second join")
  /\ (Goto(c, "release") /\ UNCHANGED ended) \/ Ends("crashed")
  /\ UNCHANGED <<platformVars, threadVars, serverVars, signalVars>>

\* The driver is closed and the vector freed.  main returns, a handler goes on.
ReleasePlatform(c) ==
  /\ At(c, "release")
  /\ drv' = FALSE /\ vec' = "none"
  /\ \/ c = "main" /\ Ends("returned")
     \/ c # "main" /\ obj = "null" /\ Ends("exit 0")
     \/ c # "main" /\ obj # "null" /\ Goto(c, "delete") /\ UNCHANGED ended
  /\ UNCHANGED <<threadId, exitFlag, lock, threadVars, serverVars, signalVars, faults>>

----------------------------------------------------------------------------
(* SIGINT and the interrupt thread *)

Sigint ==
  /\ ended = "no" /\ sigs < MaxSigs
  /\ sigs' = sigs + 1
  /\ \/ ~installed /\ Ends("killed") /\ UNCHANGED caught
     \/ /\ installed /\ pc["sigMain"] = "none"
        /\ Goto("sigMain", "cleanup") /\ UNCHANGED <<ended, caught>>
     \/ /\ installed /\ pc["sigMain"] # "none"
        /\ th = "running" /\ pc["sigInt"] = "none"
        /\ Goto("sigInt", "cleanup") /\ caught' = reader /\ UNCHANGED ended
  /\ UNCHANGED <<platformVars, threadVars, serverVars, installed, faults>>

ThreadRuns == ended = "no" /\ th = "running" /\ pc["sigInt"] = "none"

ThreadLocks ==
  /\ ThreadRuns /\ ~reader /\ lock = "free"
  /\ reader' = TRUE
  /\ UNCHANGED <<pc, ended, platformVars, th, serverVars, signalVars, faults>>

\* It reads the flag, releases the lock, and ends if the flag is set.
ThreadReadsFlag ==
  /\ ThreadRuns /\ reader
  /\ reader' = FALSE
  /\ th' = IF exitFlag THEN "exited" ELSE th
  /\ UNCHANGED <<pc, ended, platformVars, serverVars, signalVars, faults>>

----------------------------------------------------------------------------
StartSteps ==
  \/ parse_cmd_args \/ fpga_platform_init \/ install_sigint_handler \/ NewServer
  \/ fpga_open \/ initialize_server \/ EnterServerMain \/ alloc_tcpip_recv_send_buffer
  \/ StopServing \/ CloseListener \/ LeaveServerMain

DeleteSteps(c) ==
  \/ fpga_close(c) \/ free_tcpip_recv_send_buffer(c) \/ ClearBuffers(c) \/ DoubleFree(c)
  \/ server_terminate(c) \/ StrayClose(c) \/ NullDereference(c) \/ InvalidateSocket(c)
  \/ ClearConn(c) \/ FreeServer(c) \/ ForgetServer(c)

CleanupSteps(c) ==
  \/ fpga_platform_cleanup(c) \/ LockFlags(c) \/ LockFails(c) \/ SetExitFlag(c)
  \/ JoinThread(c) \/ JoinAgain(c) \/ ReleasePlatform(c)

ThreadSteps == ThreadLocks \/ ThreadReadsFlag

Next ==
  \/ StartSteps
  \/ \E c \in Contexts : DeleteSteps(c) \/ CleanupSteps(c)
  \/ Sigint \/ ThreadSteps

Spec == Init /\ [][Next]_vars

\* Both threads are scheduled.  Between two looks at the flag the interrupt
\* thread sleeps, so that a writer gets the lock in the end.
Fairness ==
  /\ WF_vars(ThreadSteps)
  /\ \A c \in {"sigMain", "sigInt"} :
       WF_vars(DeleteSteps(c) \/ CleanupSteps(c)) /\ SF_vars(LockFlags(c))

FairSpec == Spec /\ Fairness

----------------------------------------------------------------------------
(* Properties *)

StartLabels == {"args", "init", "install", "new", "open", "listen", "enter"}
InServerMain == {"alloc", "serve", "close", "closed"}
DeleteLabels == {"delete", "buffers", "freed", "socket", "shut", "clear", "free", "forget"}
CleanupLabels == {"cleanup", "lock", "flag", "join", "release"}

\* Types; and nobody reads the flag while somebody writes it.
TypeOK ==
  /\ pc \in [Contexts -> StartLabels \cup InServerMain \cup DeleteLabels \cup CleanupLabels \cup {"none"}]
  /\ ended \in {"no", "killed", "crashed", "exit 0", "exit 1", "returned"}
  /\ drv \in BOOLEAN /\ vec \in {"none", "closed", "opened"}
  /\ threadId \in {"zero", "thread", "joined"} /\ exitFlag \in BOOLEAN
  /\ lock \in {"free", "main", "int"}
  /\ th \in {"none", "running", "exited"} /\ reader \in BOOLEAN
  /\ installed \in BOOLEAN /\ obj \in {"null", "live", "deleted"}
  /\ conn \in {"null", "valid", "dangling"}
  /\ bufs \in {"none", "held", "freed"} /\ fd \in {"none", "open", "closed"}
  /\ sigs \in 0..MaxSigs /\ caught \in BOOLEAN
  /\ faults \subseteq {"null", "dangling", "second delete", "second free", "second join"}
  /\ lock # "free" => ~reader

\* SIGINT in server_main, from its first statement to its last, is handled
\* without an access through a bad pointer or a second release, however many
\* follow (etherlink_sig_handler, server_terminate, fpga_platform_cleanup).
\* Before and after it is not: see the README.
ServingSigintIsSafe ==
  pc["main"] \in InServerMain => faults = {} /\ ended \notin {"crashed", "exit 1"}

\* The process then exits with everything released.
ServingSigintReleases ==
  pc["main"] \in InServerMain /\ ended = "exit 0" =>
    bufs = "none" /\ fd # "open" /\ ~drv /\ vec = "none" /\ obj = "null" /\ conn = "null"

\* The handlers of two SIGINTs never both get past the join: the one on the
\* main thread waits for the other's thread, which is why s_etherlink_server,
\* tested and cleared without a lock, is deleted by one of them only.
PastJoin(c) == pc[c] \in {"release"} \cup DeleteLabels
OneHandlerDeletes == ~(PastJoin("sigMain") /\ PastJoin("sigInt"))

\* Nobody waits in a circle: whenever the clean-up waits for the lock or for the
\* thread, in main, in a handler or in both, there is someone else who can go
\* on (fpga_platform_cleanup's wrlock and join, on whichever thread), unless
\* SIGINT came to the interrupt thread inside its read lock.
Active(c) == ended = "no" /\ pc[c] # "none" /\ (c = "main" => pc["sigMain"] = "none")
Waits(c) ==
  \/ pc[c] = "lock" /\ lock # ThreadOf(c) /\ (lock # "free" \/ reader)
  \/ pc[c] = "join" /\ ThreadOf(c) = "main" /\ threadId = "thread" /\ th # "exited"
NoCircularWait ==
  ~caught =>
    \A c \in Contexts : Active(c) /\ Waits(c) =>
      \/ ThreadRuns /\ (reader \/ lock = "free")
      \/ \E d \in Contexts : Active(d) /\ ~Waits(d)

\* The interrupt thread never uses an interface entry that has been freed, also
\* when its own handler frees it.
EntryOutlivesThread == ThreadRuns => vec # "none"

\* SIGINT ends the process ("the program is terminating"), unless a second one
\* interrupts the interrupt thread inside its read lock.
SigintEnds == pc["sigMain"] # "none" ~> ended # "no" \/ caught
=============================================================================
