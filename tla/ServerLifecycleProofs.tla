----------------------- MODULE ServerLifecycleProofs -----------------------
(***************************************************************************)
(* The safety properties of ServerLifecycle, for any number of SIGINTs and *)
(* any set of failing calls.                                               *)
(*                                                                         *)
(* The argument has two layers.  Control orders the three contexts: a      *)
(* handler on the interrupt thread implies one on the main thread, and the *)
(* latter is past its join only when the interrupt thread is no longer     *)
(* running, hence not in a handler either.  ServeInv uses that at most one *)
(* handler deletes the server: each piece of state then follows from how   *)
(* far that handler is.                                                    *)
(***************************************************************************)
EXTENDS ServerLifecycle, TLAPS

HandlerLabels == CleanupLabels \cup DeleteLabels
Handlers == {"sigMain", "sigInt"}

\* Each context moves within its own steps.
Positions ==
  /\ pc["main"] \in StartLabels \cup InServerMain \cup DeleteLabels \cup CleanupLabels
  /\ \A c \in Handlers : pc[c] \in HandlerLabels \cup {"none"}

\* SIGINT is handled only once main has installed its handler; the main
\* thread takes the first one, a running interrupt thread may take the second.
HandlersOrdered ==
  /\ pc["sigInt"] # "none" => pc["sigMain"] # "none" /\ th = "running"
  /\ pc["sigMain"] # "none" => installed
  /\ installed => pc["main"] \notin {"args", "init", "install"}

\* What s_intThread_id says of the thread.
ThreadNamed ==
  /\ threadId = "zero" <=> th = "none"
  /\ threadId = "joined" => th = "exited"
  /\ pc["main"] \in {"args", "init"} => th = "none"

\* The write lock is held between its acquisition and the setting of the flag.
LockHeld ==
  /\ lock = "int" <=> pc["sigInt"] = "flag"
  /\ lock = "main" <=> (pc["main"] = "flag" \/ pc["sigMain"] = "flag")
  /\ ~(pc["main"] = "flag" /\ pc["sigMain"] = "flag")

\* The handler on the main thread gets past the join when the thread is gone.
JoinedFirst == PastJoin("sigMain") => th # "running"

\* Only the running thread reads under the lock, and it is caught at it when it
\* handles a signal meanwhile; a handler does not join while main, which it has
\* interrupted, writes.
ReaderRuns ==
  /\ reader => th = "running"
  /\ pc["sigInt"] # "none" /\ reader => caught
  /\ pc["main"] = "flag" => pc["sigMain"] # "join"

Control ==
  /\ Positions /\ HandlersOrdered /\ ThreadNamed /\ LockHeld /\ JoinedFirst /\ ReaderRuns
  /\ EntryOutlivesThread

HandlerAt(labels) == \E c \in Handlers : pc[c] \in labels

\* Before server_main and without a handler there is nothing to release yet.
StartState ==
  pc["main"] \in StartLabels /\ pc["sigMain"] = "none" =>
    /\ faults = {} /\ bufs = "none" /\ conn = "null" /\ threadId # "joined"
    /\ ended \in {"no", "killed"}
    /\ pc["main"] \in {"open", "listen", "enter"} => obj = "live"

\* In server_main, what the handler that deletes the server has released.
ServeState ==
  /\ conn = IF HandlerAt({"free", "forget"}) THEN "null" ELSE "valid"
  /\ obj = IF HandlerAt({"forget"}) THEN "deleted" ELSE "live"
  /\ bufs = "freed" <=> HandlerAt({"freed"})
  /\ HandlerAt({"socket", "shut", "clear", "free", "forget"}) => bufs = "none"
  /\ HandlerAt({"clear", "free", "forget"}) => fd # "open"
  /\ HandlerAt({"shut"}) => fd = "closed"
  /\ HandlerAt(DeleteLabels) => ~drv /\ vec = "none"
  /\ threadId = "joined" => PastJoin("sigMain")

Released ==
  bufs = "none" /\ fd # "open" /\ ~drv /\ vec = "none" /\ obj = "null" /\ conn = "null"

ServeInv ==
  /\ StartState
  /\ pc["main"] \in InServerMain =>
       /\ faults = {} /\ ended \in {"no", "killed", "exit 0"}
       /\ ended = "no" => ServeState
       /\ ended = "exit 0" => Released

\* TypeOK in the portions the provers take one at a time.
Labels == StartLabels \cup InServerMain \cup DeleteLabels \cup CleanupLabels \cup {"none"}
PcType == pc \in [Contexts -> Labels]
FlagTypes ==
  /\ drv \in BOOLEAN /\ exitFlag \in BOOLEAN /\ reader \in BOOLEAN
  /\ installed \in BOOLEAN /\ caught \in BOOLEAN
EndedType == ended \in {"no", "killed", "crashed", "exit 0", "exit 1", "returned"}
VecType == vec \in {"none", "closed", "opened"}
IdType == threadId \in {"zero", "thread", "joined"}
LockType == lock \in {"free", "main", "int"}
ThreadType == th \in {"none", "running", "exited"}
ObjType == obj \in {"null", "live", "deleted"}
ConnType == conn \in {"null", "valid", "dangling"}
BufsType == bufs \in {"none", "held", "freed"}
FdType == fd \in {"none", "open", "closed"}
SigsType == sigs \in 0..MaxSigs
FaultsType ==
  faults \subseteq {"null", "dangling", "second delete", "second free", "second join"}
WriterAlone == lock # "free" => ~reader

USE LifecycleAssumption

LEMMA TypeParts ==
  TypeOK <=> /\ PcType /\ FlagTypes /\ EndedType /\ VecType /\ IdType /\ LockType
             /\ ThreadType /\ ObjType /\ ConnType /\ BufsType /\ FdType /\ SigsType
             /\ FaultsType /\ WriterAlone
  BY Zenon DEF TypeOK, PcType, Labels, FlagTypes, EndedType, VecType, IdType, LockType, ThreadType,
               ObjType, ConnType, BufsType, FdType, SigsType, FaultsType, WriterAlone

LEMMA TypeInit == Init => TypeOK
<1>1. ASSUME Init PROVE PcType
  BY <1>1 DEF Init, PcType, Labels, Contexts, StartLabels
<1>2. ASSUME Init PROVE SigsType
  BY <1>2 DEF Init, SigsType
<1>3. ASSUME Init PROVE FlagTypes
  BY <1>3, Zenon DEF Init, FlagTypes
<1>4. ASSUME Init PROVE /\ EndedType /\ VecType /\ IdType /\ LockType /\ ThreadType /\ ObjType
                        /\ ConnType /\ BufsType /\ FdType /\ FaultsType /\ WriterAlone
  BY <1>4 DEF Init, EndedType, VecType, IdType, LockType, ThreadType, ObjType, ConnType, BufsType,
              FdType, FaultsType, WriterAlone
<1> QED
  BY TypeParts, <1>1, <1>2, <1>3, <1>4

LEMMA StartTypes == ASSUME TypeOK, StartSteps PROVE TypeOK'
<1> USE DEF At, Goto, Goes, Ends, Fault, MayFail, ThreadOf, ThreadRuns,
            platformVars, threadVars, serverVars, signalVars,
            StartSteps, parse_cmd_args, fpga_platform_init, install_sigint_handler, NewServer,
            fpga_open, initialize_server, EnterServerMain, alloc_tcpip_recv_send_buffer,
            StopServing, CloseListener, LeaveServerMain
<1>0. /\ PcType /\ FlagTypes /\ EndedType /\ VecType /\ IdType /\ LockType /\ ThreadType
      /\ ObjType /\ ConnType /\ BufsType /\ FdType /\ SigsType /\ FaultsType /\ WriterAlone
  BY TypeParts
<1>1. PcType'
  BY <1>0 DEF PcType, Labels, Contexts, StartLabels, InServerMain, DeleteLabels, CleanupLabels
<1>2. FlagTypes'
  BY <1>0, Zenon DEF FlagTypes
<1>3. EndedType'
  BY <1>0 DEF EndedType
<1>4. VecType'
  BY <1>0 DEF VecType
<1>5. IdType'
  BY <1>0 DEF IdType
<1>6. LockType'
  BY <1>0 DEF LockType
<1>7. ThreadType'
  BY <1>0 DEF ThreadType
<1>8. ObjType'
  BY <1>0 DEF ObjType
<1>9. ConnType'
  BY <1>0 DEF ConnType
<1>10. BufsType'
  BY <1>0 DEF BufsType
<1>11. FdType'
  BY <1>0 DEF FdType
<1>12. SigsType'
  BY <1>0 DEF SigsType
<1>13. FaultsType'
  BY <1>0 DEF FaultsType
<1>14. WriterAlone'
  BY <1>0 DEF WriterAlone
<1> QED
  BY <1>1, <1>2, <1>3, <1>4, <1>5, <1>6, <1>7, <1>8, <1>9, <1>10, <1>11, <1>12, <1>13, <1>14, Zenon
  DEF TypeOK, PcType, Labels, FlagTypes, EndedType, VecType, IdType, LockType, ThreadType,
      ObjType, ConnType, BufsType, FdType, SigsType, FaultsType, WriterAlone

LEMMA DeleteTypes == ASSUME TypeOK, NEW c \in Contexts, DeleteSteps(c) PROVE TypeOK'
<1> USE DEF At, Goto, Goes, Ends, Fault, MayFail, ThreadOf, ThreadRuns,
            platformVars, threadVars, serverVars, signalVars,
            DeleteSteps, fpga_close, free_tcpip_recv_send_buffer, ClearBuffers, DoubleFree,
            server_terminate, StrayClose, NullDereference, InvalidateSocket, ClearConn,
            FreeServer, ForgetServer
<1>0. /\ PcType /\ FlagTypes /\ EndedType /\ VecType /\ IdType /\ LockType /\ ThreadType
      /\ ObjType /\ ConnType /\ BufsType /\ FdType /\ SigsType /\ FaultsType /\ WriterAlone
  BY TypeParts
<1>1. PcType'
  <2>1. CASE fpga_close(c)
    BY <1>0, <2>1 DEF PcType, Labels, DeleteLabels, CleanupLabels
  <2>2. CASE free_tcpip_recv_send_buffer(c)
    BY <1>0, <2>2 DEF PcType, Labels, DeleteLabels, CleanupLabels
  <2>3. CASE ClearBuffers(c)
    BY <1>0, <2>3 DEF PcType, Labels, DeleteLabels, CleanupLabels
  <2>4. CASE DoubleFree(c)
    BY <1>0, <2>4 DEF PcType, Labels, DeleteLabels, CleanupLabels
  <2>5. CASE server_terminate(c)
    BY <1>0, <2>5 DEF PcType, Labels, DeleteLabels, CleanupLabels
  <2>6. CASE StrayClose(c)
    BY <1>0, <2>6 DEF PcType, Labels, DeleteLabels, CleanupLabels
  <2>7. CASE NullDereference(c)
    BY <1>0, <2>7 DEF PcType, Labels, DeleteLabels, CleanupLabels
  <2>8. CASE InvalidateSocket(c)
    BY <1>0, <2>8 DEF PcType, Labels, DeleteLabels, CleanupLabels
  <2>9. CASE ClearConn(c)
    BY <1>0, <2>9 DEF PcType, Labels, DeleteLabels, CleanupLabels
  <2>10. CASE FreeServer(c)
    BY <1>0, <2>10 DEF PcType, Labels, DeleteLabels, CleanupLabels
  <2>11. CASE ForgetServer(c)
    BY <1>0, <2>11 DEF PcType, Labels, DeleteLabels, CleanupLabels
  <2> QED
    BY <2>1, <2>2, <2>3, <2>4, <2>5, <2>6, <2>7, <2>8, <2>9, <2>10, <2>11
<1>2. FlagTypes'
  BY <1>0, Zenon DEF FlagTypes
<1>3. EndedType'
  BY <1>0 DEF EndedType
<1>4. VecType'
  BY <1>0 DEF VecType
<1>5. IdType'
  BY <1>0 DEF IdType
<1>6. LockType'
  BY <1>0 DEF LockType
<1>7. ThreadType'
  BY <1>0 DEF ThreadType
<1>8. ObjType'
  BY <1>0 DEF ObjType
<1>9. ConnType'
  BY <1>0 DEF ConnType
<1>10. BufsType'
  BY <1>0 DEF BufsType
<1>11. FdType'
  BY <1>0 DEF FdType
<1>12. SigsType'
  BY <1>0 DEF SigsType
<1>13. FaultsType'
  BY <1>0 DEF FaultsType
<1>14. WriterAlone'
  BY <1>0 DEF WriterAlone
<1> QED
  BY <1>1, <1>2, <1>3, <1>4, <1>5, <1>6, <1>7, <1>8, <1>9, <1>10, <1>11, <1>12, <1>13, <1>14, Zenon
  DEF TypeOK, PcType, Labels, FlagTypes, EndedType, VecType, IdType, LockType, ThreadType,
      ObjType, ConnType, BufsType, FdType, SigsType, FaultsType, WriterAlone

LEMMA CleanupTypes == ASSUME TypeOK, NEW c \in Contexts, CleanupSteps(c) PROVE TypeOK'
<1> USE DEF At, Goto, Goes, Ends, Fault, MayFail, ThreadOf, ThreadRuns,
            platformVars, threadVars, serverVars, signalVars,
            CleanupSteps, fpga_platform_cleanup, LockFlags, LockFails, SetExitFlag, JoinThread,
            JoinAgain, ReleasePlatform
<1>0. /\ PcType /\ FlagTypes /\ EndedType /\ VecType /\ IdType /\ LockType /\ ThreadType
      /\ ObjType /\ ConnType /\ BufsType /\ FdType /\ SigsType /\ FaultsType /\ WriterAlone
  BY TypeParts
<1>1. PcType'
  <2>1. CASE fpga_platform_cleanup(c)
    BY <1>0, <2>1 DEF PcType, Labels, DeleteLabels, CleanupLabels
  <2>2. CASE LockFlags(c)
    BY <1>0, <2>2 DEF PcType, Labels, DeleteLabels, CleanupLabels
  <2>3. CASE LockFails(c)
    BY <1>0, <2>3 DEF PcType, Labels, DeleteLabels, CleanupLabels
  <2>4. CASE SetExitFlag(c)
    BY <1>0, <2>4 DEF PcType, Labels, DeleteLabels, CleanupLabels
  <2>5. CASE JoinThread(c)
    BY <1>0, <2>5 DEF PcType, Labels, DeleteLabels, CleanupLabels
  <2>6. CASE JoinAgain(c)
    BY <1>0, <2>6 DEF PcType, Labels, DeleteLabels, CleanupLabels
  <2>7. CASE ReleasePlatform(c)
    BY <1>0, <2>7 DEF PcType, Labels, DeleteLabels, CleanupLabels
  <2> QED
    BY <2>1, <2>2, <2>3, <2>4, <2>5, <2>6, <2>7
<1>2. FlagTypes'
  BY <1>0, Zenon DEF FlagTypes
<1>3. EndedType'
  BY <1>0 DEF EndedType
<1>4. VecType'
  BY <1>0 DEF VecType
<1>5. IdType'
  BY <1>0 DEF IdType
<1>6. LockType'
  BY <1>0 DEF LockType
<1>7. ThreadType'
  BY <1>0 DEF ThreadType
<1>8. ObjType'
  BY <1>0 DEF ObjType
<1>9. ConnType'
  BY <1>0 DEF ConnType
<1>10. BufsType'
  BY <1>0 DEF BufsType
<1>11. FdType'
  BY <1>0 DEF FdType
<1>12. SigsType'
  BY <1>0 DEF SigsType
<1>13. FaultsType'
  BY <1>0 DEF FaultsType
<1>14. WriterAlone'
  BY <1>0 DEF WriterAlone
<1> QED
  BY <1>1, <1>2, <1>3, <1>4, <1>5, <1>6, <1>7, <1>8, <1>9, <1>10, <1>11, <1>12, <1>13, <1>14, Zenon
  DEF TypeOK, PcType, Labels, FlagTypes, EndedType, VecType, IdType, LockType, ThreadType,
      ObjType, ConnType, BufsType, FdType, SigsType, FaultsType, WriterAlone

LEMMA SignalTypes == ASSUME TypeOK, Sigint \/ ThreadSteps PROVE TypeOK'
<1> USE DEF At, Goto, Goes, Ends, Fault, MayFail, ThreadOf, ThreadRuns,
            platformVars, threadVars, serverVars, signalVars,
            ThreadSteps, Sigint, ThreadLocks, ThreadReadsFlag
<1>0. /\ PcType /\ FlagTypes /\ EndedType /\ VecType /\ IdType /\ LockType /\ ThreadType
      /\ ObjType /\ ConnType /\ BufsType /\ FdType /\ SigsType /\ FaultsType /\ WriterAlone
  BY TypeParts
<1>1. PcType'
  BY <1>0 DEF PcType, Labels, Contexts, StartLabels, InServerMain, DeleteLabels, CleanupLabels
<1>2. FlagTypes'
  BY <1>0, Zenon DEF FlagTypes
<1>3. EndedType'
  BY <1>0 DEF EndedType
<1>4. VecType'
  BY <1>0 DEF VecType
<1>5. IdType'
  BY <1>0 DEF IdType
<1>6. LockType'
  BY <1>0 DEF LockType
<1>7. ThreadType'
  BY <1>0 DEF ThreadType
<1>8. ObjType'
  BY <1>0 DEF ObjType
<1>9. ConnType'
  BY <1>0 DEF ConnType
<1>10. BufsType'
  BY <1>0 DEF BufsType
<1>11. FdType'
  BY <1>0 DEF FdType
<1>12. SigsType'
  BY <1>0 DEF SigsType
<1>13. FaultsType'
  BY <1>0 DEF FaultsType
<1>14. WriterAlone'
  BY <1>0 DEF WriterAlone
<1> QED
  BY <1>1, <1>2, <1>3, <1>4, <1>5, <1>6, <1>7, <1>8, <1>9, <1>10, <1>11, <1>12, <1>13, <1>14, Zenon
  DEF TypeOK, PcType, Labels, FlagTypes, EndedType, VecType, IdType, LockType, ThreadType,
      ObjType, ConnType, BufsType, FdType, SigsType, FaultsType, WriterAlone

LEMMA TypeNext == ASSUME TypeOK, [Next]_vars PROVE TypeOK'
<1>1. CASE UNCHANGED vars
  <2> USE <1>1 DEF vars, platformVars, threadVars, serverVars, signalVars
  <2>1. FlagTypes'
    BY TypeParts, Zenon DEF FlagTypes
  <2>2. PcType'
    BY TypeParts DEF PcType
  <2>3. EndedType'
    BY TypeParts DEF EndedType
  <2>4. VecType'
    BY TypeParts DEF VecType
  <2>5. IdType'
    BY TypeParts DEF IdType
  <2>6. LockType'
    BY TypeParts DEF LockType
  <2>7. ThreadType'
    BY TypeParts DEF ThreadType
  <2>8. ObjType'
    BY TypeParts DEF ObjType
  <2>9. ConnType'
    BY TypeParts DEF ConnType
  <2>10. BufsType'
    BY TypeParts DEF BufsType
  <2>11. FdType'
    BY TypeParts DEF FdType
  <2>12. SigsType'
    BY TypeParts DEF SigsType
  <2>13. FaultsType'
    BY TypeParts DEF FaultsType
  <2>14. WriterAlone'
    BY TypeParts DEF WriterAlone
  <2> QED
    BY <2>1, <2>2, <2>3, <2>4, <2>5, <2>6, <2>7, <2>8, <2>9, <2>10, <2>11, <2>12, <2>13, <2>14, Zenon
    DEF TypeOK, PcType, Labels, FlagTypes, EndedType, VecType, IdType, LockType, ThreadType,
        ObjType, ConnType, BufsType, FdType, SigsType, FaultsType, WriterAlone
<1> QED
  BY <1>1, StartTypes, DeleteTypes, CleanupTypes, SignalTypes, Zenon DEF Next

LEMMA ControlInit == Init => Control
  BY DEF Init, Control, Positions, HandlersOrdered, ThreadNamed, LockHeld, JoinedFirst, ReaderRuns, PastJoin,
         EntryOutlivesThread,
         ThreadRuns, Contexts, Handlers, HandlerLabels, StartLabels, InServerMain, DeleteLabels,
         CleanupLabels

LEMMA ControlNext == ASSUME TypeOK, Control, [Next]_vars PROVE Control'
<1> USE DEF PcType, Labels, Control, Positions, HandlersOrdered, ThreadNamed, LockHeld, JoinedFirst, ReaderRuns, PastJoin,
            EntryOutlivesThread,
            At, Goto, Goes, Ends, Fault, ThreadOf, MayFail, ThreadRuns, Contexts, Handlers, HandlerLabels,
            StartLabels, InServerMain, DeleteLabels, CleanupLabels,
            platformVars, threadVars, serverVars, signalVars
<1>0. PcType
  BY TypeParts
<1>1. CASE parse_cmd_args
  BY <1>0, <1>1 DEF parse_cmd_args
<1>2. CASE fpga_platform_init
  BY <1>0, <1>2 DEF fpga_platform_init
<1>3. CASE install_sigint_handler
  BY <1>0, <1>3 DEF install_sigint_handler
<1>4. CASE NewServer
  BY <1>0, <1>4 DEF NewServer
<1>5. CASE fpga_open
  BY <1>0, <1>5 DEF fpga_open
<1>6. CASE initialize_server
  BY <1>0, <1>6 DEF initialize_server
<1>7. CASE EnterServerMain
  BY <1>0, <1>7 DEF EnterServerMain
<1>8. CASE alloc_tcpip_recv_send_buffer
  BY <1>0, <1>8 DEF alloc_tcpip_recv_send_buffer
<1>9. CASE StopServing
  BY <1>0, <1>9 DEF StopServing
<1>10. CASE CloseListener
  BY <1>0, <1>10 DEF CloseListener
<1>11. CASE LeaveServerMain
  BY <1>0, <1>11 DEF LeaveServerMain
<1>12. ASSUME NEW c \in Contexts, fpga_close(c) PROVE Control'
  BY <1>0, <1>12 DEF fpga_close
<1>13. ASSUME NEW c \in Contexts, free_tcpip_recv_send_buffer(c) PROVE Control'
  BY <1>0, <1>13 DEF free_tcpip_recv_send_buffer
<1>14. ASSUME NEW c \in Contexts, ClearBuffers(c) PROVE Control'
  BY <1>0, <1>14 DEF ClearBuffers
<1>15. ASSUME NEW c \in Contexts, DoubleFree(c) PROVE Control'
  BY <1>0, <1>15 DEF DoubleFree
<1>16. ASSUME NEW c \in Contexts, server_terminate(c) PROVE Control'
  BY <1>0, <1>16 DEF server_terminate
<1>17. ASSUME NEW c \in Contexts, StrayClose(c) PROVE Control'
  BY <1>0, <1>17 DEF StrayClose
<1>18. ASSUME NEW c \in Contexts, NullDereference(c) PROVE Control'
  BY <1>0, <1>18 DEF NullDereference
<1>19. ASSUME NEW c \in Contexts, InvalidateSocket(c) PROVE Control'
  BY <1>0, <1>19 DEF InvalidateSocket
<1>20. ASSUME NEW c \in Contexts, ClearConn(c) PROVE Control'
  BY <1>0, <1>20 DEF ClearConn
<1>21. ASSUME NEW c \in Contexts, FreeServer(c) PROVE Control'
  BY <1>0, <1>21 DEF FreeServer
<1>22. ASSUME NEW c \in Contexts, ForgetServer(c) PROVE Control'
  BY <1>0, <1>22 DEF ForgetServer
<1>23. ASSUME NEW c \in Contexts, fpga_platform_cleanup(c) PROVE Control'
  BY <1>0, <1>23 DEF fpga_platform_cleanup
<1>24. ASSUME NEW c \in Contexts, LockFlags(c) PROVE Control'
  BY <1>0, <1>24 DEF LockFlags
<1>25. ASSUME NEW c \in Contexts, LockFails(c) PROVE Control'
  BY <1>0, <1>25 DEF LockFails
<1>26. ASSUME NEW c \in Contexts, SetExitFlag(c) PROVE Control'
  BY <1>0, <1>26 DEF SetExitFlag
<1>27. ASSUME NEW c \in Contexts, JoinThread(c) PROVE Control'
  BY <1>0, <1>27 DEF JoinThread
<1>28. ASSUME NEW c \in Contexts, JoinAgain(c) PROVE Control'
  BY <1>0, <1>28 DEF JoinAgain
<1>29. ASSUME NEW c \in Contexts, ReleasePlatform(c) PROVE Control'
  BY <1>0, <1>29 DEF ReleasePlatform
<1>30. CASE Sigint
  BY <1>0, <1>30 DEF Sigint
<1>31. CASE ThreadLocks
  BY <1>0, <1>31 DEF ThreadLocks
<1>32. CASE ThreadReadsFlag
  BY <1>0, <1>32 DEF ThreadReadsFlag
<1>33. CASE UNCHANGED vars
  BY <1>33 DEF vars
<1> QED
  BY <1>1, <1>2, <1>3, <1>4, <1>5, <1>6, <1>7, <1>8, <1>9, <1>10, <1>11, <1>12, <1>13,
     <1>14, <1>15, <1>16, <1>17, <1>18, <1>19, <1>20, <1>21, <1>22, <1>23, <1>24, <1>25,
     <1>26, <1>27, <1>28, <1>29, <1>30, <1>31, <1>32, <1>33, Zenon
  DEF Next, StartSteps, DeleteSteps, CleanupSteps, ThreadSteps

LEMMA ServeInit == Init => ServeInv
  BY DEF Init, ServeInv, StartState, InServerMain, Contexts

LEMMA ServeNext == ASSUME TypeOK, Control, ServeInv, [Next]_vars PROVE ServeInv'
<1> USE DEF PcType, Labels, Control, Positions, HandlersOrdered, ThreadNamed, LockHeld, JoinedFirst, ReaderRuns, PastJoin,
            EntryOutlivesThread,
            ServeInv, HandlerAt,
            At, Goto, Goes, Ends, Fault, ThreadOf, MayFail, ThreadRuns, Contexts, Handlers, HandlerLabels,
            StartLabels, InServerMain, DeleteLabels, CleanupLabels,
            platformVars, threadVars, serverVars, signalVars
<1>0. PcType /\ BufsType
  BY TypeParts
<1>1. CASE parse_cmd_args
  BY <1>0, <1>1 DEF parse_cmd_args, StartState, ServeState, Released
<1>2. CASE fpga_platform_init
  BY <1>0, <1>2 DEF fpga_platform_init, StartState, ServeState, Released
<1>3. CASE install_sigint_handler
  BY <1>0, <1>3 DEF install_sigint_handler, StartState, ServeState, Released
<1>4. CASE NewServer
  BY <1>0, <1>4 DEF NewServer, StartState, ServeState, Released
<1>5. CASE fpga_open
  BY <1>0, <1>5 DEF fpga_open, StartState, ServeState, Released
<1>6. CASE initialize_server
  BY <1>0, <1>6 DEF initialize_server, StartState, ServeState, Released
<1>7. CASE EnterServerMain
  BY <1>0, <1>7 DEF EnterServerMain, StartState, ServeState, Released
<1>8. CASE alloc_tcpip_recv_send_buffer
  BY <1>0, <1>8 DEF alloc_tcpip_recv_send_buffer, StartState, ServeState, Released
<1>9. CASE StopServing
  BY <1>0, <1>9 DEF StopServing, StartState, ServeState, Released
<1>10. CASE CloseListener
  BY <1>0, <1>10 DEF CloseListener, StartState, ServeState, Released
<1>11. CASE LeaveServerMain
  BY <1>0, <1>11 DEF LeaveServerMain, StartState, ServeState, Released
<1>12. ASSUME NEW c \in Contexts, fpga_close(c) PROVE ServeInv'
  BY <1>0, <1>12 DEF fpga_close, StartState, ServeState, Released
<1>13. ASSUME NEW c \in Contexts, free_tcpip_recv_send_buffer(c) PROVE ServeInv'
  <2>1. StartState'
    BY <1>0, <1>13 DEF free_tcpip_recv_send_buffer, StartState
  <2>2. ASSUME pc'["main"] \in InServerMain
        PROVE  faults' = {} /\ ended' \in {"no", "killed", "exit 0"}
    BY <1>0, <1>13, <2>2 DEF free_tcpip_recv_send_buffer, ServeState
  <2>3. ASSUME pc'["main"] \in InServerMain, ended' = "no" PROVE ServeState'
    <3>1. conn' = IF HandlerAt({"free", "forget"})' THEN "null" ELSE "valid"
      BY <1>0, <1>13, <2>3 DEF free_tcpip_recv_send_buffer, ServeState
    <3>2. obj' = IF HandlerAt({"forget"})' THEN "deleted" ELSE "live"
      BY <1>0, <1>13, <2>3 DEF free_tcpip_recv_send_buffer, ServeState
    <3>3. bufs' = "freed" <=> HandlerAt({"freed"})'
      BY <1>0, <1>13, <2>3 DEF free_tcpip_recv_send_buffer, ServeState
    <3>4. HandlerAt({"socket", "shut", "clear", "free", "forget"})' => bufs' = "none"
      BY <1>0, <1>13, <2>3 DEF free_tcpip_recv_send_buffer, ServeState, BufsType
    <3>5. HandlerAt({"clear", "free", "forget"})' => fd' # "open"
      BY <1>0, <1>13, <2>3 DEF free_tcpip_recv_send_buffer, ServeState
    <3>6. HandlerAt({"shut"})' => fd' = "closed"
      BY <1>0, <1>13, <2>3 DEF free_tcpip_recv_send_buffer, ServeState
    <3>7. HandlerAt(DeleteLabels)' => ~drv' /\ vec' = "none"
      BY <1>0, <1>13, <2>3 DEF free_tcpip_recv_send_buffer, ServeState
    <3>8. threadId' = "joined" => PastJoin("sigMain")'
      BY <1>0, <1>13, <2>3 DEF free_tcpip_recv_send_buffer, ServeState
    <3> QED
      BY <3>1, <3>2, <3>3, <3>4, <3>5, <3>6, <3>7, <3>8 DEF ServeState
  <2>4. ASSUME pc'["main"] \in InServerMain, ended' = "exit 0" PROVE Released'
    BY <1>0, <1>13, <2>4 DEF free_tcpip_recv_send_buffer, ServeState, Released
  <2> QED
    BY <2>1, <2>2, <2>3, <2>4
<1>14. ASSUME NEW c \in Contexts, ClearBuffers(c) PROVE ServeInv'
  BY <1>0, <1>14 DEF ClearBuffers, StartState, ServeState, Released
<1>15. ASSUME NEW c \in Contexts, DoubleFree(c) PROVE ServeInv'
  BY <1>0, <1>15 DEF DoubleFree, StartState, ServeState, Released
<1>16. ASSUME NEW c \in Contexts, server_terminate(c) PROVE ServeInv'
  BY <1>0, <1>16 DEF server_terminate, StartState, ServeState, Released
<1>17. ASSUME NEW c \in Contexts, StrayClose(c) PROVE ServeInv'
  BY <1>0, <1>17 DEF StrayClose, StartState, ServeState, Released
<1>18. ASSUME NEW c \in Contexts, NullDereference(c) PROVE ServeInv'
  BY <1>0, <1>18 DEF NullDereference, StartState, ServeState, Released
<1>19. ASSUME NEW c \in Contexts, InvalidateSocket(c) PROVE ServeInv'
  BY <1>0, <1>19 DEF InvalidateSocket, StartState, ServeState, Released
<1>20. ASSUME NEW c \in Contexts, ClearConn(c) PROVE ServeInv'
  BY <1>0, <1>20 DEF ClearConn, StartState, ServeState, Released
<1>21. ASSUME NEW c \in Contexts, FreeServer(c) PROVE ServeInv'
  BY <1>0, <1>21 DEF FreeServer, StartState, ServeState, Released
<1>22. ASSUME NEW c \in Contexts, ForgetServer(c) PROVE ServeInv'
  BY <1>0, <1>22 DEF ForgetServer, StartState, ServeState, Released
<1>23. ASSUME NEW c \in Contexts, fpga_platform_cleanup(c) PROVE ServeInv'
  BY <1>0, <1>23 DEF fpga_platform_cleanup, StartState, ServeState, Released
<1>24. ASSUME NEW c \in Contexts, LockFlags(c) PROVE ServeInv'
  BY <1>0, <1>24 DEF LockFlags, StartState, ServeState, Released
<1>25. ASSUME NEW c \in Contexts, LockFails(c) PROVE ServeInv'
  BY <1>0, <1>25 DEF LockFails, StartState, ServeState, Released
<1>26. ASSUME NEW c \in Contexts, SetExitFlag(c) PROVE ServeInv'
  BY <1>0, <1>26 DEF SetExitFlag, StartState, ServeState, Released
<1>27. ASSUME NEW c \in Contexts, JoinThread(c) PROVE ServeInv'
  BY <1>0, <1>27 DEF JoinThread, StartState, ServeState, Released
<1>28. ASSUME NEW c \in Contexts, JoinAgain(c) PROVE ServeInv'
  BY <1>0, <1>28 DEF JoinAgain, StartState, ServeState, Released
<1>29. ASSUME NEW c \in Contexts, ReleasePlatform(c) PROVE ServeInv'
  <2>1. StartState'
    BY <1>0, <1>29 DEF ReleasePlatform, StartState
  <2>2. ASSUME pc'["main"] \in InServerMain
        PROVE  faults' = {} /\ ended' \in {"no", "killed", "exit 0"}
    BY <1>0, <1>29, <2>2 DEF ReleasePlatform, ServeState
  <2>3. ASSUME pc'["main"] \in InServerMain, ended' = "no" PROVE ServeState'
    <3>1. conn' = IF HandlerAt({"free", "forget"})' THEN "null" ELSE "valid"
      BY <1>0, <1>29, <2>3 DEF ReleasePlatform, ServeState
    <3>2. obj' = IF HandlerAt({"forget"})' THEN "deleted" ELSE "live"
      BY <1>0, <1>29, <2>3 DEF ReleasePlatform, ServeState
    <3>3. bufs' = "freed" <=> HandlerAt({"freed"})'
      BY <1>0, <1>29, <2>3 DEF ReleasePlatform, ServeState
    <3>4. HandlerAt({"socket", "shut", "clear", "free", "forget"})' => bufs' = "none"
      BY <1>0, <1>29, <2>3 DEF ReleasePlatform, ServeState, BufsType
    <3>5. HandlerAt({"clear", "free", "forget"})' => fd' # "open"
      BY <1>0, <1>29, <2>3 DEF ReleasePlatform, ServeState
    <3>6. HandlerAt({"shut"})' => fd' = "closed"
      BY <1>0, <1>29, <2>3 DEF ReleasePlatform, ServeState
    <3>7. HandlerAt(DeleteLabels)' => ~drv' /\ vec' = "none"
      BY <1>0, <1>29, <2>3 DEF ReleasePlatform, ServeState
    <3>8. threadId' = "joined" => PastJoin("sigMain")'
      BY <1>0, <1>29, <2>3 DEF ReleasePlatform, ServeState
    <3> QED
      BY <3>1, <3>2, <3>3, <3>4, <3>5, <3>6, <3>7, <3>8 DEF ServeState
  <2>4. ASSUME pc'["main"] \in InServerMain, ended' = "exit 0" PROVE Released'
    BY <1>0, <1>29, <2>4 DEF ReleasePlatform, ServeState, Released
  <2> QED
    BY <2>1, <2>2, <2>3, <2>4
<1>30. CASE Sigint
  <2>1. StartState'
    BY <1>0, <1>30 DEF Sigint, StartState
  <2>2. ASSUME pc'["main"] \in InServerMain
        PROVE  faults' = {} /\ ended' \in {"no", "killed", "exit 0"}
    BY <1>0, <1>30, <2>2 DEF Sigint, ServeState
  <2>3. ASSUME pc'["main"] \in InServerMain, ended' = "no" PROVE ServeState'
    <3>1. conn' = IF HandlerAt({"free", "forget"})' THEN "null" ELSE "valid"
      BY <1>0, <1>30, <2>3 DEF Sigint, ServeState
    <3>2. obj' = IF HandlerAt({"forget"})' THEN "deleted" ELSE "live"
      BY <1>0, <1>30, <2>3 DEF Sigint, ServeState
    <3>3. bufs' = "freed" <=> HandlerAt({"freed"})'
      BY <1>0, <1>30, <2>3 DEF Sigint, ServeState
    <3>4. HandlerAt({"socket", "shut", "clear", "free", "forget"})' => bufs' = "none"
      BY <1>0, <1>30, <2>3 DEF Sigint, ServeState, BufsType
    <3>5. HandlerAt({"clear", "free", "forget"})' => fd' # "open"
      BY <1>0, <1>30, <2>3 DEF Sigint, ServeState
    <3>6. HandlerAt({"shut"})' => fd' = "closed"
      BY <1>0, <1>30, <2>3 DEF Sigint, ServeState
    <3>7. HandlerAt(DeleteLabels)' => ~drv' /\ vec' = "none"
      BY <1>0, <1>30, <2>3 DEF Sigint, ServeState
    <3>8. threadId' = "joined" => PastJoin("sigMain")'
      BY <1>0, <1>30, <2>3 DEF Sigint, ServeState
    <3> QED
      BY <3>1, <3>2, <3>3, <3>4, <3>5, <3>6, <3>7, <3>8 DEF ServeState
  <2>4. ASSUME pc'["main"] \in InServerMain, ended' = "exit 0" PROVE Released'
    BY <1>0, <1>30, <2>4 DEF Sigint, ServeState, Released
  <2> QED
    BY <2>1, <2>2, <2>3, <2>4
<1>31. CASE ThreadLocks
  BY <1>0, <1>31 DEF ThreadLocks, StartState, ServeState, Released
<1>32. CASE ThreadReadsFlag
  BY <1>0, <1>32 DEF ThreadReadsFlag, StartState, ServeState, Released
<1>33. CASE UNCHANGED vars
  BY <1>33 DEF vars, StartState, ServeState, Released
<1> QED
  BY <1>1, <1>2, <1>3, <1>4, <1>5, <1>6, <1>7, <1>8, <1>9, <1>10, <1>11, <1>12, <1>13,
     <1>14, <1>15, <1>16, <1>17, <1>18, <1>19, <1>20, <1>21, <1>22, <1>23, <1>24, <1>25,
     <1>26, <1>27, <1>28, <1>29, <1>30, <1>31, <1>32, <1>33, Zenon
  DEF Next, StartSteps, DeleteSteps, CleanupSteps, ThreadSteps

----------------------------------------------------------------------------
\* The inductive invariant: no step of main, of a handler or of the interrupt
\* thread disturbs the order of the contexts or what the handler has released.
THEOREM LifecycleInvariant == Spec => [](TypeOK /\ Control /\ ServeInv)
<1> DEFINE IInv == TypeOK /\ Control /\ ServeInv
<1>1. Init => IInv
  BY TypeInit, ControlInit, ServeInit
<1>2. IInv /\ [Next]_vars => IInv'
  BY TypeNext, ControlNext, ServeNext
<1> QED
  BY <1>1, <1>2, PTL DEF Spec

\* Types, and s_intLock is never held for writing and reading at once.
THEOREM LifecycleTyped == Spec => []TypeOK
  BY LifecycleInvariant, PTL

\* SIGINT anywhere in server_main is handled without an access through
\* s_server_conn_ptr when it is NULL or dangles, without a second free, delete
\* or join, and without an exit for a lock (etherlink_sig_handler).
THEOREM ServingInterruptible == Spec => []ServingSigintIsSafe
<1>1. ServeInv => ServingSigintIsSafe
  BY DEF ServeInv, ServingSigintIsSafe
<1> QED
  BY LifecycleInvariant, <1>1, PTL

\* ... and an exit by the handler leaves nothing allocated or open.
THEOREM ServingReleased == Spec => []ServingSigintReleases
<1>1. ServeInv => ServingSigintReleases
  BY DEF ServeInv, Released, ServingSigintReleases
<1> QED
  BY LifecycleInvariant, <1>1, PTL

\* Two handlers never both get past pthread_join, so that s_etherlink_server is
\* deleted once although no lock protects it.
THEOREM DeletedOnce == Spec => []OneHandlerDeletes
<1>1. Control => OneHandlerDeletes
  BY DEF Control, HandlersOrdered, JoinedFirst, OneHandlerDeletes, PastJoin, DeleteLabels
<1> QED
  BY LifecycleInvariant, <1>1, PTL

\* The vector is not freed under an interrupt thread that still runs.
THEOREM EntryKeptToTheEnd == Spec => []EntryOutlivesThread
<1>1. Control => EntryOutlivesThread
  BY DEF Control
<1> QED
  BY LifecycleInvariant, <1>1, PTL

\* Whoever waits in fpga_platform_cleanup, for s_intLock or for the thread's end,
\* waits for somebody who can go on, in main, in either handler and in both.
THEOREM NobodyWaitsInACircle == Spec => []NoCircularWait
<1>1. TypeOK /\ Control => NoCircularWait
  <2> SUFFICES ASSUME TypeOK, Control, ~caught,
                      NEW c \in Contexts, Active(c), Waits(c)
               PROVE  \/ ThreadRuns /\ (reader \/ lock = "free")
                      \/ \E d \in Contexts : Active(d) /\ ~Waits(d)
    BY DEF NoCircularWait
  <2> USE DEF Active, Contexts, Handlers
  <2>t. /\ ended = "no" /\ lock \in {"free", "main", "int"} /\ th \in {"none", "running", "exited"}
        /\ c \in {"main", "sigMain", "sigInt"} /\ (c = "main" => pc["sigMain"] = "none")
    BY DEF TypeOK
  <2>h. pc["sigInt"] # "none" => pc["sigMain"] # "none" /\ th = "running" /\ ~reader
    BY DEF Control, HandlersOrdered, ReaderRuns
  <2>l. /\ lock = "int" <=> pc["sigInt"] = "flag"
        /\ lock = "main" <=> (pc["main"] = "flag" \/ pc["sigMain"] = "flag")
    BY DEF Control, LockHeld
  \* The one who has the lock for writing sets the flag and releases it.
  <2>1. CASE lock = "int"
    <3>1. Active("sigInt") /\ ~Waits("sigInt")
      BY <2>1, <2>t, <2>l DEF Waits, ThreadOf
    <3> QED BY <3>1
  <2>2. CASE lock = "main" /\ pc["sigMain"] = "flag"
    <3>1. Active("sigMain") /\ ~Waits("sigMain")
      BY <2>2, <2>t DEF Waits, ThreadOf
    <3> QED BY <3>1
  <2>3. CASE lock = "main" /\ pc["sigMain"] # "flag"
    <3>1. pc["main"] = "flag" /\ pc["sigMain"] # "join"
      BY <2>3, <2>l DEF Control, ReaderRuns
    <3>2. CASE pc["sigMain"] = "none"
      <4>1. Active("main") /\ ~Waits("main")
        BY <3>1, <3>2, <2>t DEF Waits, ThreadOf
      <4> QED BY <4>1
    <3>3. CASE pc["sigMain"] # "none"
      <4>1. Active("sigMain") /\ ~Waits("sigMain")
        BY <3>1, <3>3, <2>3, <2>t DEF Waits, ThreadOf
      <4> QED BY <4>1
    <3> QED BY <3>2, <3>3
  \* Else the thread reads the flag, or its handler goes on.
  <2>4. CASE lock = "free"
    <3>1. th = "running"
      <4>1. CASE pc[c] = "lock"
        BY <4>1, <2>4 DEF Waits, Control, ReaderRuns
      <4>2. CASE pc[c] # "lock"
        BY <4>2, <2>t DEF Waits, Control, ThreadNamed
      <4> QED BY <4>1, <4>2
    <3>2. CASE pc["sigInt"] = "none"
      BY <3>1, <3>2, <2>4, <2>t DEF ThreadRuns
    <3>3. CASE pc["sigInt"] # "none"
      <4>1. Active("sigInt") /\ ~Waits("sigInt")
        BY <3>3, <2>4, <2>h, <2>t DEF Waits, ThreadOf
      <4> QED BY <4>1
    <3> QED BY <3>2, <3>3
  <2> QED BY <2>1, <2>2, <2>3, <2>4, <2>t
<1> QED
  BY LifecycleInvariant, <1>1, PTL
=============================================================================
