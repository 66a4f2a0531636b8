--------------------------- MODULE ClientSessions ---------------------------
(***************************************************************************)
(* How clients get, keep and lose the server: server_main's loop, the      *)
(* handshake of connect_client and connect_client_socket, the rejection of *)
(* additional clients while one is served, and close_client_conn.          *)
(*                                                                         *)
(* All connections of all clients arrive in one backlog.  The server takes *)
(* NumSocks of them, one per role, with blocking calls and no timeout; a   *)
(* random handle, sent to the first and expected back on each, tells the   *)
(* clients apart.  Handles are taken to be distinct, so that a session's   *)
(* handle is represented by the connection it was sent on.                 *)
(*                                                                         *)
(* Clients are external.  They follow the protocol the server expects: one *)
(* connection after the other, each announced with the handle and answered *)
(* with READY before the next.  They may close everything at any point.    *)
(* Sockets behave like Linux's: after the peer has closed, the first send  *)
(* may still succeed and a later one may raise SIGPIPE, which nothing in   *)
(* the program handles.                                                    *)
(***************************************************************************)
EXTENDS Integers, Sequences, Functions

CONSTANTS
  Clients,
  NumSocks,   \* connections of a session: 5
  MaxListen,  \* connections the backlog holds: 8
  MaxTries,   \* bound: attempts of each client
  Patient,    \* clients only leave when the server has dropped or served them
  Failures    \* the calls of the server that may fail

ASSUME SessionsAssumption ==
  /\ NumSocks \in Nat \ {0}
  /\ MaxListen \in Nat \ {0}
  /\ MaxTries \in [Clients -> Nat \ {0}]
  /\ Patient \in BOOLEAN
  /\ Failures \subseteq {"init_driver", "accept", "sockopt"}

VARIABLES
  (* server *)
  srv,      \* the step it has reached
  fds,      \* client_conn: the accepted connections, in the order of CLIENT_CONN
  backlog,  \* connections waiting for accept
  dead,     \* connections the server has closed
  dirty,    \* held ones on which a send or recv has met a peer that closed
  (* clients *)
  try,      \* number of the current attempt
  on,       \* connections made in it; 0: the client has closed all of them
  seen,     \* answers received in it: welcome, a READY for each role, READY
  sent,     \* connections announced with their handle and role
  made      \* history: all connections ever made

clientVars == <<try, on, seen, sent, made>>
vars == <<srv, fds, backlog, dead, dirty, clientVars>>

Conn == [client : Clients, try : Nat, role : 0..(NumSocks - 1)]
ConnOf(c, t, r) == [client |-> c, try |-> t, role |-> r]
Session(c, t) == [k \in 1..NumSocks |-> ConnOf(c, t, k - 1)]

Closed(x) == on[x.client] = 0 \/ try[x.client] # x.try   \* by the client
Gone == srv \in {"stopped", "killed"}
MayFail(call) == call \in Failures

Ctrl == fds[1]
Newest == fds[Len(fds)]

Init ==
  /\ srv = "init" /\ fds = <<>> /\ backlog = <<>> /\ dead = {} /\ dirty = {}
  /\ try = [c \in Clients |-> 0]
  /\ on = [c \in Clients |-> 0] /\ seen = [c \in Clients |-> 0]
  /\ sent = {} /\ made = {}

----------------------------------------------------------------------------
(* Clients *)

Connect(c, t, r) ==
  /\ ~Gone /\ Len(backlog) < MaxListen
  /\ on' = [on EXCEPT ![c] = r + 1]
  /\ backlog' = Append(backlog, ConnOf(c, t, r))
  /\ made' = made \cup {ConnOf(c, t, r)}
  /\ UNCHANGED <<srv, fds, dead, dirty, seen, sent>>

StartTry(c) ==
  /\ on[c] = 0 /\ try[c] < MaxTries[c]
  /\ try' = [try EXCEPT ![c] = @ + 1]
  /\ Connect(c, try[c] + 1, 0)

ConnectNext(c) ==
  /\ 0 < on[c] /\ on[c] < NumSocks /\ seen[c] = on[c] + 1
  /\ Connect(c, try[c], on[c])
  /\ UNCHANGED try

\* "<role> HANDLE=<handle>", once the handle is known and its turn has come.
Announce(c) ==
  /\ on[c] > 0 /\ seen[c] = on[c]
  /\ ConnOf(c, try[c], on[c] - 1) \notin sent
  /\ sent' = sent \cup {ConnOf(c, try[c], on[c] - 1)}
  /\ UNCHANGED <<srv, fds, backlog, dead, dirty, try, on, seen, made>>

Served(c) == seen[c] = NumSocks + 2
Dropped(c) == \E r \in 0..(on[c] - 1) : ConnOf(c, try[c], r) \in dead

\* The client ends its attempt or its session, or dies: its sockets close.
Leave(c) ==
  /\ on[c] > 0
  /\ Patient => Served(c) \/ Dropped(c)
  /\ on' = [on EXCEPT ![c] = 0] /\ seen' = [seen EXCEPT ![c] = 0]
  /\ UNCHANGED <<srv, fds, backlog, dead, dirty, try, sent, made>>

----------------------------------------------------------------------------
(* Sockets, seen from the server *)

\* The client of x reads an answer on its connection.
Receives(x, answer) ==
  seen' = IF Closed(x) THEN seen ELSE [seen EXCEPT ![x.client] = answer]

SendSucceeds(x) == dirty' = IF Closed(x) THEN dirty \cup {x} ELSE dirty
SendFails(x) == Closed(x) /\ dirty' = dirty \cup {x}

\* The process ends and the kernel closes its sockets, the listening one too.
Halt(how) ==
  /\ srv' = how
  /\ dead' = dead \cup Range(fds) \cup Range(backlog)
  /\ fds' = <<>> /\ backlog' = <<>> /\ dirty' = {}
  /\ UNCHANGED clientVars

\* The second use of a connection whose peer has closed may be fatal.
SigPipe ==
  /\ \/ srv \in {"greet", "ready"} /\ Ctrl \in dirty
     \/ srv = "refuse" /\ fds # <<>> /\ Ctrl \in dirty
     \/ srv \in {"answer", "mismatch"} /\ Newest \in dirty
  /\ Halt("killed")

----------------------------------------------------------------------------
(* connect_client *)

\* reset_buffers and init_driver; if that fails server_main's loop ends.
InitDriver ==
  /\ srv = "init"
  /\ \/ srv' = "accept" /\ UNCHANGED <<fds, backlog, dead, dirty, clientVars>>
     \/ MayFail("init_driver") /\ Halt("stopped")

\* Mutant: one connection too many.
Accepting_more == srv = "accept" \/ (srv = "ready" /\ backlog # <<>>)
Accepting == srv = "accept"

\* accept for the next role, whoever connected; then TCP_NODELAY, except on
\* the control connection.
Accept ==
  /\ Accepting /\ backlog # <<>>
  /\ fds' = Append(fds, Head(backlog)) /\ backlog' = Tail(backlog)
  /\ \/ srv' = IF fds = <<>> THEN "greet" ELSE "recv"
     \/ MayFail("sockopt") /\ fds # <<>> /\ srv' = "refuse"
  /\ UNCHANGED <<dead, dirty, clientVars>>

AcceptFails ==
  /\ Accepting /\ MayFail("accept")
  /\ srv' = "refuse"
  /\ UNCHANGED <<fds, backlog, dead, dirty, clientVars>>

\* Mutant: the first READY is taken for the welcome message.
Greet_silent ==
  /\ srv = "greet"
  /\ \/ SendSucceeds(Ctrl) /\ srv' = "recv" /\ UNCHANGED seen
     \/ SendFails(Ctrl) /\ srv' = "refuse" /\ UNCHANGED seen
  /\ UNCHANGED <<fds, backlog, dead, try, on, sent, made>>

\* The welcome message, which only a control connection's client understands.
Greet ==
  /\ srv = "greet"
  /\ \/ /\ SendSucceeds(Ctrl) /\ srv' = "recv"
        /\ IF Ctrl.role = 0 THEN Receives(Ctrl, 1) ELSE UNCHANGED seen
     \/ SendFails(Ctrl) /\ srv' = "refuse" /\ UNCHANGED seen
  /\ UNCHANGED <<fds, backlog, dead, try, on, sent, made>>

\* Mutant: the role is compared, the handle is not.
Expected_role(x) == x.role = Len(fds) - 1

\* The message on x carries the handle of this session and the expected role.
Expected(x) == ConnOf(x.client, x.try, 0) = Ctrl /\ x.role = Len(fds) - 1

\* Mutant: the connection's end is not noticed.
Recv_no_end ==
  /\ srv = "recv" /\ Newest \in sent
  /\ srv' = IF Expected(Newest) THEN "answer" ELSE "mismatch"
  /\ UNCHANGED <<dirty, fds, backlog, dead, clientVars>>

\* socket_recv_until_null_reached blocks until the announcement or the end of
\* the connection arrives; a reset overtakes what was sent before it.
Recv ==
  /\ srv = "recv"
  /\ \/ /\ Newest \in sent
        /\ srv' = IF Expected(Newest) THEN "answer" ELSE "mismatch"
        /\ UNCHANGED dirty
     \/ /\ Closed(Newest)
        /\ srv' = "refuse"
        /\ dirty' \in {dirty, dirty \cup {Newest}}
  /\ UNCHANGED <<fds, backlog, dead, clientVars>>

Answer ==
  /\ srv = "answer"
  /\ \/ /\ SendSucceeds(Newest) /\ Receives(Newest, Len(fds) + 1)
        /\ srv' = IF Len(fds) = NumSocks THEN "ready" ELSE "accept"
     \/ SendFails(Newest) /\ srv' = "refuse" /\ UNCHANGED seen
  /\ UNCHANGED <<fds, backlog, dead, try, on, sent, made>>

\* NOT_READY to the connection that does not belong here.  Like every
\* NOT_READY its result is ignored.
Mismatch ==
  /\ srv = "mismatch"
  /\ srv' = "refuse"
  /\ SendSucceeds(Newest)
  /\ UNCHANGED <<fds, backlog, dead, clientVars>>

\* NOT_READY to the control connection, if there is one.
Refuse ==
  /\ srv = "refuse"
  /\ srv' = "close"
  /\ IF fds # <<>> THEN SendSucceeds(Ctrl) ELSE UNCHANGED dirty
  /\ UNCHANGED <<fds, backlog, dead, clientVars>>

Ready ==
  /\ srv = "ready"
  /\ \/ SendSucceeds(Ctrl) /\ Receives(Ctrl, NumSocks + 2) /\ srv' = "serve"
     \/ SendFails(Ctrl) /\ srv' = "close" /\ UNCHANGED seen
  /\ UNCHANGED <<fds, backlog, dead, try, on, sent, made>>

----------------------------------------------------------------------------
(* handle_client, as far as connections are concerned *)

\* Mutant: the rejected connection is left open.
RejectClient_open ==
  /\ srv = "serve" /\ backlog # <<>>
  /\ backlog' = Tail(backlog)
  /\ UNCHANGED <<srv, fds, dirty, dead, clientVars>>

\* Mutant: the listening socket is not watched.
RejectClient_never == FALSE /\ UNCHANGED vars

\* SERVER_BUSY and a reset for whoever connects while a client is served.
RejectClient ==
  /\ srv = "serve" /\ backlog # <<>>
  /\ backlog' = Tail(backlog)
  /\ dead' = dead \cup {Head(backlog)}
  /\ UNCHANGED <<srv, fds, dirty, clientVars>>

\* The rest of a pass through the loop may wait for the served client alone,
\* without a timeout: for payload whose header it has sent (process_h2t_data),
\* or until it reads its T2H connection (loopback, process_t2h_data).
Block ==
  /\ srv = "serve" /\ ~Closed(Ctrl)
  /\ srv' = "blocked"
  /\ UNCHANGED <<fds, backlog, dead, dirty, clientVars>>

\* The served client sends, or reads, what the server is waiting for.
ClientGoesOn ==
  /\ srv = "blocked"
  /\ srv' = "serve"
  /\ UNCHANGED <<fds, backlog, dead, dirty, clientVars>>

\* The served client has closed: a payload receive hides its failure and the
\* loop goes on; a send that fails ends it.
BlockedCallFails ==
  /\ srv = "blocked" /\ Closed(Ctrl)
  /\ srv' \in {"serve", "close"}
  /\ UNCHANGED <<fds, backlog, dead, dirty, clientVars>>

\* select reports the end of the connections and a receive fails.
ClientLeft ==
  /\ srv = "serve" /\ Closed(Ctrl)
  /\ srv' = "close"
  /\ UNCHANGED <<fds, backlog, dead, dirty, clientVars>>

\* The DISCONNECT command, or an error while the client is there.
Disconnect ==
  /\ srv = "serve"
  /\ srv' = "close"
  /\ UNCHANGED <<fds, backlog, dead, dirty, clientVars>>

\* Every accepted connection is closed; the next client's turn.
close_client_conn ==
  /\ srv = "close"
  /\ srv' = "init"
  /\ dead' = dead \cup Range(fds)
  /\ fds' = <<>> /\ dirty' = {}
  /\ UNCHANGED <<backlog, clientVars>>

----------------------------------------------------------------------------
ClientSteps(c) == StartTry(c) \/ ConnectNext(c) \/ Announce(c) \/ Leave(c)

Handshake ==
  InitDriver \/ Accept \/ AcceptFails \/ Greet \/ Recv \/ Answer \/ Mismatch \/ Refuse \/ Ready \/ SigPipe

ServedSteps == Block \/ ClientGoesOn \/ BlockedCallFails \/ ClientLeft \/ Disconnect

Next ==
  \/ \E c \in Clients : ClientSteps(c)
  \/ Handshake
  \/ RejectClient \/ ServedSteps \/ close_client_conn

Spec == Init /\ [][Next]_vars

\* The server runs; accept does not fail each time; each pass through the loop,
\* also one that blocks later on, begins with the listening socket, and each
\* meets the end of a client that has left.  Clients go on with the handshake,
\* and one that is not served does not wait for ever (unless it is patient and
\* has not been dropped).  One that is served need neither go on nor leave.
Fairness ==
  /\ WF_vars(Handshake) /\ SF_vars(Accept)
  /\ SF_vars(RejectClient) /\ WF_vars(BlockedCallFails) /\ WF_vars(ClientLeft)
  /\ WF_vars(close_client_conn)
  /\ \A c \in Clients :
       WF_vars(ConnectNext(c)) /\ WF_vars(Announce(c)) /\ WF_vars(~Served(c) /\ Leave(c))

FairSpec == Spec /\ Fairness

----------------------------------------------------------------------------
(* Properties *)

\* Types; no more connections than roles are held (client_conn has no room for
\* more), and what is held was made and not closed.
TypeOK ==
  /\ srv \in {"init", "accept", "greet", "recv", "answer", "mismatch", "refuse", "ready",
              "serve", "blocked", "close", "stopped", "killed"}
  /\ fds \in Seq(Conn) /\ Len(fds) <= NumSocks
  /\ backlog \in Seq(Conn) /\ Len(backlog) <= MaxListen
  /\ dead \subseteq Conn /\ dirty \subseteq Conn
  /\ try \in [Clients -> Nat] /\ \A c \in Clients : try[c] <= MaxTries[c]
  /\ on \in [Clients -> 0..NumSocks]
  /\ seen \in [Clients -> 0..(NumSocks + 2)]
  /\ sent \subseteq Conn /\ made \subseteq Conn

\* handle_client only ever works on the connections of one attempt of one
\* client, each in the place of its role, although they were taken from a
\* backlog into which every client connects at any time.
OneClientPerSession ==
  srv \in {"ready", "serve", "blocked"} =>
    \E c \in Clients : \E t \in 1..MaxTries[c] : fds = Session(c, t)

\* A client that was told READY on its control connection, and has not been
\* dropped since, is the one being served: two clients never both hold the
\* server, and none holds it alone.
SessionAgreement ==
  \A c \in Clients :
    Served(c) /\ ~Dropped(c) => srv \in {"serve", "blocked", "close"} /\ fds = Session(c, try[c])

\* No connection is leaked or closed twice: each one made is in the backlog, in
\* client_conn or closed, and in only one of these, whatever path (failed
\* handshake, rejection, end of a session, failed accept) it takes.
ConnectionsAccounted ==
  /\ made = dead \cup Range(backlog) \cup Range(fds)
  /\ dead \cap (Range(backlog) \cup Range(fds)) = {}
  /\ Range(backlog) \cap Range(fds) = {}
  /\ IsInjective(backlog) /\ IsInjective(fds)

\* While the client of the handshake is there, the server's blocking calls wait
\* for something that client has done or is free to do: in accept for its next
\* connection, in recv for the announcement of the newest, provided that one is
\* its own (connect_client_socket; see sessions_patient for when it is not).
WaitsForItsClient ==
  fds # <<>> /\ ~Closed(Ctrl) =>
    LET c == Ctrl.client
    IN  /\ srv = "accept" =>
             /\ seen[c] = Len(fds) + 1
             /\ on[c] = Len(fds) \/ ConnOf(c, try[c], Len(fds)) \in Range(backlog)
        /\ srv = "recv" /\ Expected(Newest) => Newest \in sent \/ seen[c] = on[c]

\* Whoever connects is accepted, rejected or reset in the end, even while the
\* server waits in the handshake of another client or serves one for ever: once
\* the clients stop connecting (after MaxTries), the backlog is worked off.  The
\* one way to keep it waiting is to hold the server in a single receive or send
\* for ever, which only the served client can do, and only while it is there.
HeldByItsClient == srv = "blocked" /\ ~Closed(Ctrl)
EveryoneAnswered == backlog # <<>> ~> backlog = <<>> \/ []HeldByItsClient

\* The server does not wait for an announcement for ever: there is no timeout,
\* so the end of the connection is the only way out.
RecvEnds == srv = "recv" ~> srv # "recv"

\* "Server will serve an unlimited number of clients, one at a time"
\* (intel_st_debug_if_server.h, 49): a client that leaves does not take the
\* server with it.
ServerSurvives == srv # "killed"
=============================================================================
