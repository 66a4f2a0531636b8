------------------------ MODULE ClientSessionsProofs ------------------------
(***************************************************************************)
(* The safety properties of ClientSessions for any set of clients, any     *)
(* number of sockets and attempts and any backlog.                         *)
(*                                                                         *)
(* The argument: connections are taken in the order they were made, so the *)
(* server cannot choose; but a connection is only counted for the session  *)
(* after its announcement has been compared, and the comparison determines *)
(* all three of client, attempt and role.  What the server waits for is    *)
(* then compared with what the client has heard: each answer lets it make  *)
(* one more connection, and no other.                                      *)
(***************************************************************************)
EXTENDS ClientSessions, TLAPS

\* How many of the accepted connections have passed the comparison.
Verified == IF srv \in {"accept", "answer", "ready", "serve", "blocked"} THEN Len(fds) ELSE Len(fds) - 1

\* They belong to the attempt of the first one, in the order of their roles.
VerifiedInv ==
  srv \in {"accept", "recv", "answer", "mismatch", "ready", "serve", "blocked"} =>
    \A k \in 1..Verified : fds[k] = ConnOf(Ctrl.client, Ctrl.try, k - 1)

\* How many connections the server holds in each step.
HeldInv ==
  /\ srv \in {"init", "stopped", "killed"} => fds = <<>>
  /\ srv = "accept" => Len(fds) < NumSocks
  /\ srv = "greet" => Len(fds) = 1
  /\ srv \in {"recv", "answer", "mismatch"} => Len(fds) > 0
  /\ srv \in {"ready", "serve", "blocked"} => Len(fds) = NumSocks

\* Attempts are numbered upwards, and their connections made in order.
MadeInv ==
  \A x \in made :
    /\ x.try \in 1..try[x.client]
    /\ x.try = try[x.client] /\ on[x.client] > 0 => x.role < on[x.client]

\* A client without connections has seen nothing, and one with connections has
\* started.
SeenInv == \A c \in Clients : on[c] = 0 => seen[c] = 0
StartedInv == \A c \in Clients : on[c] > 0 => try[c] > 0

Inv ==
  /\ TypeOK /\ HeldInv /\ VerifiedInv /\ MadeInv /\ SeenInv /\ StartedInv
  /\ ConnectionsAccounted /\ SessionAgreement

USE SessionsAssumption DEF SessionsAssumption

----------------------------------------------------------------------------
(* Sequences *)

\* What appending to a sequence does to its elements.
LEMMA AppendFacts ==
  ASSUME NEW S, NEW s \in Seq(S), NEW x \in S
  PROVE  /\ Append(s, x) \in Seq(S)
         /\ Len(Append(s, x)) = Len(s) + 1
         /\ \A k \in 1..Len(s) : Append(s, x)[k] = s[k]
         /\ Append(s, x)[Len(s) + 1] = x
         /\ Range(Append(s, x)) = Range(s) \cup {x}
         /\ IsInjective(s) /\ x \notin Range(s) => IsInjective(Append(s, x))
<1>1. /\ Append(s, x) \in Seq(S)
      /\ Len(Append(s, x)) = Len(s) + 1
      /\ \A k \in 1..Len(s) : Append(s, x)[k] = s[k]
      /\ Append(s, x)[Len(s) + 1] = x
  OBVIOUS
<1>2. DOMAIN s = 1..Len(s) /\ DOMAIN Append(s, x) = 1..(Len(s) + 1) /\ Len(s) \in Nat
  OBVIOUS
<1>3. Range(Append(s, x)) = Range(s) \cup {x}
  BY <1>1, <1>2 DEF Range
<1>4. IsInjective(s) /\ x \notin Range(s) => IsInjective(Append(s, x))
  BY <1>1, <1>2 DEF Range, IsInjective
<1> QED BY <1>1, <1>3, <1>4

\* What taking the head of a sequence does to its elements.
LEMMA TailFacts ==
  ASSUME NEW S, NEW s \in Seq(S), s # <<>>
  PROVE  /\ Head(s) \in S /\ Tail(s) \in Seq(S) /\ Len(Tail(s)) = Len(s) - 1
         /\ Range(s) = Range(Tail(s)) \cup {Head(s)}
         /\ IsInjective(s) => IsInjective(Tail(s)) /\ Head(s) \notin Range(Tail(s))
<1>1. /\ Head(s) \in S /\ Tail(s) \in Seq(S) /\ Len(Tail(s)) = Len(s) - 1
      /\ Head(s) = s[1] /\ \A k \in 1..(Len(s) - 1) : Tail(s)[k] = s[k + 1]
      /\ Len(s) \in Nat \ {0}
  OBVIOUS
<1>2. DOMAIN s = 1..Len(s) /\ DOMAIN Tail(s) = 1..(Len(s) - 1)
  BY <1>1
<1>3. Range(s) \subseteq Range(Tail(s)) \cup {Head(s)}
  <2> SUFFICES ASSUME NEW k \in 1..Len(s), k # 1 PROVE s[k] \in Range(Tail(s))
    BY <1>1, <1>2 DEF Range
  <2>1. k - 1 \in 1..(Len(s) - 1) /\ Tail(s)[k - 1] = s[k]
    BY <1>1
  <2> QED BY <1>2, <2>1 DEF Range
<1>4. Range(Tail(s)) \cup {Head(s)} \subseteq Range(s)
  <2>1. 1 \in 1..Len(s) /\ \A k \in 1..(Len(s) - 1) : k + 1 \in 1..Len(s)
    BY <1>1
  <2> QED BY <1>1, <1>2, <2>1 DEF Range
<1>5. ASSUME IsInjective(s) PROVE IsInjective(Tail(s)) /\ Head(s) \notin Range(Tail(s))
  BY <1>1, <1>2, <1>5 DEF Range, IsInjective
<1> QED BY <1>1, <1>3, <1>4, <1>5

LEMMA EmptyFacts == Range(<<>>) = {} /\ IsInjective(<<>>) /\ Len(<<>>) = 0
  BY DEF Range, IsInjective

\* The elements of a sequence.
LEMMA RangeFacts ==
  ASSUME NEW S, NEW s \in Seq(S)
  PROVE  Range(s) \subseteq S /\ \A k \in 1..Len(s) : s[k] \in Range(s)
  BY DEF Range

----------------------------------------------------------------------------
(* Types *)

LEMMA InitInv == Init => Inv
<1> SUFFICES ASSUME Init PROVE Inv
  OBVIOUS
<1>1. TypeOK
  BY EmptyFacts DEF Init, TypeOK
<1>2. HeldInv /\ VerifiedInv /\ MadeInv /\ SeenInv /\ StartedInv
  BY DEF Init, HeldInv, VerifiedInv, MadeInv, SeenInv, StartedInv
<1>3. ConnectionsAccounted
  BY EmptyFacts DEF Init, ConnectionsAccounted
<1>4. SessionAgreement
  BY DEF Init, SessionAgreement, Served
<1> QED BY <1>1, <1>2, <1>3, <1>4 DEF Inv

\* The connection a held or queued element is.
LEMMA HeldAreConns ==
  ASSUME TypeOK, fds # <<>>
  PROVE  /\ Ctrl \in Conn /\ Newest \in Conn
         /\ Ctrl \in Range(fds) /\ Newest \in Range(fds)
         /\ Len(fds) \in Nat \ {0}
<1>1. fds \in Seq(Conn) /\ Len(fds) \in Nat \ {0}
  BY DEF TypeOK
<1>2. 1 \in 1..Len(fds) /\ Len(fds) \in 1..Len(fds)
  BY <1>1
<1>3. Ctrl \in Range(fds) /\ Newest \in Range(fds) /\ Range(fds) \subseteq Conn
  <2>1. Range(fds) \subseteq Conn /\ \A k \in 1..Len(fds) : fds[k] \in Range(fds)
    BY <1>1, RangeFacts
  <2> QED BY <1>2, <2>1 DEF Ctrl, Newest
<1> QED BY <1>1, <1>3

\* While a client is served nothing changes hands but what reject_client takes.
LEMMA ServedFacts ==
  ASSUME ServedSteps
  PROVE  /\ srv \in {"serve", "blocked"} /\ srv' \in {"serve", "blocked", "close"}
         /\ UNCHANGED <<fds, backlog, dead, dirty, try, on, seen, sent, made>>
  BY DEF ServedSteps, Block, ClientGoesOn, BlockedCallFails, ClientLeft, Disconnect, clientVars

LEMMA NextType == Inv /\ [Next]_vars => TypeOK'
<1> SUFFICES ASSUME Inv, [Next]_vars PROVE TypeOK'
  OBVIOUS
<1> USE DEF Inv, clientVars
<1>t. TypeOK
  OBVIOUS
<1>1. ASSUME NEW c \in Clients, NEW t \in Nat, NEW r \in 0..(NumSocks - 1), Connect(c, t, r),
             try' \in [Clients -> Nat] /\ \A d \in Clients : try'[d] <= MaxTries[d]
      PROVE  TypeOK'
  <2>1. ConnOf(c, t, r) \in Conn
    BY DEF ConnOf, Conn
  <2>2. backlog' \in Seq(Conn) /\ Len(backlog') = Len(backlog) + 1
    BY <1>1, <2>1, <1>t, AppendFacts DEF Connect, TypeOK
  <2>3. Len(backlog') <= MaxListen
    BY <1>1, <2>2, <1>t DEF Connect, TypeOK
  <2>4. on' \in [Clients -> 0..NumSocks] /\ made' \subseteq Conn
    BY <1>1, <2>1, <1>t DEF Connect, TypeOK
  <2> QED BY <1>1, <2>2, <2>3, <2>4, <1>t DEF Connect, TypeOK
<1>2. ASSUME NEW c \in Clients, StartTry(c) PROVE TypeOK'
  <2>1. try[c] + 1 \in Nat /\ 0 \in 0..(NumSocks - 1) /\ Connect(c, try[c] + 1, 0)
    BY <1>2, <1>t DEF StartTry, TypeOK
  <2>2. try' \in [Clients -> Nat] /\ \A d \in Clients : try'[d] <= MaxTries[d]
    BY <1>2, <1>t DEF StartTry, TypeOK
  <2> QED BY <2>1, <2>2, <1>1
<1>3. ASSUME NEW c \in Clients, ConnectNext(c) PROVE TypeOK'
  <2>1. try[c] \in Nat /\ on[c] \in 0..(NumSocks - 1) /\ Connect(c, try[c], on[c])
    BY <1>3, <1>t DEF ConnectNext, TypeOK
  <2>2. try' \in [Clients -> Nat] /\ \A d \in Clients : try'[d] <= MaxTries[d]
    BY <1>3, <1>t DEF ConnectNext, TypeOK
  <2> QED BY <2>1, <2>2, <1>1
<1>4. ASSUME NEW c \in Clients, Announce(c) PROVE TypeOK'
  <2>1. ConnOf(c, try[c], on[c] - 1) \in Conn
    BY <1>4, <1>t DEF Announce, TypeOK, ConnOf, Conn
  <2> QED BY <1>4, <2>1, <1>t DEF Announce, TypeOK
<1>5. ASSUME NEW c \in Clients, Leave(c) PROVE TypeOK'
  BY <1>5, <1>t DEF Leave, TypeOK
<1>6. ASSUME NEW how \in {"stopped", "killed"}, Halt(how) PROVE TypeOK'
  <2>1. Range(fds) \subseteq Conn /\ Range(backlog) \subseteq Conn
    BY <1>t, RangeFacts DEF TypeOK
  <2> QED BY <1>6, <2>1, <1>t, EmptyFacts DEF Halt, TypeOK
<1>7. CASE InitDriver
  BY <1>7, <1>6, <1>t DEF InitDriver, TypeOK
<1>8. CASE Accept
  <2>1. /\ Head(backlog) \in Conn /\ backlog' \in Seq(Conn) /\ Len(backlog') = Len(backlog) - 1
    BY <1>8, <1>t, TailFacts DEF Accept, TypeOK
  <2>2. fds' \in Seq(Conn) /\ Len(fds') = Len(fds) + 1
    BY <1>8, <2>1, <1>t, AppendFacts DEF Accept, TypeOK
  <2>3. Len(fds) < NumSocks
    BY <1>8 DEF Accept, Accepting, HeldInv
  <2>4. Len(fds') <= NumSocks /\ Len(backlog') <= MaxListen
    BY <2>1, <2>2, <2>3, <1>t DEF TypeOK
  <2> QED BY <1>8, <2>1, <2>2, <2>4, <1>t DEF Accept, TypeOK
<1>9. CASE AcceptFails
  BY <1>9, <1>t DEF AcceptFails, TypeOK
<1>10. ASSUME NEW x \in Conn, NEW answer \in 0..(NumSocks + 2), Receives(x, answer)
       PROVE  seen' \in [Clients -> 0..(NumSocks + 2)]
  BY <1>10, <1>t DEF Receives, TypeOK, Conn
<1>11. ASSUME NEW x \in Conn, SendSucceeds(x) \/ SendFails(x) PROVE dirty' \subseteq Conn
  BY <1>11, <1>t DEF SendSucceeds, SendFails, TypeOK
<1>12. CASE Greet
  <2>1. fds # <<>>
    BY <1>12, EmptyFacts DEF Greet, HeldInv
  <2>2. Ctrl \in Conn /\ 1 \in 0..(NumSocks + 2)
    BY <2>1, <1>t, HeldAreConns
  <2>3. dirty' \subseteq Conn
    BY <1>12, <2>2, <1>11 DEF Greet
  <2>4. seen' \in [Clients -> 0..(NumSocks + 2)]
    BY <1>12, <2>2, <1>10, <1>t DEF Greet, TypeOK
  <2> QED BY <1>12, <2>3, <2>4, <1>t DEF Greet, TypeOK
<1>13. CASE Recv
  <2>1. fds # <<>>
    BY <1>13, EmptyFacts DEF Recv, HeldInv
  <2>2. Newest \in Conn
    BY <2>1, <1>t, HeldAreConns
  <2> QED BY <1>13, <2>2, <1>t DEF Recv, TypeOK
<1>14. CASE Answer
  <2>1. fds # <<>>
    BY <1>14, EmptyFacts DEF Answer, HeldInv
  <2>2. Newest \in Conn /\ Len(fds) + 1 \in 0..(NumSocks + 2)
    BY <2>1, <1>t, HeldAreConns DEF TypeOK
  <2>3. dirty' \subseteq Conn
    BY <1>14, <2>2, <1>11 DEF Answer
  <2>4. seen' \in [Clients -> 0..(NumSocks + 2)]
    BY <1>14, <2>2, <1>10, <1>t DEF Answer, TypeOK
  <2> QED BY <1>14, <2>3, <2>4, <1>t DEF Answer, TypeOK
<1>15. CASE Mismatch
  <2>1. fds # <<>>
    BY <1>15, EmptyFacts DEF Mismatch, HeldInv
  <2>2. dirty' \subseteq Conn
    BY <1>15, <2>1, <1>t, <1>11, HeldAreConns DEF Mismatch
  <2> QED BY <1>15, <2>2, <1>t DEF Mismatch, TypeOK
<1>16. CASE Refuse
  <2>1. dirty' \subseteq Conn
    BY <1>16, <1>t, <1>11, HeldAreConns DEF Refuse, TypeOK
  <2> QED BY <1>16, <2>1, <1>t DEF Refuse, TypeOK
<1>17. CASE Ready
  <2>1. fds # <<>>
    BY <1>17, EmptyFacts DEF Ready, HeldInv
  <2>2. Ctrl \in Conn /\ NumSocks + 2 \in 0..(NumSocks + 2)
    BY <2>1, <1>t, HeldAreConns
  <2>3. dirty' \subseteq Conn
    BY <1>17, <2>2, <1>11 DEF Ready
  <2>4. seen' \in [Clients -> 0..(NumSocks + 2)]
    BY <1>17, <2>2, <1>10, <1>t DEF Ready, TypeOK
  <2> QED BY <1>17, <2>3, <2>4, <1>t DEF Ready, TypeOK
<1>18. CASE SigPipe
  BY <1>18, <1>6 DEF SigPipe
<1>19. CASE RejectClient
  <2>1. Head(backlog) \in Conn /\ backlog' \in Seq(Conn) /\ Len(backlog') = Len(backlog) - 1
    BY <1>19, <1>t, TailFacts DEF RejectClient, TypeOK
  <2> QED BY <1>19, <2>1, <1>t DEF RejectClient, TypeOK
<1>20. CASE ServedSteps
  BY <1>20, <1>t, ServedFacts DEF TypeOK
<1>22. CASE close_client_conn
  <2>1. Range(fds) \subseteq Conn
    BY <1>t, RangeFacts DEF TypeOK
  <2> QED BY <1>22, <2>1, <1>t, EmptyFacts DEF close_client_conn, TypeOK
<1>23. CASE UNCHANGED vars
  BY <1>23, <1>t DEF vars, TypeOK
<1> QED BY <1>2, <1>3, <1>4, <1>5, <1>7, <1>8, <1>9, <1>12, <1>13, <1>14, <1>15, <1>16, <1>17, <1>18,
           <1>19, <1>20, <1>22, <1>23 DEF Next, ClientSteps, Handshake
----------------------------------------------------------------------------
(* The server's view: how many connections it holds, and whose they are *)

\* Only these steps change what the server holds or where it is.
LEMMA NextHeld == Inv /\ [Next]_vars => HeldInv' /\ VerifiedInv'
<1> SUFFICES ASSUME Inv, [Next]_vars PROVE HeldInv' /\ VerifiedInv'
  OBVIOUS
<1> USE DEF Inv, clientVars
<1>t. TypeOK /\ Len(fds) \in Nat /\ (fds = <<>> <=> Len(fds) = 0)
  BY DEF TypeOK
<1>1. ASSUME UNCHANGED <<srv, fds>> PROVE HeldInv' /\ VerifiedInv'
  BY <1>1 DEF HeldInv, VerifiedInv, Verified, Ctrl
<1>2. ASSUME NEW c \in Clients, ClientSteps(c) PROVE UNCHANGED <<srv, fds>>
  BY <1>2 DEF ClientSteps, StartTry, ConnectNext, Connect, Announce, Leave
<1>3. ASSUME NEW how \in {"stopped", "killed"}, Halt(how) PROVE HeldInv' /\ VerifiedInv'
  BY <1>3 DEF Halt, HeldInv, VerifiedInv
<1>4. CASE InitDriver
  <2>1. CASE Halt("stopped")
    BY <2>1, <1>3
  <2>2. CASE ~Halt("stopped")
    <3>1. srv = "init" /\ srv' = "accept" /\ fds = <<>> /\ fds' = <<>>
      BY <1>4, <2>2 DEF InitDriver, HeldInv
    <3> QED BY <3>1, EmptyFacts DEF HeldInv, VerifiedInv, Verified
  <2> QED BY <2>1, <2>2
<1>5. CASE Accept
  <2>1. /\ srv = "accept" /\ Head(backlog) \in Conn
        /\ fds' = Append(fds, Head(backlog))
        /\ srv' \in {"greet", "recv", "refuse"} /\ (srv' = "greet" <=> fds = <<>>)
    BY <1>5, <1>t, TailFacts DEF Accept, Accepting, TypeOK
  <2>2. Len(fds') = Len(fds) + 1 /\ \A k \in 1..Len(fds) : fds'[k] = fds[k]
    BY <2>1, <1>t, AppendFacts DEF TypeOK
  <2>3. HeldInv'
    BY <2>1, <2>2, <1>t DEF HeldInv
  <2>4. ASSUME srv' = "recv" PROVE VerifiedInv'
    <3>1. Len(fds) \in Nat \ {0}
      BY <2>1, <2>4, <1>t
    <3>2. 1 \in 1..Len(fds) /\ Ctrl' = Ctrl
      BY <3>1, <2>2 DEF Ctrl
    <3>3. Verified = Len(fds) /\ Verified' = Len(fds)
      BY <2>1, <2>2, <2>4, <1>t DEF Verified
    <3>4. \A k \in 1..Verified : fds[k] = ConnOf(Ctrl.client, Ctrl.try, k - 1)
      BY <2>1 DEF VerifiedInv
    <3>5. \A k \in 1..Verified' : fds'[k] = ConnOf(Ctrl'.client, Ctrl'.try, k - 1)
      BY <3>2, <3>3, <3>4, <2>2
    <3> QED BY <3>5, <2>4 DEF VerifiedInv
  <2> QED BY <2>1, <2>3, <2>4 DEF VerifiedInv
<1>6. CASE AcceptFails \/ Refuse
  BY <1>6 DEF AcceptFails, Refuse, HeldInv, VerifiedInv
<1>16. CASE ServedSteps
  <2>1. /\ srv \in {"serve", "blocked"} /\ srv' \in {"serve", "blocked", "close"}
        /\ fds' = fds /\ Ctrl' = Ctrl
    BY <1>16, ServedFacts DEF Ctrl
  <2> QED BY <2>1 DEF HeldInv, VerifiedInv, Verified
<1>7. CASE Greet
  <2>1. srv = "greet" /\ fds' = fds /\ srv' \in {"recv", "refuse"} /\ Len(fds) = 1
    BY <1>7 DEF Greet, HeldInv
  <2> QED BY <2>1 DEF HeldInv, VerifiedInv, Verified
<1>8. CASE Recv
  <2>1. srv = "recv" /\ fds' = fds /\ Len(fds) \in Nat \ {0} /\ Ctrl' = Ctrl
    BY <1>8, <1>t DEF Recv, HeldInv, Ctrl
  <2>2. \A k \in 1..(Len(fds) - 1) : fds[k] = ConnOf(Ctrl.client, Ctrl.try, k - 1)
    BY <2>1 DEF VerifiedInv, Verified
  <2>3. ASSUME srv' = "answer" PROVE VerifiedInv'
    <3>1. Expected(Newest) /\ Newest \in Conn
      BY <1>8, <2>1, <2>3, <1>t, HeldAreConns DEF Recv
    <3>2. Newest.client = Ctrl.client /\ Newest.try = Ctrl.try /\ Newest.role = Len(fds) - 1
      BY <3>1 DEF Expected, ConnOf
    <3>3. Newest = ConnOf(Ctrl.client, Ctrl.try, Len(fds) - 1)
      BY <3>1, <3>2 DEF Conn, ConnOf
    <3>4. \A k \in 1..Len(fds) : fds[k] = ConnOf(Ctrl.client, Ctrl.try, k - 1)
      BY <2>1, <2>2, <3>3 DEF Newest
    <3> QED BY <2>1, <2>3, <3>4 DEF VerifiedInv, Verified
  <2>4. srv' \in {"answer", "mismatch", "refuse"}
    BY <1>8 DEF Recv
  <2>5. srv' = "mismatch" => VerifiedInv'
    BY <2>1, <2>2 DEF VerifiedInv, Verified
  <2>6. srv' = "refuse" => VerifiedInv'
    BY DEF VerifiedInv
  <2>7. HeldInv'
    BY <2>1, <2>4, <1>t DEF HeldInv
  <2> QED BY <2>3, <2>4, <2>5, <2>6, <2>7
<1>9. CASE Answer
  <2>1. /\ srv = "answer" /\ fds' = fds /\ Len(fds) \in Nat \ {0} /\ Ctrl' = Ctrl
        /\ srv' \in {"ready", "accept", "refuse"}
        /\ srv' = "ready" => Len(fds) = NumSocks
        /\ srv' = "accept" => Len(fds) # NumSocks
    BY <1>9, <1>t DEF Answer, HeldInv, Ctrl
  <2>2. \A k \in 1..Len(fds) : fds[k] = ConnOf(Ctrl.client, Ctrl.try, k - 1)
    BY <2>1 DEF VerifiedInv, Verified
  <2>3. HeldInv'
    BY <2>1, <1>t DEF HeldInv, TypeOK
  <2>4. VerifiedInv'
    BY <2>1, <2>2 DEF VerifiedInv, Verified
  <2> QED BY <2>3, <2>4
<1>10. CASE Mismatch
  BY <1>10 DEF Mismatch, HeldInv, VerifiedInv
<1>11. CASE Ready
  <2>1. srv = "ready" /\ fds' = fds /\ Ctrl' = Ctrl /\ srv' \in {"serve", "close"}
    BY <1>11 DEF Ready, Ctrl
  <2> QED BY <2>1 DEF HeldInv, VerifiedInv, Verified
<1>12. CASE SigPipe
  BY <1>12, <1>3 DEF SigPipe
<1>13. CASE RejectClient
  BY <1>13, <1>1 DEF RejectClient
<1>14. CASE close_client_conn
  BY <1>14 DEF close_client_conn, HeldInv, VerifiedInv
<1>15. CASE UNCHANGED vars
  BY <1>15, <1>1 DEF vars
<1> QED BY <1>1, <1>2, <1>4, <1>5, <1>6, <1>7, <1>8, <1>9, <1>10, <1>11, <1>12, <1>13, <1>14, <1>15, <1>16
           DEF Next, Handshake
----------------------------------------------------------------------------
(* Where the connections are *)

\* Connections move from the backlog to client_conn to the closed ones.
LEMMA NextAccounted == Inv /\ [Next]_vars => ConnectionsAccounted' /\ MadeInv'
<1> SUFFICES ASSUME Inv, [Next]_vars PROVE ConnectionsAccounted' /\ MadeInv'
  OBVIOUS
<1> USE DEF Inv, clientVars
<1>t. TypeOK /\ fds \in Seq(Conn) /\ backlog \in Seq(Conn)
  BY DEF TypeOK
<1>a. ConnectionsAccounted
  OBVIOUS
<1>1. ASSUME UNCHANGED <<fds, backlog, dead, made>>
      PROVE  ConnectionsAccounted'
  BY <1>1, <1>a DEF ConnectionsAccounted
<1>2. ASSUME UNCHANGED <<try, on, made>> PROVE MadeInv'
  BY <1>2 DEF MadeInv
<1>3. ASSUME NEW c \in Clients, NEW t \in Nat, NEW r \in 0..(NumSocks - 1), Connect(c, t, r),
             ConnOf(c, t, r) \notin made
      PROVE  ConnectionsAccounted'
  <2> DEFINE x == ConnOf(c, t, r)
  <2>1. x \in Conn
    BY DEF ConnOf, Conn
  <2>2. backlog' = Append(backlog, x) /\ made' = made \cup {x} /\ fds' = fds /\ dead' = dead
    BY <1>3 DEF Connect
  <2> HIDE DEF x
  <2>3. Range(backlog') = Range(backlog) \cup {x}
    BY <2>1, <2>2, <1>t, AppendFacts
  <2>4. x \notin made
    BY <1>3 DEF x
  <2>5. IsInjective(backlog')
    BY <2>1, <2>2, <2>4, <1>t, <1>a, AppendFacts DEF ConnectionsAccounted
  <2> QED BY <2>2, <2>3, <2>4, <2>5, <1>a DEF ConnectionsAccounted
<1>4. ASSUME NEW c \in Clients, StartTry(c) PROVE ConnectionsAccounted' /\ MadeInv'
  <2>1. /\ try[c] + 1 \in Nat /\ 0 \in 0..(NumSocks - 1) /\ Connect(c, try[c] + 1, 0)
        /\ try' = [try EXCEPT ![c] = try[c] + 1] /\ try \in [Clients -> Nat]
        /\ on' = [on EXCEPT ![c] = 1] /\ on \in [Clients -> 0..NumSocks]
        /\ made' = made \cup {ConnOf(c, try[c] + 1, 0)} /\ made \subseteq Conn
    BY <1>4, <1>t DEF StartTry, Connect, TypeOK
  <2>2. ConnOf(c, try[c] + 1, 0) \notin made
    BY <2>1 DEF MadeInv, ConnOf
  <2>3. ASSUME NEW x \in made PROVE
          /\ x.try \in 1..try'[x.client]
          /\ x.try = try'[x.client] /\ on'[x.client] > 0 => x.role < on'[x.client]
    <3>1. x.client \in Clients /\ x.try \in 1..try[x.client]
      BY <2>1, <2>3 DEF Conn, MadeInv
    <3>2. CASE x.client = c
      BY <2>1, <3>1, <3>2
    <3>3. CASE x.client # c
      BY <2>1, <2>3, <3>1, <3>3 DEF MadeInv
    <3> QED BY <3>2, <3>3
  <2>4. MadeInv'
    BY <2>1, <2>3 DEF MadeInv, ConnOf
  <2> QED BY <2>1, <2>2, <2>4, <1>3
<1>5. ASSUME NEW c \in Clients, ConnectNext(c) PROVE ConnectionsAccounted' /\ MadeInv'
  <2>1. /\ try[c] \in Nat /\ on[c] \in 1..(NumSocks - 1) /\ Connect(c, try[c], on[c])
        /\ try' = try /\ try \in [Clients -> Nat]
        /\ on' = [on EXCEPT ![c] = on[c] + 1] /\ on \in [Clients -> 0..NumSocks]
        /\ made' = made \cup {ConnOf(c, try[c], on[c])} /\ made \subseteq Conn
    BY <1>5, <1>t DEF ConnectNext, Connect, TypeOK
  <2>2. ConnOf(c, try[c], on[c]) \notin made
    BY <2>1 DEF MadeInv, ConnOf
  <2>3. ASSUME NEW x \in made PROVE
          /\ x.try \in 1..try'[x.client]
          /\ x.try = try'[x.client] /\ on'[x.client] > 0 => x.role < on'[x.client]
    <3>1. x.client \in Clients /\ x.try \in 1..try[x.client] /\ x.role \in Nat
      BY <2>1, <2>3 DEF Conn, MadeInv
    <3> QED BY <2>1, <2>3, <3>1 DEF MadeInv
  <2>4. on[c] \in 0..(NumSocks - 1) /\ ConnectionsAccounted'
    BY <2>1, <2>2, <1>3
  <2>5. 1 <= try[c]
    <3>1. try[c] \in Nat /\ on[c] > 0
      BY <2>1
    <3>2. on[c] > 0 => try[c] > 0
      BY DEF StartedInv
    <3> QED BY <3>1, <3>2
  <2>6. MadeInv'
    BY <2>1, <2>3, <2>5 DEF MadeInv, ConnOf
  <2> QED BY <2>4, <2>6
<1>6. ASSUME NEW c \in Clients, Announce(c) PROVE ConnectionsAccounted' /\ MadeInv'
  BY <1>6, <1>1, <1>2 DEF Announce
<1>7. ASSUME NEW c \in Clients, Leave(c) PROVE ConnectionsAccounted' /\ MadeInv'
  <2>1. ConnectionsAccounted'
    BY <1>7, <1>1 DEF Leave
  <2>2. on' = [on EXCEPT ![c] = 0] /\ try' = try /\ made' = made /\ on \in [Clients -> 0..NumSocks]
        /\ made \subseteq Conn
    BY <1>7, <1>t DEF Leave, TypeOK
  <2>3. MadeInv'
    BY <2>2 DEF MadeInv, Conn
  <2> QED BY <2>1, <2>3
<1>8. ASSUME NEW how \in {"stopped", "killed"}, Halt(how) PROVE ConnectionsAccounted' /\ MadeInv'
  <2>1. ConnectionsAccounted'
    BY <1>8, <1>a, EmptyFacts DEF Halt, ConnectionsAccounted
  <2> QED BY <2>1, <1>8, <1>2 DEF Halt
<1>9. CASE InitDriver
  BY <1>9, <1>1, <1>2, <1>8 DEF InitDriver
<1>10. CASE Accept
  <2>1. /\ backlog # <<>> /\ fds' = Append(fds, Head(backlog)) /\ backlog' = Tail(backlog)
        /\ UNCHANGED <<dead, made, try, on>>
    BY <1>10 DEF Accept
  <2>2. /\ Head(backlog) \in Conn
        /\ Range(backlog) = Range(backlog') \cup {Head(backlog)}
        /\ IsInjective(backlog') /\ Head(backlog) \notin Range(backlog')
    BY <2>1, <1>t, <1>a, TailFacts DEF ConnectionsAccounted
  <2>3. Head(backlog) \notin Range(fds)
    BY <2>2, <1>a DEF ConnectionsAccounted
  <2>4. Range(fds') = Range(fds) \cup {Head(backlog)} /\ IsInjective(fds')
    BY <2>1, <2>2, <2>3, <1>t, <1>a, AppendFacts DEF ConnectionsAccounted
  <2>5. ConnectionsAccounted'
    BY <2>1, <2>2, <2>3, <2>4, <1>a DEF ConnectionsAccounted
  <2> QED BY <2>1, <2>5, <1>2
<1>11. CASE RejectClient
  <2>1. /\ backlog # <<>> /\ backlog' = Tail(backlog) /\ dead' = dead \cup {Head(backlog)}
        /\ UNCHANGED <<fds, made, try, on>>
    BY <1>11 DEF RejectClient
  <2>2. /\ Range(backlog) = Range(backlog') \cup {Head(backlog)}
        /\ IsInjective(backlog') /\ Head(backlog) \notin Range(backlog')
    BY <2>1, <1>t, <1>a, TailFacts DEF ConnectionsAccounted
  <2>3. ConnectionsAccounted'
    BY <2>1, <2>2, <1>a DEF ConnectionsAccounted
  <2> QED BY <2>1, <2>3, <1>2
<1>12. CASE close_client_conn
  <2>1. ConnectionsAccounted'
    BY <1>12, <1>a, EmptyFacts DEF close_client_conn, ConnectionsAccounted
  <2> QED BY <2>1, <1>12, <1>2 DEF close_client_conn
<1>13. CASE SigPipe
  BY <1>13, <1>8 DEF SigPipe
<1>14. CASE AcceptFails \/ Greet \/ Recv \/ Answer \/ Mismatch \/ Refuse \/ Ready
            \/ ServedSteps \/ UNCHANGED vars
  <2>1. UNCHANGED <<fds, backlog, dead, made, try, on>>
    BY <1>14, ServedFacts DEF AcceptFails, Greet, Recv, Answer, Mismatch, Refuse, Ready, vars
  <2> QED BY <2>1, <1>1, <1>2
<1> QED BY <1>4, <1>5, <1>6, <1>7, <1>9, <1>10, <1>11, <1>12, <1>13, <1>14
           DEF Next, ClientSteps, Handshake
----------------------------------------------------------------------------
(* The clients' view *)

LEMMA NextSeen == Inv /\ [Next]_vars => SeenInv' /\ StartedInv'
<1> SUFFICES ASSUME Inv, [Next]_vars PROVE SeenInv' /\ StartedInv'
  OBVIOUS
<1> USE DEF Inv, clientVars, SeenInv, StartedInv
<1>t. TypeOK /\ try \in [Clients -> Nat] /\ on \in [Clients -> 0..NumSocks]
      /\ seen \in [Clients -> 0..(NumSocks + 2)]
  BY DEF TypeOK
<1>1. ASSUME NEW c \in Clients, ClientSteps(c) PROVE SeenInv' /\ StartedInv'
  <2>1. CASE StartTry(c)
    <3>1. /\ try' = [try EXCEPT ![c] = try[c] + 1] /\ on' = [on EXCEPT ![c] = 1] /\ seen' = seen
      BY <2>1, <1>t DEF StartTry, Connect
    <3> QED BY <3>1, <1>t
  <2>2. CASE ConnectNext(c)
    <3>1. on[c] > 0 /\ try' = try /\ on' = [on EXCEPT ![c] = on[c] + 1] /\ seen' = seen
      BY <2>2, <1>t DEF ConnectNext, Connect
    <3> QED BY <3>1, <1>t
  <2>3. CASE Announce(c)
    BY <2>3 DEF Announce
  <2>4. CASE Leave(c)
    BY <2>4, <1>t DEF Leave
  <2> QED BY <1>1, <2>1, <2>2, <2>3, <2>4 DEF ClientSteps
<1>2. ASSUME UNCHANGED <<try, on, seen>> PROVE SeenInv' /\ StartedInv'
  BY <1>2
<1>3. ASSUME NEW x \in Conn, NEW a, Receives(x, a), UNCHANGED <<try, on>>
      PROVE SeenInv' /\ StartedInv'
  <2>1. x.client \in Clients /\ (on[x.client] = 0 => seen' = seen)
    BY <1>3 DEF Receives, Closed, Conn
  <2>2. \A c \in Clients : c # x.client => seen'[c] = seen[c]
    BY <1>3, <2>1, <1>t DEF Receives
  <2> QED BY <1>3, <2>1, <2>2
<1>4. CASE Greet \/ Answer \/ Ready
  <2>1. fds # <<>> /\ UNCHANGED <<try, on>>
    BY <1>4, EmptyFacts DEF Greet, Answer, Ready, HeldInv
  <2>2. Ctrl \in Conn /\ Newest \in Conn
    BY <2>1, <1>t, HeldAreConns
  <2>3. \/ UNCHANGED seen \/ Receives(Ctrl, 1) \/ Receives(Newest, Len(fds) + 1)
        \/ Receives(Ctrl, NumSocks + 2)
    BY <1>4 DEF Greet, Answer, Ready
  <2> QED BY <2>1, <2>2, <2>3, <1>2, <1>3
<1>5. CASE InitDriver \/ Accept \/ AcceptFails \/ Recv \/ Mismatch \/ Refuse \/ SigPipe
           \/ RejectClient \/ ServedSteps \/ close_client_conn \/ UNCHANGED vars
  <2>1. UNCHANGED <<try, on, seen>>
    BY <1>5, ServedFacts
       DEF InitDriver, Accept, AcceptFails, Recv, Mismatch, Refuse, SigPipe, Halt, RejectClient,
           close_client_conn, vars
  <2> QED BY <2>1, <1>2
<1> QED BY <1>1, <1>4, <1>5 DEF Next, Handshake

\* When the last READY is sent, the connections are those of one attempt.
LEMMA ReadyIsSession ==
  ASSUME Inv, srv \in {"ready", "serve", "blocked"}
  PROVE  fds = Session(Ctrl.client, Ctrl.try)
<1>1. fds \in Seq(Conn) /\ Len(fds) = NumSocks
  BY DEF Inv, TypeOK, HeldInv
<1>2. \A k \in 1..NumSocks : fds[k] = ConnOf(Ctrl.client, Ctrl.try, k - 1)
  BY <1>1 DEF Inv, VerifiedInv, Verified
<1> QED BY <1>1, <1>2 DEF Session

LEMMA NextAgreement == Inv /\ [Next]_vars => SessionAgreement'
<1> SUFFICES ASSUME Inv, [Next]_vars, NEW d \in Clients, Served(d)', ~Dropped(d)'
             PROVE  srv' \in {"serve", "blocked", "close"} /\ fds' = Session(d, try'[d])
  BY DEF SessionAgreement
<1> USE DEF Inv, clientVars
<1>t. /\ TypeOK /\ try \in [Clients -> Nat] /\ on \in [Clients -> 0..NumSocks]
      /\ seen \in [Clients -> 0..(NumSocks + 2)]
  BY DEF TypeOK
<1>1. ASSUME seen'[d] = seen[d], on'[d] = on[d], try'[d] = try[d], dead \subseteq dead'
      PROVE  srv \in {"serve", "blocked", "close"} /\ fds = Session(d, try[d])
  <2>1. Served(d) /\ ~Dropped(d)
    BY <1>1 DEF Served, Dropped
  <2> QED BY <2>1 DEF SessionAgreement
<1>2. ASSUME NEW c \in Clients, ClientSteps(c)
      PROVE  srv' \in {"serve", "blocked", "close"} /\ fds' = Session(d, try'[d])
  <2>1. srv' = srv /\ fds' = fds /\ dead' = dead
    BY <1>2 DEF ClientSteps, StartTry, ConnectNext, Connect, Announce, Leave
  <2>2. c # d => seen'[d] = seen[d] /\ on'[d] = on[d] /\ try'[d] = try[d]
    BY <1>2, <1>t DEF ClientSteps, StartTry, ConnectNext, Connect, Announce, Leave
  <2>3. CASE c # d
    BY <2>1, <2>2, <2>3, <1>1
  <2>4. CASE c = d /\ (StartTry(c) \/ ConnectNext(c) \/ Leave(c))
    <3>1. seen'[d] # NumSocks + 2
      BY <2>4, <1>t DEF StartTry, ConnectNext, Connect, Leave, SeenInv
    <3> QED BY <3>1 DEF Served
  <2>5. CASE Announce(c)
    BY <2>1, <2>5, <1>1 DEF Announce
  <2> QED BY <1>2, <2>3, <2>4, <2>5 DEF ClientSteps
<1>3. CASE InitDriver \/ Accept \/ AcceptFails \/ Recv \/ Mismatch \/ Refuse \/ SigPipe
  <2>1. UNCHANGED <<try, on, seen>> /\ dead \subseteq dead' /\ srv \notin {"serve", "blocked", "close"}
    BY <1>3 DEF InitDriver, Accept, Accepting, AcceptFails, Recv, Mismatch, Refuse, SigPipe, Halt
  <2> QED BY <2>1, <1>1
<1>4. ASSUME NEW x \in Conn, NEW a \in Nat, Receives(x, a), seen'[d] = NumSocks + 2, a # NumSocks + 2
      PROVE  seen'[d] = seen[d]
  BY <1>4, <1>t DEF Receives, Conn
<1>5. CASE Greet \/ Answer
  <2>1. /\ fds # <<>> /\ UNCHANGED <<try, on, dead>> /\ srv \notin {"serve", "blocked", "close"}
        /\ Len(fds) \in 1..NumSocks
    <3>1. UNCHANGED <<try, on, dead>> /\ srv \in {"greet", "answer"}
      BY <1>5 DEF Greet, Answer
    <3>2. Len(fds) \in Nat /\ Len(fds) <= NumSocks
      BY DEF TypeOK
    <3>3. (srv = "greet" => Len(fds) = 1) /\ (srv = "answer" => Len(fds) > 0)
      BY DEF HeldInv
    <3>4. Len(fds) > 0
      BY <3>1, <3>2, <3>3
    <3> QED BY <3>1, <3>2, <3>4, EmptyFacts
  <2>2. Ctrl \in Conn /\ Newest \in Conn /\ 1 \in Nat /\ Len(fds) + 1 \in Nat
    BY <2>1, <1>t, HeldAreConns
  <2>3. seen'[d] = NumSocks + 2
    BY DEF Served
  <2>4. seen'[d] = seen[d]
    BY <1>5, <2>1, <2>2, <2>3, <1>4 DEF Greet, Answer
  <2> QED BY <2>1, <2>4, <1>1
<1>6. CASE Ready
  <2>1. /\ srv = "ready" /\ fds' = fds /\ UNCHANGED <<try, on, dead>> /\ fds # <<>>
    BY <1>6, EmptyFacts DEF Ready, HeldInv
  <2>2. Ctrl \in Conn
    BY <2>1, <1>t, HeldAreConns
  <2>3. seen'[d] # seen[d]
    BY <2>1, <1>1
  <2>4. srv' = "serve" /\ ~Closed(Ctrl) /\ Ctrl.client = d
    BY <1>6, <2>2, <2>3, <1>t DEF Ready, Receives, Conn
  <2>5. Ctrl.try = try[d]
    BY <2>4 DEF Closed
  <2> QED BY <2>1, <2>4, <2>5, ReadyIsSession
<1>7. CASE RejectClient \/ ServedSteps \/ UNCHANGED vars
  <2>1. /\ UNCHANGED <<try, on, seen, fds>> /\ dead \subseteq dead'
        /\ srv' = srv \/ srv' \in {"serve", "blocked", "close"}
    BY <1>7, ServedFacts DEF RejectClient, vars
  <2> QED BY <2>1, <1>1
<1>8. CASE close_client_conn
  <2>1. UNCHANGED <<try, on, seen>> /\ dead' = dead \cup Range(fds)
    BY <1>8 DEF close_client_conn
  <2>2. fds = Session(d, try[d])
    BY <2>1, <1>1
  <2>3. ConnOf(d, try[d], 0) \in Range(fds)
    <3>1. 1 \in 1..NumSocks /\ DOMAIN fds = 1..NumSocks /\ fds[1] = ConnOf(d, try[d], 1 - 1)
      BY <2>2 DEF Session
    <3>2. 1 - 1 = 0
      OBVIOUS
    <3> QED BY <3>1, <3>2 DEF Range
  <2>4. on[d] > 0
    BY <2>1, <1>t DEF Served, SeenInv
  <2>5. Dropped(d)'
    BY <2>1, <2>3, <2>4, <1>t DEF Dropped
  <2> QED BY <2>5
<1> QED BY <1>2, <1>3, <1>5, <1>6, <1>7, <1>8 DEF Next, Handshake

----------------------------------------------------------------------------
(* Theorems *)

LEMMA NextInv == Inv /\ [Next]_vars => Inv'
  BY NextType, NextHeld, NextAccounted, NextSeen, NextAgreement DEF Inv

\* The invariant the results below are read off: who owns every connection at
\* every step of server_main's loop.
THEOREM SessionsInvariant == Spec => []Inv
  BY InitInv, NextInv, PTL DEF Spec

\* TypeOK for any number of clients, sockets and attempts: client_conn never
\* holds more connections than it has places.
THEOREM SessionsTyped == Spec => []TypeOK
<1>1. Inv => TypeOK
  BY DEF Inv
<1> QED BY <1>1, SessionsInvariant, PTL

\* OneClientPerSession: handle_client never mixes two clients, or two attempts
\* of one client, however their connections are interleaved in the backlog.
THEOREM SessionsUnmixed == Spec => []OneClientPerSession
<1>1. Inv => OneClientPerSession
  <2> SUFFICES ASSUME Inv, srv \in {"ready", "serve", "blocked"}
               PROVE  \E c \in Clients : \E t \in 1..MaxTries[c] : fds = Session(c, t)
    BY DEF OneClientPerSession
  <2>1. fds = Session(Ctrl.client, Ctrl.try)
    BY ReadyIsSession
  <2>2. fds # <<>>
    BY EmptyFacts DEF Inv, HeldInv
  <2>3. Ctrl \in Conn /\ Ctrl \in made
    BY <2>2, HeldAreConns DEF Inv, ConnectionsAccounted
  <2>4. Ctrl.client \in Clients /\ Ctrl.try \in 1..try[Ctrl.client]
    BY <2>3 DEF Inv, MadeInv, Conn
  <2>5. Ctrl.try \in 1..MaxTries[Ctrl.client]
    BY <2>4 DEF Inv, TypeOK
  <2> QED BY <2>1, <2>4, <2>5
<1> QED BY <1>1, SessionsInvariant, PTL

\* SessionAgreement: a client that holds the last READY and has not been
\* dropped is the one handle_client works for.
THEOREM SessionsAgreed == Spec => []SessionAgreement
<1>1. Inv => SessionAgreement
  BY DEF Inv
<1> QED BY <1>1, SessionsInvariant, PTL

\* ConnectionsAccounted: no path through connect_client, handle_client and
\* close_client_conn leaks a connection or closes one twice.
THEOREM NoConnectionLeaked == Spec => []ConnectionsAccounted
<1>1. Inv => ConnectionsAccounted
  BY DEF Inv
<1> QED BY <1>1, SessionsInvariant, PTL

----------------------------------------------------------------------------
(* What the server waits for *)

\* A client connects again only after an answer to its last connection, and all
\* connections of its attempt have been made.
AnsweredFirst == \A c \in Clients : on[c] > 1 => on[c] <= seen[c]
AllMade == \A c \in Clients : \A r \in 0..(on[c] - 1) : ConnOf(c, try[c], r) \in made

\* A client whose first connection has not been accepted has heard nothing.
Unheard ==
  \A c \in Clients : on[c] > 0 /\ ConnOf(c, try[c], 0) \in Range(backlog) => seen[c] = 0

\* The client of the handshake has had an answer to each connection accepted
\* before, and none of its connections has been closed.
Answers == CASE srv = "greet" -> 0 [] srv = "accept" -> Len(fds) + 1 [] OTHER -> Len(fds)
Shaking == srv \in {"greet", "recv", "answer", "accept"} /\ fds # <<>>
InHandshake ==
  Shaking /\ Ctrl.role = 0 /\ ~Closed(Ctrl) =>
    /\ seen[Ctrl.client] = Answers
    /\ \A x \in dead : x.client = Ctrl.client => x.try # Ctrl.try

WaitInv == AnsweredFirst /\ AllMade /\ Unheard /\ InHandshake

LEMMA InitWaitInv == Init => WaitInv
  BY EmptyFacts DEF Init, WaitInv, AnsweredFirst, AllMade, Unheard, InHandshake, Shaking

\* A connection that is answered is the newest of its client's attempt.
LEMMA AnsweredConn ==
  ASSUME Inv, srv = "answer"
  PROVE  /\ fds # <<>> /\ Len(fds) \in 1..NumSocks
         /\ Ctrl \in Conn /\ Newest \in Conn
         /\ Ctrl = ConnOf(Ctrl.client, Ctrl.try, 0)
         /\ Newest.client = Ctrl.client /\ Newest.try = Ctrl.try
         /\ Ctrl \in Range(fds)
<1>1. fds # <<>> /\ Len(fds) \in 1..NumSocks
  BY EmptyFacts DEF Inv, HeldInv, TypeOK
<1>2. Ctrl \in Conn /\ Newest \in Conn /\ Ctrl \in Range(fds)
  BY <1>1, HeldAreConns DEF Inv
<1>3. \A k \in 1..Len(fds) : fds[k] = ConnOf(Ctrl.client, Ctrl.try, k - 1)
  BY DEF Inv, VerifiedInv, Verified
<1>4. Ctrl = ConnOf(Ctrl.client, Ctrl.try, 0)
  <2>1. fds[1] = ConnOf(Ctrl.client, Ctrl.try, 1 - 1) /\ 1 - 1 = 0
    BY <1>1, <1>3
  <2> QED BY <2>1 DEF Ctrl
<1>5. Newest = ConnOf(Ctrl.client, Ctrl.try, Len(fds) - 1)
  BY <1>1, <1>3 DEF Newest
<1> QED BY <1>1, <1>2, <1>4, <1>5 DEF ConnOf

\* What a client can do: its connections and answers before and after.
LEMMA ClientCases ==
  ASSUME Inv, NEW c \in Clients, ClientSteps(c)
  PROVE  /\ UNCHANGED <<srv, fds, dead>>
         /\ \A d \in Clients : d # c =>
              on'[d] = on[d] /\ try'[d] = try[d] /\ seen'[d] = seen[d]
         /\ \/ /\ on[c] = 0 /\ on'[c] = 1 /\ try'[c] = try[c] + 1 /\ seen'[c] = seen[c]
               /\ made' = made \cup {ConnOf(c, try'[c], 0)}
               /\ backlog' = Append(backlog, ConnOf(c, try'[c], 0))
            \/ /\ on[c] > 0 /\ on[c] < NumSocks /\ on'[c] = on[c] + 1 /\ try'[c] = try[c]
               /\ seen[c] = on[c] + 1 /\ seen'[c] = seen[c]
               /\ made' = made \cup {ConnOf(c, try[c], on[c])}
               /\ backlog' = Append(backlog, ConnOf(c, try[c], on[c]))
            \/ UNCHANGED <<on, try, seen, made, backlog>>
            \/ on'[c] = 0 /\ try'[c] = try[c] /\ UNCHANGED <<made, backlog>>
<1>t. /\ try \in [Clients -> Nat] /\ on \in [Clients -> 0..NumSocks]
      /\ seen \in [Clients -> 0..(NumSocks + 2)]
  BY DEF Inv, TypeOK
<1>1. CASE StartTry(c)
  BY <1>1, <1>t DEF StartTry, Connect
<1>2. CASE ConnectNext(c)
  BY <1>2, <1>t DEF ConnectNext, Connect
<1>3. CASE Announce(c)
  BY <1>3 DEF Announce
<1>4. CASE Leave(c)
  BY <1>4, <1>t DEF Leave
<1> QED BY <1>1, <1>2, <1>3, <1>4 DEF ClientSteps

LEMMA NextAllMade ==
  ASSUME Inv, AllMade, [Next]_vars
  PROVE  AllMade'
<1>t. on \in [Clients -> 0..NumSocks]
  BY DEF Inv, TypeOK
<1>1. ASSUME NEW c \in Clients, ClientSteps(c)
      PROVE  AllMade'
  <2>1. made \subseteq made'
    BY <1>1, ClientCases
  <2>2. ASSUME NEW d \in Clients, d # c, NEW r \in 0..(on'[d] - 1)
        PROVE  ConnOf(d, try'[d], r) \in made'
    BY <1>1, <2>1, <2>2, ClientCases DEF AllMade
  <2>3. ASSUME NEW r \in 0..(on'[c] - 1)
        PROVE  ConnOf(c, try'[c], r) \in made'
    <3>1. on[c] \in Nat
      BY <1>t
    <3>2. CASE on[c] = 0 /\ on'[c] = 1 /\ made' = made \cup {ConnOf(c, try'[c], 0)}
      <4>1. r = 0
        BY <3>2, <2>3
      <4> QED BY <3>2, <4>1
    <3>3. CASE /\ on'[c] = on[c] + 1 /\ try'[c] = try[c]
               /\ made' = made \cup {ConnOf(c, try[c], on[c])}
      <4>1. r = on[c] \/ r \in 0..(on[c] - 1)
        BY <3>1, <3>3, <2>3
      <4> QED BY <3>3, <4>1 DEF AllMade
    <3>4. CASE UNCHANGED <<on, try, made>>
      BY <3>4, <2>3 DEF AllMade
    <3>5. CASE on'[c] = 0
      BY <3>5, <2>3
    <3> QED BY <1>1, <3>2, <3>3, <3>4, <3>5, ClientCases
  <2> QED BY <2>2, <2>3 DEF AllMade
<1>2. CASE \/ Handshake \/ RejectClient \/ ServedSteps \/ close_client_conn
           \/ UNCHANGED vars
  <2>1. UNCHANGED <<try, on, made>>
    BY <1>2, ServedFacts
       DEF Handshake, InitDriver, Accept, AcceptFails, Greet, Recv, Answer, Mismatch, Refuse, Ready,
           SigPipe, Halt, RejectClient, close_client_conn, vars, clientVars
  <2> QED BY <2>1 DEF AllMade
<1> QED BY <1>1, <1>2 DEF Next

\* How answers reach a client: to the first connection of its attempt, while
\* that one is held by the server.
LEMMA AnswerCases ==
  ASSUME Inv, InHandshake, AnsweredFirst, Greet \/ Answer \/ Ready, NEW c \in Clients,
         seen'[c] # seen[c]
  PROVE  /\ Ctrl = ConnOf(c, try[c], 0) /\ Ctrl \in Range(fds) /\ ~Closed(Ctrl)
         /\ seen'[c] \in Nat /\ (on[c] > 1 => on[c] <= seen'[c])
<1>t. /\ try \in [Clients -> Nat] /\ on \in [Clients -> 0..NumSocks]
      /\ seen \in [Clients -> 0..(NumSocks + 2)] /\ NumSocks \in Nat \ {0} /\ TypeOK
  BY DEF Inv, TypeOK
<1>0. ASSUME NEW x \in Conn, NEW a \in Nat, Receives(x, a)
      PROVE  ~Closed(x) /\ x.client = c /\ seen'[c] = a
  BY <1>0, <1>t DEF Receives, Conn
<1>1. CASE Greet
  <2>1. srv = "greet" /\ Len(fds) = 1 /\ fds # <<>>
    BY <1>1, EmptyFacts DEF Greet, Inv, HeldInv
  <2>2. Ctrl \in Conn /\ Ctrl \in Range(fds)
    BY <2>1, <1>t, HeldAreConns
  <2>3. Ctrl.role = 0 /\ Receives(Ctrl, 1)
    BY <1>1 DEF Greet
  <2>4. ~Closed(Ctrl) /\ Ctrl.client = c /\ seen'[c] = 1
    BY <2>2, <2>3, <1>0
  <2>5. seen[c] = 0
    BY <2>1, <2>3, <2>4 DEF InHandshake, Shaking, Answers
  <2>6. ~(on[c] > 1)
    <3>1. on[c] \in Nat /\ (on[c] > 1 => on[c] <= 0)
      BY <2>5, <1>t DEF AnsweredFirst
    <3> QED BY <3>1
  <2>7. Ctrl = ConnOf(c, try[c], 0)
    BY <2>2, <2>3, <2>4 DEF Closed, Conn, ConnOf
  <2> QED BY <2>2, <2>4, <2>6, <2>7
<1>2. CASE Answer
  <2>1. srv = "answer" /\ Receives(Newest, Len(fds) + 1)
    BY <1>2 DEF Answer
  <2>2. /\ fds # <<>> /\ Len(fds) \in 1..NumSocks /\ Newest \in Conn
        /\ Ctrl = ConnOf(Ctrl.client, Ctrl.try, 0) /\ Ctrl \in Range(fds)
        /\ Newest.client = Ctrl.client /\ Newest.try = Ctrl.try
    BY <2>1, AnsweredConn
  <2>3. ~Closed(Newest) /\ Newest.client = c /\ seen'[c] = Len(fds) + 1
    BY <2>1, <2>2, <1>0
  <2>4. ~Closed(Ctrl) /\ Ctrl.try = try[c] /\ Ctrl.client = c
    BY <2>2, <2>3 DEF Closed
  <2>5. seen[c] = Len(fds)
    <3>1. Ctrl.role = 0
      BY <2>2 DEF ConnOf
    <3> QED BY <2>1, <2>2, <2>4, <3>1 DEF InHandshake, Shaking, Answers
  <2>6. on[c] \in Nat /\ (on[c] > 1 => on[c] <= Len(fds))
    BY <2>5, <1>t DEF AnsweredFirst
  <2> QED BY <2>2, <2>3, <2>4, <2>6
<1>3. CASE Ready
  <2>1. srv = "ready" /\ Receives(Ctrl, NumSocks + 2) /\ fds # <<>>
    BY <1>3, EmptyFacts DEF Ready, Inv, HeldInv
  <2>2. Ctrl \in Conn /\ Ctrl \in Range(fds)
    BY <2>1, <1>t, HeldAreConns
  <2>3. ~Closed(Ctrl) /\ Ctrl.client = c /\ seen'[c] = NumSocks + 2
    BY <2>1, <2>2, <1>0
  <2>4. Ctrl = ConnOf(Ctrl.client, Ctrl.try, 0)
    <3>1. fds = Session(Ctrl.client, Ctrl.try)
      BY <2>1, ReadyIsSession
    <3>2. fds[1] = ConnOf(Ctrl.client, Ctrl.try, 1 - 1) /\ 1 - 1 = 0
      BY <3>1 DEF Session
    <3> QED BY <3>2 DEF Ctrl
  <2>5. Ctrl.try = try[c]
    BY <2>3 DEF Closed
  <2>6. on[c] <= NumSocks + 2 /\ NumSocks + 2 \in Nat
    BY <1>t
  <2> QED BY <2>2, <2>3, <2>4, <2>5, <2>6
<1> QED BY <1>1, <1>2, <1>3

\* The server's other steps bring no answer, and no connection.
LEMMA SilentCases ==
  ASSUME Inv,
         \/ InitDriver \/ Accept \/ AcceptFails \/ Recv \/ Mismatch \/ Refuse \/ SigPipe
         \/ RejectClient \/ ServedSteps \/ close_client_conn \/ UNCHANGED vars
  PROVE  UNCHANGED <<try, on, seen, made>> /\ Range(backlog') \subseteq Range(backlog)
<1>t. backlog \in Seq(Conn)
  BY DEF Inv, TypeOK
<1>1. ASSUME NEW how, Halt(how)
      PROVE  UNCHANGED <<try, on, seen, made>> /\ Range(backlog') \subseteq Range(backlog)
  BY <1>1, EmptyFacts DEF Halt, clientVars
<1>2. CASE Accept \/ RejectClient
  <2>1. backlog # <<>> /\ backlog' = Tail(backlog) /\ UNCHANGED <<try, on, seen, made>>
    BY <1>2 DEF Accept, RejectClient, clientVars
  <2> QED BY <2>1, <1>t, TailFacts
<1>3. CASE \/ InitDriver \/ AcceptFails \/ Recv \/ Mismatch \/ Refuse \/ SigPipe
           \/ ServedSteps \/ close_client_conn \/ UNCHANGED vars
  BY <1>1, <1>3, ServedFacts
     DEF InitDriver, AcceptFails, Recv, Mismatch, Refuse, SigPipe, close_client_conn, vars, clientVars
<1> QED BY <1>2, <1>3

LEMMA NextAnsweredFirst ==
  ASSUME Inv, AnsweredFirst, InHandshake, [Next]_vars
  PROVE  AnsweredFirst'
<1>t. on \in [Clients -> 0..NumSocks]
  BY DEF Inv, TypeOK
<1>1. ASSUME NEW c \in Clients, ClientSteps(c)
      PROVE  AnsweredFirst'
  <2>1. ASSUME NEW d \in Clients, on'[d] > 1
        PROVE  on'[d] <= seen'[d]
    <3>1. on[d] \in Nat
      BY <1>t
    <3>2. CASE d # c
      BY <1>1, <2>1, <3>2, ClientCases DEF AnsweredFirst
    <3>3. CASE d = c
      BY <1>1, <2>1, <3>1, <3>3, ClientCases DEF AnsweredFirst
    <3> QED BY <3>2, <3>3
  <2> QED BY <2>1 DEF AnsweredFirst
<1>2. CASE Greet \/ Answer \/ Ready
  <2>1. UNCHANGED on
    BY <1>2 DEF Greet, Answer, Ready
  <2>2. ASSUME NEW d \in Clients, on[d] > 1
        PROVE  on[d] <= seen'[d]
    <3>1. CASE seen'[d] = seen[d]
      BY <2>2, <3>1 DEF AnsweredFirst
    <3>2. CASE seen'[d] # seen[d]
      BY <1>2, <2>2, <3>2, AnswerCases
    <3> QED BY <3>1, <3>2
  <2> QED BY <2>1, <2>2 DEF AnsweredFirst
<1>3. CASE \/ InitDriver \/ Accept \/ AcceptFails \/ Recv \/ Mismatch \/ Refuse \/ SigPipe
           \/ RejectClient \/ ServedSteps \/ close_client_conn \/ UNCHANGED vars
  BY <1>3, SilentCases DEF AnsweredFirst
<1> QED BY <1>1, <1>2, <1>3 DEF Next, Handshake

LEMMA NextUnheard ==
  ASSUME Inv, AnsweredFirst, InHandshake, Unheard, [Next]_vars
  PROVE  Unheard'
<1>t. /\ try \in [Clients -> Nat] /\ on \in [Clients -> 0..NumSocks] /\ backlog \in Seq(Conn)
      /\ seen \in [Clients -> 0..(NumSocks + 2)]
  BY DEF Inv, TypeOK
<1>1. ASSUME NEW c \in Clients, ClientSteps(c)
      PROVE  Unheard'
  <2> SUFFICES ASSUME NEW d \in Clients, on'[d] > 0, ConnOf(d, try'[d], 0) \in Range(backlog')
               PROVE  seen'[d] = 0
    BY DEF Unheard
  <2>1. ASSUME NEW t \in Nat, NEW r \in 0..(NumSocks - 1), backlog' = Append(backlog, ConnOf(c, t, r))
        PROVE  Range(backlog') = Range(backlog) \cup {ConnOf(c, t, r)}
    <3>1. ConnOf(c, t, r) \in Conn
      BY DEF ConnOf, Conn
    <3> QED BY <2>1, <3>1, <1>t, AppendFacts
  <2>2. CASE d # c
    <3>1. \A t, r : ConnOf(d, try[d], 0) # ConnOf(c, t, r)
      BY <2>2 DEF ConnOf
    <3>2. try'[d] = try[d] /\ on'[d] = on[d] /\ seen'[d] = seen[d]
      BY <1>1, <2>2, ClientCases
    <3>3. \/ backlog' = backlog
          \/ backlog' = Append(backlog, ConnOf(c, try[c] + 1, 0))
          \/ on[c] > 0 /\ on[c] < NumSocks /\ backlog' = Append(backlog, ConnOf(c, try[c], on[c]))
      BY <1>1, ClientCases
    <3>4. try[c] \in Nat /\ try[c] + 1 \in Nat /\ on[c] \in Nat /\ 0 \in 0..(NumSocks - 1)
      BY <1>t
    <3>5. ConnOf(d, try[d], 0) \in Range(backlog)
      <4>1. CASE backlog' = backlog
        BY <4>1, <3>2
      <4>2. CASE backlog' = Append(backlog, ConnOf(c, try[c] + 1, 0))
        BY <4>2, <3>1, <3>2, <3>4, <2>1
      <4>3. CASE on[c] > 0 /\ on[c] < NumSocks /\ backlog' = Append(backlog, ConnOf(c, try[c], on[c]))
        <5>1. on[c] \in 0..(NumSocks - 1)
          BY <4>3, <3>4
        <5> QED BY <4>3, <5>1, <3>1, <3>2, <3>4, <2>1
      <4> QED BY <3>3, <4>1, <4>2, <4>3
    <3> QED BY <3>2, <3>5 DEF Unheard
  <2>3. CASE d = c /\ on[c] = 0 /\ seen'[c] = seen[c]
    BY <2>3 DEF Inv, SeenInv
  <2>4. CASE /\ d = c /\ on[c] > 0 /\ on[c] < NumSocks /\ try'[c] = try[c] /\ seen'[c] = seen[c]
             /\ backlog' = Append(backlog, ConnOf(c, try[c], on[c]))
    <3>1. try[c] \in Nat /\ on[c] \in 0..(NumSocks - 1) /\ on[c] # 0
      BY <2>4, <1>t
    <3>2. ConnOf(c, try[c], 0) # ConnOf(c, try[c], on[c])
      BY <3>1 DEF ConnOf
    <3>3. ConnOf(c, try[c], 0) \in Range(backlog)
      BY <2>1, <2>4, <3>1, <3>2
    <3> QED BY <2>4, <3>3 DEF Unheard
  <2>5. CASE d = c /\ UNCHANGED <<on, try, seen, made, backlog>>
    BY <2>5 DEF Unheard
  <2>6. d = c => on'[c] # 0
    <3>1. d = c => on'[c] > 0
      OBVIOUS
    <3> QED BY <3>1
  <2> QED BY <1>1, <2>2, <2>3, <2>4, <2>5, <2>6, ClientCases
<1>2. CASE Greet \/ Answer \/ Ready
  <2>1. UNCHANGED <<on, try, backlog>>
    BY <1>2 DEF Greet, Answer, Ready
  <2>2. ASSUME NEW d \in Clients, on[d] > 0, ConnOf(d, try[d], 0) \in Range(backlog)
        PROVE  seen'[d] = 0
    <3>1. ConnOf(d, try[d], 0) \notin Range(fds)
      BY <2>2 DEF Inv, ConnectionsAccounted
    <3>2. seen'[d] = seen[d]
      BY <1>2, <3>1, AnswerCases
    <3> QED BY <2>2, <3>2 DEF Unheard
  <2> QED BY <2>1, <2>2 DEF Unheard
<1>3. CASE \/ InitDriver \/ Accept \/ AcceptFails \/ Recv \/ Mismatch \/ Refuse \/ SigPipe
           \/ RejectClient \/ ServedSteps \/ close_client_conn \/ UNCHANGED vars
  BY <1>3, SilentCases DEF Unheard
<1> QED BY <1>1, <1>2, <1>3 DEF Next, Handshake

\* The first connection of a client that is there is the only one it has made.
LEMMA FirstAccepted ==
  ASSUME Inv, AnsweredFirst, Unheard,
         NEW x \in Range(backlog), x.role = 0, ~Closed(x)
  PROVE  /\ seen[x.client] = 0
         /\ \A y \in dead : y.client = x.client => y.try # x.try
<1>t. /\ try \in [Clients -> Nat] /\ on \in [Clients -> 0..NumSocks] /\ Range(backlog) \subseteq Conn
      /\ made \subseteq Conn /\ dead \subseteq made
      /\ dead \cap Range(backlog) = {}
  BY RangeFacts DEF Inv, TypeOK, ConnectionsAccounted
<1> DEFINE c == x.client
<1>1. c \in Clients /\ x \in Conn /\ on[c] \in Nat \ {0} /\ x.try = try[c]
  BY <1>t DEF Conn, Closed
<1>2. x = ConnOf(c, try[c], 0)
  BY <1>1 DEF Conn, ConnOf
<1>3. seen[c] = 0
  BY <1>1, <1>2 DEF Unheard
<1>4. on[c] = 1
  <2>1. on[c] > 1 => on[c] <= 0
    BY <1>1, <1>3 DEF AnsweredFirst
  <2> QED BY <1>1, <2>1
<1>5. ASSUME NEW y \in dead, y.client = c, y.try = x.try
      PROVE  FALSE
  <2>1. y \in made /\ y \in Conn
    BY <1>t
  <2>2. y.role \in Nat /\ y.role < 1
    BY <2>1, <1>1, <1>4, <1>5 DEF Inv, MadeInv, Conn
  <2>3. y.role = 0
    BY <2>2
  <2>4. y = x
    BY <2>1, <2>3, <1>1, <1>2, <1>5 DEF Conn, ConnOf
  <2> QED BY <2>4, <1>t
<1> QED BY <1>3, <1>5

\* A client's own step takes it out of the handshake or leaves it as it was.
LEMMA ClientInHandshake ==
  ASSUME Inv, InHandshake, NEW c \in Clients, ClientSteps(c)
  PROVE  InHandshake'
<1>t. /\ try \in [Clients -> Nat] /\ on \in [Clients -> 0..NumSocks] /\ TypeOK
      /\ Range(fds) \subseteq made
  BY DEF Inv, TypeOK, ConnectionsAccounted
<1>1. UNCHANGED <<srv, fds, dead>> /\ Ctrl' = Ctrl /\ Answers' = Answers
  BY ClientCases DEF Ctrl, Answers
<1> SUFFICES ASSUME Shaking, Ctrl.role = 0, on'[Ctrl.client] # 0, try'[Ctrl.client] = Ctrl.try
             PROVE  /\ seen'[Ctrl.client] = Answers
                    /\ \A x \in dead : x.client = Ctrl.client => x.try # Ctrl.try
  BY <1>1 DEF InHandshake, Shaking, Closed
<1>2. /\ Ctrl.client \in Clients
      /\ Ctrl.try \in Nat /\ Ctrl.try <= try[Ctrl.client] /\ try[Ctrl.client] \in Nat
  <2>1. Ctrl \in Conn /\ Ctrl \in made
    BY <1>t, HeldAreConns DEF Shaking
  <2> QED BY <2>1, <1>t DEF Conn, Inv, MadeInv
<1>3. on[Ctrl.client] # 0 /\ try[Ctrl.client] = Ctrl.try /\ seen'[Ctrl.client] = seen[Ctrl.client]
  <2>1. CASE Ctrl.client # c
    BY <1>2, <2>1, ClientCases
  <2>2. CASE Ctrl.client = c /\ try'[c] = try[c] + 1
    BY <1>2, <2>2
  <2>3. CASE Ctrl.client = c /\ on[c] > 0 /\ try'[c] = try[c] /\ seen'[c] = seen[c]
    <3>1. on[c] # 0
      <4>1. on[c] \in Nat
        BY <1>t
      <4> QED BY <4>1, <2>3
    <3> QED BY <2>3, <3>1
  <2>4. CASE Ctrl.client = c /\ UNCHANGED <<on, try, seen>>
    BY <2>4
  <2>5. CASE Ctrl.client = c /\ on'[c] = 0
    BY <2>5
  <2> QED BY <2>1, <2>2, <2>3, <2>4, <2>5, ClientCases
<1> QED BY <1>3 DEF InHandshake, Closed

LEMMA NextInHandshake ==
  ASSUME Inv, WaitInv, [Next]_vars
  PROVE  InHandshake'
<1>t. /\ TypeOK /\ fds \in Seq(Conn) /\ Len(fds) \in Nat /\ (fds = <<>> <=> Len(fds) = 0)
      /\ try \in [Clients -> Nat] /\ on \in [Clients -> 0..NumSocks]
      /\ seen \in [Clients -> 0..(NumSocks + 2)] /\ InHandshake
  BY DEF Inv, TypeOK, WaitInv
<1>1. ASSUME NEW c \in Clients, ClientSteps(c)
      PROVE  InHandshake'
  BY <1>1, <1>t, ClientInHandshake
<1>2. ASSUME UNCHANGED <<try, on, seen, dead, fds>>, Answers' = Answers, Shaking' => Shaking
      PROVE  InHandshake'
  BY <1>2, <1>t DEF InHandshake, Ctrl, Closed
<1>3. CASE Accept /\ fds = <<>>
  <2>1. /\ backlog # <<>> /\ backlog \in Seq(Conn) /\ fds' = Append(fds, Head(backlog))
        /\ srv' = "greet" /\ UNCHANGED <<try, on, seen, dead>>
    BY <1>3 DEF Accept, Inv, TypeOK, clientVars
  <2>2. Head(backlog) \in Range(backlog) /\ Head(backlog) \in Conn
    BY <2>1, TailFacts
  <2>3. Ctrl' = Head(backlog)
    BY <1>3, <2>1, <2>2 DEF Ctrl
  <2>4. Closed(Ctrl)' = Closed(Head(backlog))
    BY <2>1, <2>3 DEF Closed
  <2>5. ASSUME Head(backlog).role = 0, ~Closed(Head(backlog))
        PROVE  /\ seen[Head(backlog).client] = 0
               /\ \A x \in dead : x.client = Head(backlog).client => x.try # Head(backlog).try
    BY <2>2, <2>5, FirstAccepted DEF WaitInv
  <2>6. Answers' = 0
    BY <2>1 DEF Answers
  <2> QED BY <2>1, <2>3, <2>4, <2>5, <2>6 DEF InHandshake
<1>4. CASE Accept /\ fds # <<>>
  <2>1. /\ srv = "accept" /\ backlog # <<>> /\ backlog \in Seq(Conn)
        /\ fds' = Append(fds, Head(backlog)) /\ srv' \in {"recv", "refuse"}
        /\ UNCHANGED <<try, on, seen, dead>>
    BY <1>4 DEF Accept, Accepting, Inv, TypeOK, clientVars
  <2>2. Head(backlog) \in Conn
    BY <2>1, TailFacts
  <2>3. Len(fds') = Len(fds) + 1 /\ Ctrl' = Ctrl
    BY <1>4, <1>t, <2>1, <2>2, AppendFacts DEF Ctrl
  <2>4. Shaking /\ (Shaking' => Answers' = Answers)
    BY <1>4, <2>1, <2>3 DEF Shaking, Answers
  <2> QED BY <1>t, <2>1, <2>3, <2>4 DEF InHandshake, Closed
<1>5. CASE Greet
  <2>1. srv = "greet" /\ Len(fds) = 1 /\ fds # <<>> /\ UNCHANGED <<fds, try, on, dead>>
    BY <1>5, EmptyFacts DEF Greet, Inv, HeldInv
  <2>2. Ctrl \in Conn /\ Ctrl.client \in Clients
    BY <2>1, <1>t, HeldAreConns DEF Conn
  <2>3. ASSUME srv' = "recv", Ctrl.role = 0, ~Closed(Ctrl)
        PROVE  seen'[Ctrl.client] = Answers'
    <3>1. Receives(Ctrl, 1)
      BY <1>5, <2>3 DEF Greet
    <3>2. seen'[Ctrl.client] = 1
      BY <3>1, <2>2, <2>3, <1>t DEF Receives
    <3> QED BY <2>1, <2>3, <3>2 DEF Answers
  <2>4. srv' \in {"recv", "refuse"}
    BY <1>5 DEF Greet
  <2> QED BY <1>t, <2>1, <2>3, <2>4 DEF InHandshake, Shaking, Closed, Ctrl
<1>6. CASE Recv
  <2>1. /\ srv = "recv" /\ srv' \in {"answer", "mismatch", "refuse"}
        /\ UNCHANGED <<try, on, seen, dead, fds>>
    BY <1>6 DEF Recv, clientVars
  <2>2. CASE srv' = "answer"
    <3>1. Answers' = Answers /\ (Shaking' => Shaking)
      BY <2>1, <2>2 DEF Answers, Shaking
    <3> QED BY <2>1, <3>1, <1>2
  <2>3. CASE srv' # "answer"
    BY <2>1, <2>3 DEF InHandshake, Shaking
  <2> QED BY <2>2, <2>3
<1>7. CASE Answer
  <2>1. /\ srv = "answer" /\ UNCHANGED <<fds, try, on, dead>>
        /\ srv' \in {"accept", "ready", "refuse"}
    BY <1>7 DEF Answer
  <2>2. /\ fds # <<>> /\ Ctrl \in Conn /\ Newest \in Conn /\ Ctrl.client \in Clients
        /\ Newest.client = Ctrl.client /\ Newest.try = Ctrl.try
    BY <2>1, AnsweredConn DEF Conn
  <2>3. ASSUME srv' = "accept", ~Closed(Ctrl)
        PROVE  seen'[Ctrl.client] = Answers'
    <3>1. Receives(Newest, Len(fds) + 1)
      BY <1>7, <2>3 DEF Answer
    <3>2. ~Closed(Newest)
      BY <2>2, <2>3 DEF Closed
    <3>3. seen'[Ctrl.client] = Len(fds) + 1
      BY <3>1, <3>2, <2>2, <1>t DEF Receives
    <3> QED BY <2>1, <2>3, <3>3 DEF Answers
  <2>4. Shaking
    BY <2>1, <2>2 DEF Shaking
  <2> QED BY <1>t, <2>1, <2>3, <2>4 DEF InHandshake, Shaking, Closed, Ctrl
<1>8. CASE \/ InitDriver \/ AcceptFails \/ Mismatch \/ Refuse \/ Ready \/ SigPipe
           \/ RejectClient \/ ServedSteps \/ close_client_conn
  <2>1. ASSUME NEW how, Halt(how)
        PROVE  ~Shaking'
    BY <2>1 DEF Halt, Shaking
  <2>2. InitDriver => ~Shaking'
    BY <2>1, EmptyFacts DEF InitDriver, Inv, HeldInv, Shaking
  <2> QED BY <1>8, <2>1, <2>2, ServedFacts
             DEF AcceptFails, Mismatch, Refuse, Ready, SigPipe, RejectClient, close_client_conn,
                 Shaking, InHandshake
<1>9. CASE UNCHANGED vars
  <2>1. UNCHANGED <<try, on, seen, dead, fds, srv>>
    BY <1>9 DEF vars, clientVars
  <2>2. Answers' = Answers /\ (Shaking' => Shaking)
    BY <2>1 DEF Answers, Shaking
  <2> QED BY <2>1, <2>2, <1>2
<1> QED BY <1>1, <1>3, <1>4, <1>5, <1>6, <1>7, <1>8, <1>9 DEF Next, Handshake

LEMMA NextWaitInv == Inv /\ WaitInv /\ [Next]_vars => WaitInv'
  BY NextAllMade, NextAnsweredFirst, NextUnheard, NextInHandshake DEF WaitInv

\* The state of the handshake, read off the client's side: in every step of
\* connect_client the client has exactly the answers to what was accepted.
THEOREM HandshakeInStep == Spec => []WaitInv
  BY InitInv, NextInv, InitWaitInv, NextWaitInv, PTL DEF Spec

\* In accept the client has its answer and has gone on, or is free to.
LEMMA WaitingInAccept ==
  ASSUME Inv, WaitInv, srv = "accept", fds # <<>>, ~Closed(Ctrl)
  PROVE  LET c == Ctrl.client
         IN  /\ seen[c] = Len(fds) + 1
             /\ on[c] = Len(fds) \/ ConnOf(c, try[c], Len(fds)) \in Range(backlog)
<1> DEFINE c == Ctrl.client
           n == Len(fds)
<1>1. /\ TypeOK /\ fds \in Seq(Conn) /\ n \in Nat \ {0} /\ n < NumSocks
      /\ on \in [Clients -> 0..NumSocks]
      /\ made = dead \cup Range(backlog) \cup Range(fds) /\ made \subseteq Conn
  BY HeldAreConns DEF Inv, TypeOK, HeldInv, ConnectionsAccounted
<1>2. Ctrl \in Conn /\ c \in Clients /\ Ctrl.try = try[c] /\ on[c] \in Nat \ {0}
  <2>1. Ctrl \in Conn /\ Ctrl.client \in Clients
    BY <1>1, HeldAreConns DEF Conn
  <2> QED BY <2>1, <1>1 DEF Closed
<1>3. \A k \in 1..n : fds[k] = ConnOf(c, try[c], k - 1) /\ fds[k] \in Range(fds)
  BY <1>1, <1>2, RangeFacts DEF Inv, VerifiedInv, Verified
<1>4. Ctrl.role = 0
  <2>1. 1 \in 1..n /\ 1 - 1 = 0
    BY <1>1
  <2>2. fds[1] = ConnOf(c, try[c], 0)
    <3>1. fds[1] = ConnOf(c, try[c], 1 - 1)
      BY <1>3, <2>1
    <3> QED BY <2>1, <3>1
  <2>3. ConnOf(c, try[c], 0).role = 0
    BY DEF ConnOf
  <2>4. fds[1].role = 0
    BY <2>2, <2>3
  <2> QED BY <2>4 DEF Ctrl
<1>5. seen[c] = n + 1 /\ \A x \in dead : x.client = c => x.try # try[c]
  BY <1>2, <1>4 DEF WaitInv, InHandshake, Shaking, Answers
<1>6. n <= on[c]
  <2>1. n \in 1..n /\ fds[n] = ConnOf(c, try[c], n - 1) /\ fds[n] \in made
    BY <1>1, <1>3
  <2>2. fds[n].client = c /\ fds[n].try = try[c] /\ fds[n].role = n - 1
    BY <2>1 DEF ConnOf
  <2>3. on[c] > 0
    BY <1>2
  <2>4. n - 1 < on[c]
    BY <2>1, <2>2, <2>3 DEF Inv, MadeInv
  <2> QED BY <2>4, <1>1, <1>2
<1>7. on[c] <= n + 1
  <2>1. on[c] > 1 => on[c] <= n + 1
    BY <1>2, <1>5 DEF WaitInv, AnsweredFirst
  <2> QED BY <2>1, <1>1, <1>2
<1>8. ASSUME on[c] = n + 1
      PROVE  ConnOf(c, try[c], n) \in Range(backlog)
  <2>1. n \in 0..(on[c] - 1)
    BY <1>1, <1>8
  <2>2. ConnOf(c, try[c], n) \in made
    BY <1>2, <2>1 DEF WaitInv, AllMade
  <2>3. ConnOf(c, try[c], n) \notin dead
    BY <1>5 DEF ConnOf
  <2>4. ConnOf(c, try[c], n) \notin Range(fds)
    <3>1. ASSUME NEW k \in 1..n, fds[k] = ConnOf(c, try[c], n)
          PROVE  FALSE
      <4>1. ConnOf(c, try[c], k - 1) = ConnOf(c, try[c], n)
        BY <1>3, <3>1
      <4>2. k - 1 = n
        BY <4>1 DEF ConnOf
      <4> QED BY <4>2, <1>1
    <3> QED BY <3>1, <1>1 DEF Range
  <2> QED BY <2>2, <2>3, <2>4, <1>1
<1>9. on[c] = n \/ on[c] = n + 1
  BY <1>1, <1>2, <1>6, <1>7
<1> QED BY <1>5, <1>8, <1>9

\* In recv the client has announced the connection, or has its turn to.
LEMMA WaitingInRecv ==
  ASSUME Inv, WaitInv, srv = "recv", fds # <<>>, ~Closed(Ctrl), Expected(Newest)
  PROVE  seen[Ctrl.client] = on[Ctrl.client]
<1> DEFINE c == Ctrl.client
           n == Len(fds)
<1>1. /\ TypeOK /\ n \in Nat \ {0} /\ on \in [Clients -> 0..NumSocks]
      /\ seen \in [Clients -> 0..(NumSocks + 2)] /\ Range(fds) \subseteq made
  BY HeldAreConns DEF Inv, TypeOK, ConnectionsAccounted
<1>2. Ctrl \in Conn /\ Newest \in made /\ c \in Clients /\ Ctrl.try = try[c] /\ on[c] \in Nat \ {0}
  <2>1. Ctrl \in Conn /\ Ctrl.client \in Clients /\ Newest \in made
    BY <1>1, HeldAreConns DEF Conn
  <2> QED BY <2>1, <1>1 DEF Closed
<1>3. Newest.client = c /\ Newest.try = try[c] /\ Newest.role = n - 1 /\ Ctrl.role = 0
  BY <1>2 DEF Expected, ConnOf
<1>4. seen[c] = n
  BY <1>3 DEF WaitInv, InHandshake, Shaking, Answers
<1>5. n <= on[c]
  <2>1. on[c] > 0
    BY <1>2
  <2>2. n - 1 < on[c]
    BY <1>2, <1>3, <2>1 DEF Inv, MadeInv
  <2> QED BY <2>2, <1>1, <1>2
<1>6. on[c] > 1 => on[c] <= n
  BY <1>2, <1>4 DEF WaitInv, AnsweredFirst
<1> QED BY <1>1, <1>2, <1>4, <1>5, <1>6

\* WaitsForItsClient: connect_client never blocks in accept or in
\* socket_recv_until_null_reached for a step the client of the handshake could
\* not take, for any number of clients competing for the backlog.
THEOREM SessionsWaitForTheirClient == Spec => []WaitsForItsClient
<1>1. Inv /\ WaitInv => WaitsForItsClient
  BY WaitingInAccept, WaitingInRecv DEF WaitsForItsClient
<1> QED BY <1>1, SessionsInvariant, HandshakeInStep, PTL
=============================================================================
