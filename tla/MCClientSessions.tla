-------------------------- MODULE MCClientSessions --------------------------
(***************************************************************************)
(* Two clients, one of them with a second attempt, three connections a     *)
(* session and a backlog of two.                                           *)
(***************************************************************************)
EXTENDS ClientSessions, TLC

CONSTANTS c1, c2

MCClients == {c1, c2}
MCTries == c1 :> 2 @@ c2 :> 1

MCAllFail == {"init_driver", "accept", "sockopt"}
=============================================================================
