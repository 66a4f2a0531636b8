---------------------------- MODULE MCServerLoop ----------------------------
(***************************************************************************)
(* Values for model checking ServerLoop: two words of T2H memory, lengths  *)
(* of one and two, and mixes of traffic.                                   *)
(***************************************************************************)
EXTENDS ServerLoop

Mix(c, p, m, s) == [cmds |-> c, packets |-> p, mgmt |-> m, segments |-> s]

MCBudgets ==
  {Mix(2, 2, 0, 0), Mix(0, 3, 0, 0), Mix(2, 1, 1, 0), Mix(2, 0, 0, 1), Mix(1, 0, 0, 2),
   Mix(1, 1, 0, 1), Mix(0, 2, 0, 1), Mix(1, 0, 1, 1), Mix(1, 3, 0, 0)}
=============================================================================
