------------------------- MODULE MCServerLifecycle -------------------------
(***************************************************************************)
(* ServerLifecycle with every call that may fail failing.                  *)
(***************************************************************************)
EXTENDS ServerLifecycle

MCAllFail == {"args", "platform", "thread", "sigaction", "bind", "malloc", "init_driver"}
=============================================================================
