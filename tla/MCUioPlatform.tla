--------------------------- MODULE MCUioPlatform ---------------------------
(***************************************************************************)
(* UioPlatform with every system call that may fail failing, and with none *)
(* failing.                                                                *)
(***************************************************************************)
EXTENDS UioPlatform

MCAllFail == {"sysfs", "open", "mmap", "create", "lock", "reopen", "write", "wait"}
=============================================================================
