----------------------------- MODULE MCLauncher -----------------------------
(* One invocation of Launcher for TLC. *)
EXTENDS Launcher
=============================================================================
