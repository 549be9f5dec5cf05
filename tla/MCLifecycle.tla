----------------------------- MODULE MCLifecycle -----------------------------
(* Small instances of Lifecycle for TLC: the configurations name the callers,  *)
(* all of which are different, so that there is nothing to define.            *)
EXTENDS Lifecycle
===============================================================================
