--------------------------- MODULE MCSignalThread ---------------------------
(* Instances of SignalThread. *)
EXTENDS SignalThread
=============================================================================
