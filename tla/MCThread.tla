------------------------------ MODULE MCThread ------------------------------
(* Instances of Thread: ha and hb are the handlers of the looping threads a *)
(* and b, n is a thread of the application, the ms are messages.            *)
EXTENDS Thread, TLC

CONSTANTS a, b, n, ha, hb, m1, m2, m3

MCHome       == ha :> a @@ hb :> b
MCHandlerOf3 == m1 :> ha @@ m2 :> hb @@ m3 :> ha
MCHandlerOf2 == m1 :> ha @@ m2 :> hb
=============================================================================
