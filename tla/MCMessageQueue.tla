--------------------------- MODULE MCMessageQueue ---------------------------
(* Instances of MessageQueue: two messages, and a clock of three bits that    *)
(* wraps around while they are queued.                                       *)
EXTENDS MessageQueue, TLC

CONSTANTS m1, m2, h1, h2

MCHandlerOf == m1 :> h1 @@ m2 :> h2
MCDelays == {-1, 1, 2}
MCWaits == {kForever, 2}
=============================================================================
