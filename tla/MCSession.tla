---- MODULE MCSession ----
(* Instances of Session: Alice calls Bob, directly or through a service    *)
(* that redirects; Elsewhere has another bare JID than Bob and Bob2.      *)
EXTENDS Session

CONSTANTS Alice, Bob, Bob2, Proxy, Elsewhere, Audio, Video

Bare == [j \in Jids |-> IF j \in {Alice, Elsewhere} THEN j ELSE First]

Nobody == [p \in Endpoints |-> 0]
AliceOnly == [p \in Endpoints |-> IF p = Alice THEN 1 ELSE 0]
BobOnly == [p \in Endpoints |-> IF p = Bob THEN 1 ELSE 0]
====
