---------------------- MODULE MCP2PTransportChannel ----------------------
(* An instance of P2PTransportChannel: the peer has one candidate, and the  *)
(* second port, on the same network as the first, is made by a second      *)
(* allocator session.                                                      *)
EXTENDS P2PTransportChannel, TLC

CONSTANTS p1, p2, r1

MCGeneration == (p1 :> 0) @@ (p2 :> 1)
MCCandidateGeneration == [r \in Candidates |-> 0]
MCNetwork == [p \in Ports |-> "network"]
MCRank == (<<p1, r1>> :> 1) @@ (<<p2, r1>> :> 2)
=============================================================================
