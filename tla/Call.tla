-------------------------------- MODULE Call --------------------------------
(***************************************************************************)
(* What the signaling of a session promises its two applications, whatever *)
(* the network does: an endpoint rings because it was called, the caller   *)
(* is connected only to an endpoint that answered and that it is pointed   *)
(* at, and an end is final and followed by the destruction of the session. *)
(***************************************************************************)
CONSTANTS Caller, Callees, Others

VARIABLES
  phase,     \* what each endpoint's application knows of the call
  target,    \* the JID the caller's session is pointed at
  answered   \* the endpoints whose application has accepted

callVars == <<phase, target, answered>>
Parties == {Caller} \cup Callees

CallInit ==
  /\ phase = [p \in Parties |-> "idle"]
  /\ target \in Callees \cup Others
  /\ answered = {}

Move(p, from, to) ==
  phase[p] \in from /\ phase' = [phase EXCEPT ![p] = to]

Dial == /\ Move(Caller, {"idle"}, "calling")
        /\ target' \in Callees \cup Others
        /\ UNCHANGED answered

Divert == /\ phase[Caller] = "calling"
          /\ target' \in Callees \cup Others
          /\ UNCHANGED <<phase, answered>>

Ring(p) == /\ phase[Caller] # "idle"
           /\ Move(p, {"idle"}, "ringing") \/ Move(p, {"idle"}, "ending")
           /\ UNCHANGED <<target, answered>>

Answer(p) == /\ Move(p, {"ringing"}, "talking")
             /\ answered' = answered \cup {p}
             /\ UNCHANGED target

Connect == /\ target \in answered
           /\ Move(Caller, {"calling"}, "talking")
           /\ UNCHANGED <<target, answered>>

End(p) == /\ Move(p, {"calling", "ringing", "talking"}, "ending")
          /\ UNCHANGED <<target, answered>>

\* An application may give up a session it never used.
Abandon == Move(Caller, {"idle"}, "ending") /\ UNCHANGED <<target, answered>>

Destroy(p) == Move(p, {"ending"}, "gone") /\ UNCHANGED <<target, answered>>

CallNext ==
  \/ Dial \/ Divert \/ Connect \/ Abandon
  \/ \E p \in Callees : Ring(p) \/ Answer(p)
  \/ \E p \in Parties : End(p) \/ Destroy(p)

CallSpec == CallInit /\ [][CallNext]_callVars

FairCallSpec == CallSpec /\ \A p \in Parties : WF_callVars(Destroy(p))
=============================================================================
