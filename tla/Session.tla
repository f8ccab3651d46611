------------------------------ MODULE Session ------------------------------
(***************************************************************************)
(* Signaling of one Jingle/Gingle session (one sid) between the endpoint   *)
(* that initiates it and the endpoints it may be pointed at:               *)
(* cricket::Session and BaseSession (src/src/p2p/base/session.cc), the     *)
(* SessionManager that owns them (sessionmanager.cc), and the tasks that   *)
(* wait for the answer to every IQ (sessionsendtask.h).                    *)
(*                                                                         *)
(* Everything an endpoint does runs on its signaling thread, so a handler  *)
(* is one step.  Between handlers anything may happen: stanzas in transit  *)
(* are reordered (session.cc:1003 works around a server that does so),     *)
(* lost, answered by the server or timed out, messages the session posted  *)
(* to its own thread wait in a queue, and transports come and go.          *)
(***************************************************************************)
EXTENDS Naturals, Sequences, FiniteSets

CONSTANTS
  Initiator,     \* the endpoint that calls Session::Initiate
  Responders,    \* endpoints whose SessionManager answers an initiate
  Services,      \* JIDs that are no endpoint and only redirect
  First,         \* the JID given to Initiate
  BareJid,       \* the bare JID of every JID
  Protocol,      \* what the endpoints speak: "jingle" (or hybrid) or "gingle"
  Contents,      \* content names of the offer: one TransportProxy each
  Leavers,       \* endpoints whose application may terminate the session
  MaxCands,      \* candidates an endpoint gathers per content
  MaxInfos,      \* description-info messages an endpoint sends
  Faults,        \* what may go wrong: subset of FaultKinds
  MaxFaults,     \* how often, in all
  ServiceAcks,   \* may a service acknowledge before it redirects?
  None           \* no JID, no content

Endpoints == {Initiator} \cup Responders
Jids == Endpoints \cup Services

ASSUME JidsAssumption ==
  /\ Initiator \notin Responders \cup Services
  /\ Responders \cap Services = {}
  /\ First \in Responders \cup Services
  /\ BareJid \in [Jids -> Jids]
  /\ None \notin Jids \cup Contents
  /\ Protocol \in {"jingle", "gingle"}

\* A stanza is lost, the server answers in the place of the addressee, a task
\* times out before the answer comes, a transport loses a peer that is there.
FaultKinds == {"lose", "bounce", "late", "drop"}

ASSUME BoundsAssumption ==
  /\ Faults \subseteq FaultKinds
  /\ Leavers \subseteq Endpoints
  /\ MaxCands \in [Endpoints -> Nat]
  /\ MaxInfos \in [Endpoints -> Nat]
  /\ MaxFaults \in Nat
  /\ ServiceAcks \in BOOLEAN

VARIABLES
  state,              \* state_; NONE before and DESTROYED after the object
  error_,
  remote_name,
  local_description,  \* local_description_ != NULL
  initiate_acked_,
  queue,              \* what is posted to the session on its thread
  timer,              \* MSG_TIMEOUT posted with a delay that still runs
  negotiated,         \* TransportProxy::negotiated_
  transport,          \* connectivity of a content's transport
  ready,              \* how many candidates a content has gathered
  unsent,             \* TransportProxy::unsent_candidates_
  sent,               \* TransportProxy::sent_candidates_
  remote,             \* candidates handed to a content's transport
  infos,              \* description-info messages sent
  requests,           \* IQs in transit, in no order
  answers,            \* their results and errors in transit
  tasks,              \* IQs whose SessionSendTask still waits
  faults

stateVars == <<state, error_, queue>>
proxyVars == <<negotiated, transport>>
candVars == <<ready, unsent, sent>>
netVars == <<requests, answers, tasks>>
vars == <<state, error_, remote_name, local_description, initiate_acked_,
          queue, timer, negotiated, transport, ready, unsent, sent, remote,
          infos, requests, answers, tasks, faults>>

Rejected == {"SENTREJECT", "RECEIVEDREJECT"}
Terminated == {"SENTTERMINATE", "RECEIVEDTERMINATE"}
States == {"NONE", "INIT", "SENTINITIATE", "RECEIVEDINITIATE", "SENTACCEPT",
           "RECEIVEDACCEPT", "INPROGRESS", "DESTROYED"}
             \cup Rejected \cup Terminated
Errors == {"NONE", "TIME", "RESPONSE"}

Types == {"initiate", "accept", "reject", "terminate", "transport-info",
          "description-info", "unknown"}
ErrorTypes == {"cancel", "modify", "wait"}
Candidate == Nat \ {0}

Fault(kind) ==
  /\ kind \in Faults
  /\ faults < MaxFaults
  /\ faults' = faults + 1

----------------------------------------------------------------------------
(* Stanzas.  A request is an IQ of type set; an answer names the request   *)
(* it answers, and is a result, an error or a redirect to another JID.     *)

Request ==
  [type : Types \ {"transport-info"}, from : Endpoints, to : Jids \cup {None},
   content : {None}, data : SUBSET Nat]
  \cup
  [type : {"transport-info"}, from : Endpoints, to : Jids \cup {None},
   content : Contents, data : SUBSET Candidate]

Result(m) == [of |-> m, kind |-> "result", to |-> None]
Error(m, type) == [of |-> m, kind |-> type, to |-> None]
Redirection(m, jid) == [of |-> m, kind |-> "redirect", to |-> jid]

Answer == [of : Request, kind : {"result", "redirect"} \cup ErrorTypes,
           to : Jids \cup {None}]

\* What a receiver makes of an action: Jingle has no word for a reject, Gingle
\* none for a description-info, which nobody can parse then.
Wire(type) == CASE type = "reject" /\ Protocol = "jingle" -> "terminate"
                [] type = "description-info" /\ Protocol = "gingle" -> "unknown"
                [] OTHER -> type

StanzaTo(p, jid, type) == [type |-> Wire(type), from |-> p, to |-> jid,
                           content |-> None, data |-> {}]
Stanza(p, type) == StanzaTo(p, remote_name[p], type)

\* SendTransportInfoMessage: the candidates of one content.
TransportInfo(p, jid, c, cs) ==
  [StanzaTo(p, jid, "transport-info") EXCEPT !.content = c, !.data = cs]

\* One transport-info per proxy that has candidates in the given store.
TransportInfos(p, jid, store) ==
  {TransportInfo(p, jid, c, store[p][c]) :
     c \in {d \in Contents : store[p][d] # {}}}

\* Send requests; each leaves a task behind that waits for its answer.
Send(p, out) ==
  /\ requests' = requests \cup out
  /\ tasks' = [tasks EXCEPT ![p] = @ \cup out]
  /\ UNCHANGED answers

\* An answer is worth following when its sender acts on it, or when its task
\* may time out first; otherwise all it does is end the task.
Followed(a) == \/ a.of.type = "initiate"
               \/ a.of.type # "transport-info" /\ a.kind # "result"
               \/ faults < MaxFaults /\ "late" \in Faults

\* Take the request m, send others and answer m.
Reply(p, m, a, out) ==
  /\ requests' = (requests \ {m}) \cup out
  /\ IF Followed(a)
       THEN /\ answers' = answers \cup {a}
            /\ tasks' = [tasks EXCEPT ![p] = @ \cup out]
       ELSE /\ UNCHANGED answers
            /\ tasks' = [tasks EXCEPT ![p] = @ \cup out, ![m.from] = @ \ {m}]

----------------------------------------------------------------------------
(* The object's state. *)

Alive(p) == state[p] \notin {"NONE", "DESTROYED"}

FindSession_AnyPeer(p, jid) == Alive(p)

\* SessionManager::FindSession: the sid is known and the peer is its peer.
FindSession(p, jid) == Alive(p) /\ remote_name[p] = jid

Post(p, msg) == queue' = [queue EXCEPT ![p] = Append(@, msg)]

SetState_Silent(p, s) ==
  /\ state' = [state EXCEPT ![p] = s]
  /\ UNCHANGED <<queue, error_>>

SetState(p, s) ==
  /\ state' = [state EXCEPT ![p] = s]
  /\ IF s = state[p] THEN UNCHANGED queue ELSE Post(p, "MSG_STATE")
  /\ UNCHANGED error_

SetError(p, e) ==
  /\ error_' = [error_ EXCEPT ![p] = e]
  /\ Post(p, "MSG_ERROR")
  /\ UNCHANGED state

\* ConnectChannels on the proxies of the contents cs: a transport that was
\* not asked before will report that it is connecting.
Connected(p, cs) ==
  [transport EXCEPT ![p] =
     [c \in Contents |-> IF c \in cs /\ @[c] = "idle" THEN "connecting"
                                                      ELSE @[c]]]

\* CompleteNegotiation on the proxies of the contents cs.
Negotiated(p, cs) ==
  [negotiated EXCEPT ![p] = [c \in Contents |-> c \in cs \/ @[c]]]

\* OnRemoteCandidates for one content.
OnRemoteCandidates(p, c, cs) ==
  /\ remote' = [remote EXCEPT ![p][c] = @ \cup cs]
  /\ negotiated' = Negotiated(p, {c})
  /\ transport' = Connected(p, {c})

Init ==
  /\ state = [p \in Endpoints |-> IF p = Initiator THEN "INIT" ELSE "NONE"]
  /\ error_ = [p \in Endpoints |-> "NONE"]
  /\ remote_name = [p \in Endpoints |-> None]
  /\ local_description = [p \in Endpoints |-> FALSE]
  /\ initiate_acked_ = [p \in Endpoints |-> FALSE]
  /\ queue = [p \in Endpoints |-> <<>>]
  /\ timer = [p \in Endpoints |-> FALSE]
  /\ negotiated = [p \in Endpoints |-> [c \in Contents |-> FALSE]]
  /\ transport = [p \in Endpoints |-> [c \in Contents |-> "idle"]]
  /\ ready = [p \in Endpoints |-> [c \in Contents |-> 0]]
  /\ unsent = [p \in Endpoints |-> [c \in Contents |-> {}]]
  /\ sent = [p \in Endpoints |-> [c \in Contents |-> {}]]
  /\ remote = [p \in Endpoints |-> [c \in Contents |-> {}]]
  /\ infos = [p \in Endpoints |-> 0]
  /\ requests = {}
  /\ answers = {}
  /\ tasks = [p \in Endpoints |-> {}]
  /\ faults = 0

----------------------------------------------------------------------------
(* What the application asks of a session. *)

Initiate ==
  LET p == Initiator IN
  /\ state[p] = "INIT"
  /\ remote_name' = [remote_name EXCEPT ![p] = First]
  /\ local_description' = [local_description EXCEPT ![p] = TRUE]
  /\ Send(p, {StanzaTo(p, First, "initiate")})
  /\ transport' = Connected(p, Contents)
  /\ SetState(p, "SENTINITIATE")
  /\ UNCHANGED <<initiate_acked_, timer, negotiated, candVars, remote, infos,
                 faults>>

Accept(p) ==
  /\ state[p] = "RECEIVEDINITIATE"
  /\ local_description' = [local_description EXCEPT ![p] = TRUE]
  /\ Send(p, {Stanza(p, "accept")})
  /\ negotiated' = Negotiated(p, Contents)
  /\ transport' = Connected(p, Contents)
  /\ SetState(p, "SENTACCEPT")
  /\ UNCHANGED <<remote_name, initiate_acked_, timer, candVars, remote, infos,
                 faults>>

Reject(p) ==
  /\ state[p] = "RECEIVEDINITIATE"
  /\ Send(p, {Stanza(p, "reject")})
  /\ SetState(p, "SENTREJECT")
  /\ UNCHANGED <<remote_name, local_description, initiate_acked_, timer,
                 proxyVars, candVars, remote, infos, faults>>

\* TerminateWithReason: a terminate is implicit in a reject, and there is
\* nothing left to do for a session that is terminated already.
TerminateWithReason(p) ==
  /\ \/ /\ state[p] \in Terminated
        /\ UNCHANGED <<stateVars, netVars>>
     \/ /\ state[p] \in Rejected
        /\ SetState(p, "SENTTERMINATE")
        /\ UNCHANGED netVars
     \/ /\ state[p] \notin Rejected \cup Terminated
        /\ SetState(p, "SENTTERMINATE")
        /\ Send(p, {Stanza(p, "terminate")})
  /\ UNCHANGED <<remote_name, local_description, initiate_acked_, timer,
                 proxyVars, candVars, remote, infos, faults>>

Terminate(p) == p \in Leavers /\ Alive(p) /\ TerminateWithReason(p)

SendDescriptionInfoMessage(p) ==
  /\ state[p] \in {"SENTINITIATE", "SENTACCEPT", "RECEIVEDACCEPT",
                   "INPROGRESS"}
  /\ infos[p] < MaxInfos[p]
  /\ infos' = [infos EXCEPT ![p] = @ + 1]
  /\ Send(p, {[Stanza(p, "description-info") EXCEPT !.data = {infos[p]}]})
  /\ UNCHANGED <<stateVars, remote_name, local_description, initiate_acked_,
                 timer, proxyVars, candVars, remote, faults>>

----------------------------------------------------------------------------
(* What a session's transports report. *)

NotTimeout(msg) == msg # "MSG_TIMEOUT"

OnTransportWritable_NoTimer(p, c, s) ==
  /\ transport' = [transport EXCEPT ![p][c] = s]
  /\ timer' = [timer EXCEPT ![p] = FALSE]
  /\ queue' = [queue EXCEPT ![p] = SelectSeq(@, NotTimeout)]
  /\ UNCHANGED <<state, error_, remote_name, local_description,
                 initiate_acked_, negotiated, candVars, remote, infos, netVars>>

\* OnTransportConnecting and OnTransportWritable: one timer serves all the
\* transports of a session; a report cancels it, also when it has run out and
\* is still queued, and an unwritable transport starts it again.
OnTransportWritable(p, c, s) ==
  /\ transport' = [transport EXCEPT ![p][c] = s]
  /\ timer' = [timer EXCEPT ![p] = s # "writable"]
  /\ queue' = [queue EXCEPT ![p] = SelectSeq(@, NotTimeout)]
  /\ UNCHANGED <<state, error_, remote_name, local_description, initiate_acked_,
                 negotiated, candVars, remote, infos, netVars>>

TransportConnecting(p, c) ==
  /\ Alive(p)
  /\ transport[p][c] = "connecting"
  /\ OnTransportWritable(p, c, "unwritable")
  /\ UNCHANGED faults

\* Whether the other end of the session p takes part could let c connect.
Reachable(p, c) ==
  \E q \in Endpoints : /\ FindSession(q, p) /\ remote_name[p] = q
                       /\ transport[q][c] # "idle"

TransportWritable(p, c) ==
  /\ Alive(p)
  /\ transport[p][c] = "unwritable"
  /\ Reachable(p, c)
  /\ OnTransportWritable(p, c, "writable")
  /\ UNCHANGED faults

\* It comes in any case when the peer is gone.
TransportUnwritable(p, c) ==
  /\ Alive(p)
  /\ transport[p][c] = "writable"
  /\ OnTransportWritable(p, c, "unwritable")
  /\ IF Reachable(p, c) THEN Fault("drop") ELSE UNCHANGED faults

CandidatesReady_AtOnce(p, c) ==
  LET cs == {ready[p][c] + 1} IN
  /\ Alive(p)
  /\ transport[p][c] # "idle"
  /\ ready[p][c] < MaxCands[p]
  /\ ready' = [ready EXCEPT ![p][c] = @ + 1]
  /\ Send(p, {TransportInfo(p, remote_name[p], c, cs)})
  /\ UNCHANGED <<stateVars, remote_name, local_description, initiate_acked_,
                 timer, proxyVars, unsent, sent, remote, infos, faults>>

\* OnTransportProxyCandidatesReady: the initiator keeps its candidates back
\* until the initiate is acknowledged, whatever state the session is in.
CandidatesReady(p, c) ==
  LET cs == {ready[p][c] + 1} IN
  /\ Alive(p)
  /\ transport[p][c] # "idle"
  /\ ready[p][c] < MaxCands[p]
  /\ ready' = [ready EXCEPT ![p][c] = @ + 1]
  /\ IF p = Initiator /\ ~initiate_acked_[p]
       THEN /\ unsent' = [unsent EXCEPT ![p][c] = @ \cup cs]
            /\ UNCHANGED <<sent, netVars>>
       ELSE /\ sent' = IF negotiated[p][c] THEN sent
                       ELSE [sent EXCEPT ![p][c] = @ \cup cs]
            /\ Send(p, {TransportInfo(p, remote_name[p], c, cs)})
            /\ UNCHANGED unsent
  /\ UNCHANGED <<stateVars, remote_name, local_description, initiate_acked_,
                 timer, proxyVars, remote, infos, faults>>

----------------------------------------------------------------------------
(* SessionManager::OnIncomingMessage and Session::OnIncomingMessage: the   *)
(* session is found, or created for an initiate; a handler that succeeds   *)
(* is acknowledged, anything else is answered by an error.                 *)

Incoming(p, type) == {m \in requests : m.to = p /\ m.type = type}

\* CreateSession and OnInitiateMessage.  Its SetState tells the client, which
\* may reject at once: then the remote candidates are not processed.
ReceiveInitiate(p) == \E m \in Incoming(p, "initiate"), now \in BOOLEAN :
  /\ state[p] = "NONE"
  /\ remote_name' = [remote_name EXCEPT ![p] = m.from]
  /\ IF now
       THEN /\ state' = [state EXCEPT ![p] = "SENTREJECT"]
            /\ queue' = [queue EXCEPT ![p] = <<"MSG_STATE", "MSG_STATE">>]
            /\ Reply(p, m, Result(m), {StanzaTo(p, m.from, "reject")})
            /\ UNCHANGED <<error_, proxyVars>>
       ELSE /\ SetState(p, "RECEIVEDINITIATE")
            /\ Reply(p, m, Result(m), {})
            /\ negotiated' = Negotiated(p, Contents)
            /\ transport' = Connected(p, Contents)
  /\ UNCHANGED <<local_description, initiate_acked_, timer, candVars, remote,
                 infos, faults>>

Released_Nothing(p) == {}

\* OnInitiateAcked: the first time, the candidates held back are released.
Released(p) == IF initiate_acked_[p] THEN {}
               ELSE TransportInfos(p, remote_name[p], unsent)
OnInitiateAcked(p) ==
  /\ initiate_acked_' = [initiate_acked_ EXCEPT ![p] = TRUE]
  /\ unsent' = IF initiate_acked_[p] THEN unsent
               ELSE [unsent EXCEPT ![p] = [c \in Contents |-> {}]]

ReceiveAccept_AnyState(p) == \E m \in Incoming(p, "accept") :
  /\ FindSession(p, m.from)
  /\ OnInitiateAcked(p)
  /\ negotiated' = Negotiated(p, Contents)
  /\ transport' = Connected(p, Contents)
  /\ SetState(p, "RECEIVEDACCEPT")
  /\ Reply(p, m, Result(m), Released(p))
  /\ UNCHANGED <<remote_name, local_description, timer, ready, sent, remote,
                 infos, faults>>

ReceiveAccept(p) == \E m \in Incoming(p, "accept") :
  /\ FindSession(p, m.from)
  /\ state[p] = "SENTINITIATE"
  /\ OnInitiateAcked(p)
  /\ negotiated' = Negotiated(p, Contents)
  /\ transport' = Connected(p, Contents)
  /\ SetState(p, "RECEIVEDACCEPT")
  /\ Reply(p, m, Result(m), Released(p))
  /\ UNCHANGED <<remote_name, local_description, timer, ready, sent, remote,
                 infos, faults>>

ReceiveReject(p) == \E m \in Incoming(p, "reject") :
  /\ FindSession(p, m.from)
  /\ state[p] = "SENTINITIATE"
  /\ SetState(p, "RECEIVEDREJECT")
  /\ Reply(p, m, Result(m), {})
  /\ UNCHANGED <<remote_name, local_description, initiate_acked_, timer,
                 proxyVars, candVars, remote, infos, faults>>

ReceiveTerminate(p) == \E m \in Incoming(p, "terminate") :
  /\ FindSession(p, m.from)
  /\ SetState(p, "RECEIVEDTERMINATE")
  /\ Reply(p, m, Result(m), {})
  /\ UNCHANGED <<remote_name, local_description, initiate_acked_, timer,
                 proxyVars, candVars, remote, infos, faults>>

ReceiveTransportInfo(p) == \E m \in Incoming(p, "transport-info") :
  /\ FindSession(p, m.from)
  /\ OnRemoteCandidates(p, m.content, m.data)
  /\ Reply(p, m, Result(m), {})
  /\ UNCHANGED <<stateVars, remote_name, local_description, initiate_acked_,
                 timer, candVars, infos, faults>>

ReceiveDescriptionInfo(p) == \E m \in Incoming(p, "description-info") :
  /\ FindSession(p, m.from)
  /\ state[p] = "INPROGRESS"
  /\ Reply(p, m, Result(m), {})
  /\ UNCHANGED <<stateVars, remote_name, local_description, initiate_acked_,
                 timer, proxyVars, candVars, remote, infos, faults>>

\* CheckState, in the handlers that call it, and what cannot be parsed.
NotAllowed(p, m) ==
  \/ m.type = "initiate" /\ state[p] # "INIT"
  \/ m.type \in {"accept", "reject"} /\ state[p] # "SENTINITIATE"
  \/ m.type = "description-info" /\ state[p] # "INPROGRESS"
  \/ m.type = "unknown"

\* A message for an unknown session, or that its state does not allow.
Refuse(p) == \E m \in {n \in requests : n.to = p} :
  /\ IF FindSession(p, m.from) THEN NotAllowed(p, m) ELSE m.type # "initiate"
  /\ Reply(p, m, Error(m, "modify"), {})
  /\ UNCHANGED <<stateVars, remote_name, local_description, initiate_acked_,
                 timer, proxyVars, candVars, remote, infos, faults>>

----------------------------------------------------------------------------
(* SessionSendTask: the answer to a request, or none in time.              *)

\* The task ends; the answers in rs are taken off the network.
Finish(p, m, rs, out) ==
  /\ answers' = answers \ rs
  /\ requests' = requests \cup out
  /\ tasks' = [tasks EXCEPT ![p] = (@ \ {m}) \cup out]

\* The session a failed or answered request of p belongs to.
Found(p, m) == m.type # "unknown" /\ FindSession(p, m.to)

\* OnRedirectError succeeds: the session is pointed at the new JID.
Redirect(p, jid) ==
  /\ remote_name' = [remote_name EXCEPT ![p] = jid]
  /\ sent' = [sent EXCEPT ![p] = [c \in Contents |-> {}]]
  /\ UNCHANGED <<stateVars, initiate_acked_, ready, unsent>>

\* OnRedirectError resends the initiate and then the candidates.
Resent(p, jid) ==
  {StanzaTo(p, jid, "initiate")} \cup TransportInfos(p, jid, sent)

MayRedirect(p, jid) ==
  state[p] = "SENTINITIATE" /\ BareJid[remote_name[p]] = BareJid[jid]

\* OnFailedSend for a session that is found, with the error's type.
Fatal(m, kind) == m.type # "transport-info" /\ kind # "wait"
OnFailedSend(p, m, kind) ==
  /\ IF Found(p, m) /\ Fatal(m, kind)
       THEN SetError(p, "RESPONSE")
       ELSE UNCHANGED stateVars
  /\ UNCHANGED <<remote_name, initiate_acked_, candVars>>

ReceiveResult(p, r) ==
  /\ r.kind = "result"
  /\ IF r.of.type = "initiate" /\ Found(p, r.of)
       THEN OnInitiateAcked(p) /\ Finish(p, r.of, {r}, Released(p))
       ELSE UNCHANGED <<initiate_acked_, unsent>> /\ Finish(p, r.of, {r}, {})
  /\ UNCHANGED <<stateVars, remote_name, ready, sent>>

ReceiveRedirect(p, r) ==
  /\ r.kind = "redirect"
  /\ IF Found(p, r.of) /\ MayRedirect(p, r.to)
       THEN Redirect(p, r.to) /\ Finish(p, r.of, {r}, Resent(p, r.to))
       ELSE /\ IF Found(p, r.of) THEN SetError(p, "RESPONSE")
                                          ELSE UNCHANGED stateVars
            /\ UNCHANGED <<remote_name, initiate_acked_, candVars>>
            /\ Finish(p, r.of, {r}, {})

ReceiveError(p, r) ==
  /\ r.kind \in ErrorTypes
  /\ OnFailedSend(p, r.of, r.kind)
  /\ Finish(p, r.of, {r}, {})

ReceiveAnswer(p) == \E r \in answers :
  /\ r.of \in tasks[p]
  /\ ReceiveResult(p, r) \/ ReceiveRedirect(p, r) \/ ReceiveError(p, r)
  /\ UNCHANGED <<local_description, timer, proxyVars, remote, infos, faults>>

\* Nothing waits for the answer to a request that has timed out.
DropAnswer == \E r \in answers :
  /\ r.of \notin tasks[r.of.from]
  /\ answers' = answers \ {r}
  /\ UNCHANGED <<stateVars, remote_name, local_description, initiate_acked_,
                 timer, proxyVars, candVars, remote, infos, requests, tasks,
                 faults>>

Pending(m) == m \in requests \/ \E r \in answers : r.of = m

\* OnTimeout.  It comes in any case when no answer will.
TaskTimeout(p) == \E m \in tasks[p] :
  /\ IF Pending(m) THEN Fault("late") ELSE UNCHANGED faults
  /\ OnFailedSend(p, m, "cancel")
  /\ Finish(p, m, {}, {})
  /\ UNCHANGED <<local_description, timer, proxyVars, remote, infos>>

----------------------------------------------------------------------------
(* Session::OnMessage: what a session posted to its own thread.            *)

\* DestroySession: the object goes, and with it what is posted to it.
DestroySession(p) ==
  /\ state' = [state EXCEPT ![p] = "DESTROYED"]
  /\ queue' = [queue EXCEPT ![p] = <<>>]
  /\ timer' = [timer EXCEPT ![p] = FALSE]
  /\ transport' = [transport EXCEPT ![p] = [c \in Contents |-> "idle"]]
  /\ UNCHANGED <<error_, netVars>>

OnStateMessage_NoDestroy(p) ==
  /\ state' = [state EXCEPT ![p] =
       IF @ \in {"SENTACCEPT", "RECEIVEDACCEPT"} THEN "INPROGRESS"
       ELSE IF @ \in Rejected THEN "SENTTERMINATE" ELSE @]
  /\ queue' = [queue EXCEPT ![p] = Tail(@)]
  /\ UNCHANGED <<error_, timer, transport, netVars>>

\* The handler looks at the state of the moment, not at the one that was
\* announced when the message was posted.
OnStateMessage(p) ==
  \/ /\ state[p] \in {"SENTACCEPT", "RECEIVEDACCEPT"}
     /\ state' = [state EXCEPT ![p] = "INPROGRESS"]
     /\ queue' = [queue EXCEPT ![p] = Append(Tail(@), "MSG_STATE")]
     /\ UNCHANGED <<error_, timer, transport, netVars>>
  \/ /\ state[p] \in Rejected
     /\ state' = [state EXCEPT ![p] = "SENTTERMINATE"]
     /\ queue' = [queue EXCEPT ![p] = Append(Tail(@), "MSG_STATE")]
     /\ UNCHANGED <<error_, timer, transport, netVars>>
  \/ /\ state[p] \in Terminated
     /\ DestroySession(p)
  \/ /\ state[p] \in {"SENTINITIATE", "RECEIVEDINITIATE", "INPROGRESS"}
     /\ queue' = [queue EXCEPT ![p] = Tail(@)]
     /\ UNCHANGED <<state, error_, timer, transport, netVars>>

OnErrorMessage_Ignore(p) ==
  /\ queue' = [queue EXCEPT ![p] = Tail(@)]
  /\ UNCHANGED <<state, error_, timer, transport, netVars>>

OnErrorMessage(p) ==
  /\ IF state[p] \in Terminated
       THEN /\ queue' = [queue EXCEPT ![p] = Tail(@)]
            /\ UNCHANGED <<state, netVars>>
       ELSE /\ state' = [state EXCEPT ![p] = "SENTTERMINATE"]
            /\ queue' = [queue EXCEPT ![p] = Append(Tail(@), "MSG_STATE")]
            /\ IF state[p] \in Rejected THEN UNCHANGED netVars
               ELSE Send(p, {Stanza(p, "terminate")})
  /\ UNCHANGED <<error_, timer, transport>>

\* No transport became writable in time.
OnTimeoutMessage(p) ==
  /\ error_' = [error_ EXCEPT ![p] = "TIME"]
  /\ queue' = [queue EXCEPT ![p] = Append(Tail(@), "MSG_ERROR")]
  /\ UNCHANGED <<state, timer, transport, netVars>>

OnMessage(p) ==
  /\ queue[p] # <<>>
  /\ CASE Head(queue[p]) = "MSG_STATE" -> OnStateMessage(p)
       [] Head(queue[p]) = "MSG_ERROR" -> OnErrorMessage(p)
       [] Head(queue[p]) = "MSG_TIMEOUT" -> OnTimeoutMessage(p)
  /\ UNCHANGED <<remote_name, local_description, initiate_acked_, negotiated,
                 candVars, remote, infos, faults>>

\* The delay is over: the message joins the queue, behind what is posted.
TimerDue(p) ==
  /\ timer[p]
  /\ timer' = [timer EXCEPT ![p] = FALSE]
  /\ Post(p, "MSG_TIMEOUT")
  /\ UNCHANGED <<state, error_, remote_name, local_description,
                 initiate_acked_, proxyVars, candVars, remote, infos, netVars,
                 faults>>

----------------------------------------------------------------------------
(* The network and the JIDs that are no endpoint. *)

Vanish(m) ==
  /\ requests' = requests \ {m}
  /\ UNCHANGED <<stateVars, remote_name, local_description, initiate_acked_,
                 timer, proxyVars, candVars, remote, infos, tasks>>

Lose == \E m \in requests : Fault("lose") /\ Vanish(m) /\ UNCHANGED answers

Bounce == \E m \in requests, type \in {"cancel", "wait"} :
  Fault("bounce") /\ Vanish(m) /\ answers' = answers \cup {Error(m, type)}

ServiceAnswer == \E m \in requests :
  /\ m.to \in Services
  /\ \/ ServiceAcks /\ answers' = answers \cup {Result(m)}
     \/ \E jid \in Jids \ {m.from, m.to} :
          answers' = answers \cup {Redirection(m, jid)}
  /\ Vanish(m)
  /\ UNCHANGED faults

----------------------------------------------------------------------------
Application(p) == Accept(p) \/ Reject(p) \/ Terminate(p)
                    \/ SendDescriptionInfoMessage(p)

Transports(p, c) ==
  \/ TransportConnecting(p, c) \/ TransportWritable(p, c)
  \/ TransportUnwritable(p, c) \/ CandidatesReady(p, c)

OnIncomingMessage(p) ==
  \/ ReceiveInitiate(p) \/ ReceiveAccept(p) \/ ReceiveReject(p)
  \/ ReceiveTerminate(p) \/ ReceiveTransportInfo(p)
  \/ ReceiveDescriptionInfo(p) \/ Refuse(p)

\* Everything is over.
Done == (\A p \in Endpoints : ~Alive(p)) /\ UNCHANGED vars

Next ==
  \/ Initiate
  \/ \E p \in Endpoints :
       \/ Application(p)
       \/ \E c \in Contents : Transports(p, c)
       \/ OnIncomingMessage(p) \/ ReceiveAnswer(p) \/ TaskTimeout(p)
       \/ OnMessage(p) \/ TimerDue(p)
  \/ DropAnswer \/ Lose \/ Bounce \/ ServiceAnswer
  \/ Done

Spec == Init /\ [][Next]_vars

\* What the signaling thread of p has to do or will be given: posted messages,
\* stanzas that were sent, delays that end, a transport that connects or
\* whose peer is gone.
SignalingThread(p) ==
  \/ OnMessage(p) \/ TimerDue(p) \/ OnIncomingMessage(p) \/ ReceiveAnswer(p)
  \/ TaskTimeout(p) /\ UNCHANGED faults
  \/ \E c \in Contents :
       \/ TransportConnecting(p, c)
       \/ TransportUnwritable(p, c) /\ UNCHANGED faults

Fairness ==
  /\ \A p \in Endpoints : WF_vars(SignalingThread(p))
  /\ WF_vars(ServiceAnswer)

FairSpec == Spec /\ Fairness

----------------------------------------------------------------------------
(* Properties. *)

\* Every variable holds what its declaration says; a queue holds posted
\* messages only, and a session that is not there has none.
TypeOK ==
  /\ state \in [Endpoints -> States]
  /\ error_ \in [Endpoints -> Errors]
  /\ remote_name \in [Endpoints -> Jids \cup {None}]
  /\ local_description \in [Endpoints -> BOOLEAN]
  /\ initiate_acked_ \in [Endpoints -> BOOLEAN]
  /\ queue \in [Endpoints -> Seq({"MSG_STATE", "MSG_ERROR", "MSG_TIMEOUT"})]
  /\ timer \in [Endpoints -> BOOLEAN]
  /\ negotiated \in [Endpoints -> [Contents -> BOOLEAN]]
  /\ transport \in [Endpoints ->
       [Contents -> {"idle", "connecting", "unwritable", "writable"}]]
  /\ ready \in [Endpoints -> [Contents -> Nat]]
  /\ unsent \in [Endpoints -> [Contents -> SUBSET Candidate]]
  /\ sent \in [Endpoints -> [Contents -> SUBSET Candidate]]
  /\ remote \in [Endpoints -> [Contents -> SUBSET Candidate]]
  /\ infos \in [Endpoints -> Nat]
  /\ requests \subseteq Request
  /\ answers \subseteq Answer
  /\ tasks \in [Endpoints -> SUBSET Request]
  /\ faults \in 0 .. MaxFaults

\* A session's state as its application sees it.
Phase(p) ==
  CASE state[p] \in {"NONE", "INIT"} -> "idle"
    [] state[p] = "SENTINITIATE" -> "calling"
    [] state[p] = "RECEIVEDINITIATE" -> "ringing"
    [] state[p] \in {"SENTACCEPT", "RECEIVEDACCEPT", "INPROGRESS"} -> "talking"
    [] state[p] \in Rejected \cup Terminated -> "ending"
    [] state[p] = "DESTROYED" -> "gone"

C == INSTANCE Call WITH
  Caller <- Initiator,
  Callees <- Responders,
  Others <- Services \cup {None},
  phase <- [p \in Endpoints |-> Phase(p)],
  target <- remote_name[Initiator],
  answered <- {p \in Responders : local_description[p]}

\* The sessions implement Call: what they do to state, remote names and
\* descriptions (session.cc:524, 772, 804, 1161, 1199, 1331) is a call.
IsCall == C!CallSpec

\* They also implement its fairness: what has ended is destroyed.
IsFairCall == C!FairCallSpec

\* A caller that holds the call for accepted is right: the endpoint it is
\* pointed at has called Accept (session.cc:804, 1199), even if that endpoint
\* has ended the session since.
AcceptedByPeer ==
  state[Initiator] \in {"RECEIVEDACCEPT", "INPROGRESS"} =>
    /\ remote_name[Initiator] \in Responders
    /\ local_description[remote_name[Initiator]]

\* Candidates never overtake the initiate they belong to: when an initiator's
\* transport-info is under way to an endpoint, that endpoint has created its
\* session before (session.cc:1003 and 1096, "We send the candidates once the
\* session-initiate is acked").
InitiateFirst ==
  \A m \in requests :
    m.type = "transport-info" /\ m.from = Initiator /\ m.to \in Responders
      => state[m.to] # "NONE"

\* Whatever is queued, a session that is over will hear of it: a rejected or
\* terminated session has the MSG_STATE posted that moves it on, and one with
\* an error has MSG_ERROR posted or is over (session.cc:524, 1358, 1364).
EndIsPosted ==
  \A p \in Endpoints :
    /\ state[p] \in Rejected \cup Terminated =>
         \E i \in DOMAIN queue[p] : queue[p][i] = "MSG_STATE"
    /\ Alive(p) /\ error_[p] # "NONE" =>
         \/ state[p] \in Terminated
         \/ \E i \in DOMAIN queue[p] : queue[p][i] = "MSG_ERROR"

\* No endpoint keeps a session whose peer is gone: whichever messages are lost
\* or late, its transports go down and the session timer ends it.
NoHalfOpenSession ==
  \A p \in Endpoints :
    (\E q \in Endpoints : FindSession(p, q) /\ state[q] = "DESTROYED")
      ~> ~Alive(p)

\* A session with an error is destroyed (session.cc:1358, 1364).
ErrorEnds == \A p \in Endpoints : (error_[p] # "NONE") ~> ~Alive(p)

\* A transport that is not writable becomes writable, or the session ends
\* (session.cc:987, "If it does not, we terminate").
UnwritableEnds ==
  \A p \in Endpoints, c \in Contents :
    (transport[p][c] = "unwritable") ~>
      (transport[p][c] = "writable" \/ ~Alive(p))

\* Every candidate an initiator gathers reaches the transport of the endpoint
\* it is pointed at, unless one of the two sessions ends (session.cc:999,
\* 1096, 1331: held back, released, resent after a redirect).
CandidatesArrive ==
  \A c \in Contents, i \in 1 .. MaxCands[Initiator], r \in Responders :
    (ready[Initiator][c] >= i /\ FindSession(Initiator, r)) ~>
      (i \in remote[r][c] \/ state[Initiator] \in Terminated \cup Rejected
         \/ ~Alive(Initiator) \/ ~Alive(r))
=============================================================================
