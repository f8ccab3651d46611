----------------------------- MODULE Transport -----------------------------
(***************************************************************************)
(* The transports of one session: BaseSession and its TransportProxy       *)
(* objects (session.cc), the Transport that each proxy points to           *)
(* (transport.cc) and, of a channel, what a Transport reads and calls.     *)
(*                                                                         *)
(* The signaling thread calls a transport by sending to the worker thread, *)
(* and each handler of either thread is one step: the sends of a handler   *)
(* on the signaling thread are its parts.  What one thread tells the other *)
(* without waiting is a message in a queue, sq or wq.  A handler that does *)
(* several of these things is written as operators that map one state of   *)
(* the session, a record w, to the next.                                   *)
(*                                                                         *)
(* Three messages change nothing of this state and are left out:           *)
(* MSG_CONNECTING, which restarts the session's timer (see Session),       *)
(* MSG_ONREMOTECANDIDATE, which leads to connections in a channel if there *)
(* still is one (see P2PTransportChannel), and MSG_ROUTECHANGE.            *)
(***************************************************************************)
EXTENDS Integers, FiniteSets, SequencesExt

CONSTANTS ContentOrder,  \* the contents, in the order of the map transports_
          Components,    \* the components, in the order of the channel maps
          SlotSets,      \* the sets of channels <<content, component>> that the
                         \* client may use
          Bundle,        \* the contents of the BUNDLE group of both sides, in order
          Offer,         \* the protocol in our or the peer's offer
          Answers,       \* the protocols that an answer may hold
          MaxEvents      \* for each of SlotSets, bound on the changes of a channel's
                         \* state, further allocations and role conflicts

Contents == ToSet(ContentOrder)
ComponentSet == ToSet(Components)
Protocols == {"HYBRID", "GOOGLE", "RFC5245"}
None == "none"     \* a NULL pointer
NoProxy == "no proxy"

ASSUME TransportAssumption ==
  /\ \A S \in SlotSets : S \subseteq Contents \X ComponentSet
  /\ ToSet(Bundle) \subseteq Contents
  /\ Offer \in Protocols /\ Answers \subseteq Protocols
  /\ MaxEvents \in [SlotSets -> Nat]

VARIABLES slots,      \* the channels that the client uses in this session
          initiator_,
          state,      \* the part of the session's state_ that matters here
          proxy,      \* transports_: the TransportProxy of each content
          transport,  \* the Transport created for each content
          channels,   \* channels_ of each Transport; no reference, no entry
          sq,         \* messages for transports in the signaling thread's queue
          wq,         \* and in the worker thread's
          role_switch_,
          faults,     \* ASSERTs that have failed, deleted objects used
          used,       \* the slots for which the client has made a channel
          events      \* how many of these have happened

counts == <<used, events>>
vars == <<slots, initiator_, state, proxy, transport, channels, sq, wq, role_switch_,
          faults, counts>>

NoEntry ==
  [ref |-> 0, allocated |-> FALSE, waiting |-> FALSE, gather |-> "idle",
   readable |-> FALSE, writable |-> FALSE, role |-> None, protocol |-> "GOOGLE"]

NoTransportProxy ==
  [transport |-> None, impl |-> [k \in ComponentSet |-> NoProxy],
   connecting |-> FALSE, negotiated |-> FALSE, allocated |-> FALSE]

NewTransport ==
  [alive |-> FALSE, connect_requested |-> FALSE, local |-> None, remote |-> None,
   protocol |-> "HYBRID", role |-> None, readable |-> "NONE", writable |-> "NONE",
   ready |-> FALSE, agreed |-> FALSE]

Init ==
  /\ slots \in SlotSets
  /\ initiator_ \in BOOLEAN
  /\ state = "INIT"
  /\ proxy = [c \in Contents |-> NoTransportProxy]
  /\ transport = [t \in Contents |-> NewTransport]
  /\ channels = [t \in Contents |-> [k \in ComponentSet |-> NoEntry]]
  /\ sq = <<>>
  /\ wq = <<>>
  /\ role_switch_ = FALSE
  /\ faults = {}
  /\ used = {}
  /\ events = 0

\* The state of the session as one value, and the step that replaces it.  ok is
\* the value that a function of the code returns.
World == [proxy |-> proxy, transport |-> transport, channels |-> channels,
          sq |-> sq, wq |-> wq, faults |-> faults, ok |-> TRUE]

Become(w) ==
  /\ proxy' = w.proxy
  /\ transport' = w.transport
  /\ channels' = w.channels
  /\ sq' = w.sq
  /\ wq' = w.wq
  /\ faults' = w.faults
  /\ UNCHANGED <<slots, initiator_>>

Msg(id, t) == [id |-> id, transport |-> t]
ChannelMsg(id, t, k) == [id |-> id, transport |-> t, component |-> k]
Post(w, m) == [w EXCEPT !.sq = Append(@, m)]
Check(w, cond, fault) == IF cond THEN w ELSE [w EXCEPT !.faults = @ \cup {fault}]

Entries(w, t) == {k \in ComponentSet : w.channels[t][k].ref > 0}
Proxies(w) == {c \in Contents : w.proxy[c].transport # None}
HasProxy(w, c, k) == w.proxy[c].impl[k] # NoProxy

\* A call for each content, or component, that has property P, in the map's order.
ForContents(w, Op(_, _), P(_)) ==
  FoldLeft(Op, w, SelectSeq(ContentOrder, P))
ForComponents(w, Op(_, _), P(_)) ==
  FoldLeft(Op, w, SelectSeq(Components, P))

-----------------------------------------------------------------------------
(* Transport: what it does on the worker thread. *)

\* P2PTransportChannel::Connect and Allocate.
Connect(w, t, k) ==
  Post([w EXCEPT !.channels[t][k].waiting = TRUE],
       ChannelMsg("MSG_REQUESTSIGNALING", t, k))

CreateChannel_w(w, t, k) ==
  LET tr == w.transport[t]
      impl == [NoEntry EXCEPT
                 !.ref = 1,
                 !.role = tr.role,
                 !.protocol = IF tr.local # None /\ tr.remote # None
                                THEN tr.protocol ELSE @]
      w1 == [w EXCEPT !.channels[t][k] = impl]
  IN  IF w.channels[t][k].ref > 0 THEN [w EXCEPT !.channels[t][k].ref = @ + 1]
      ELSE IF tr.connect_requested THEN Connect(w1, t, k)
      ELSE w1

\* Mutant: the transport is not told that a channel has gone.
DestroyChannel_w_Silent(w, t, k) ==
  IF w.channels[t][k].ref = 0 THEN w
  ELSE [w EXCEPT !.channels[t][k] =
          IF @.ref = 1 THEN NoEntry ELSE [@ EXCEPT !.ref = @ - 1]]

DestroyChannel_w(w, t, k) ==
  LET w1 == [w EXCEPT !.channels[t][k] =
               IF @.ref = 1 THEN NoEntry ELSE [@ EXCEPT !.ref = @ - 1]]
  IN  IF ~w.transport[t].alive THEN Check(w, FALSE, "deleted transport")
      ELSE IF w.channels[t][k].ref = 0 THEN w
      ELSE IF w.channels[t][k].ref = 1 THEN Post(w1, Msg("MSG_WRITESTATE", t))
      ELSE w1

ConnectChannels_w(w, t) ==
  LET w1 == Post([w EXCEPT !.transport[t].connect_requested = TRUE,
                           !.transport[t].local = IF @ = None THEN "GOOGLE" ELSE @],
                 Msg("MSG_CANDIDATEREADY", t))
      Call(v, k) == Connect(v, t, k)
      InMap(k) == k \in Entries(w, t)
  IN  IF w.transport[t].connect_requested \/ Entries(w, t) = {} THEN w
      ELSE ForComponents(w1, Call, InMap)

\* DestroyAllChannels, and the destructor of the transport that calls it.
DestroyAllChannels(w, t) ==
  LET Other(m) == m.transport # t
  IN  [w EXCEPT !.channels[t] = [k \in ComponentSet |-> NoEntry],
                !.transport[t] = NewTransport,
                !.sq = SelectSeq(@, Other),
                !.wq = SelectSeq(@, Other)]

\* Mutant: the channels that exist keep their role.
SetRole_w_Later(w, t, role) == [w EXCEPT !.transport[t].role = role]

SetRole_w(w, t, role) ==
  [w EXCEPT !.transport[t].role = role,
            !.channels[t] = [k \in ComponentSet |->
               IF k \in Entries(w, t) THEN [@[k] EXCEPT !.role = role] ELSE @[k]]]

NegotiateTransportDescription_w(w, t, offer, answer) ==
  LET protocol == IF answer = "HYBRID" THEN "GOOGLE" ELSE answer
  IN  IF offer \in {"GOOGLE", "RFC5245"} /\ offer # answer
        THEN [w EXCEPT !.ok = FALSE]
        ELSE [w EXCEPT !.transport[t].protocol = protocol,
                       !.transport[t].agreed = TRUE,
                       !.channels[t] = [k \in ComponentSet |->
                          IF k \in Entries(w, t)
                            THEN [@[k] EXCEPT !.protocol = protocol] ELSE @[k]]]

SetLocalTransportDescription_w(w, t, desc, action) ==
  LET w1 == [w EXCEPT !.transport[t].local = desc]
  IN  IF action = "CA_ANSWER"
        THEN NegotiateTransportDescription_w(w1, t, w.transport[t].remote, desc)
        ELSE w1

SetRemoteTransportDescription_w(w, t, desc, action) ==
  LET w1 == [w EXCEPT !.transport[t].remote = desc]
  IN  IF action = "CA_ANSWER"
        THEN NegotiateTransportDescription_w(w1, t, w.transport[t].local, desc)
        ELSE w1

-----------------------------------------------------------------------------
(* TransportProxy and TransportChannelProxy. *)

\* Mutant: a channel that exists gets one more reference.
GetOrCreateChannelProxyImpl_AddRef(w, c, k) ==
  CreateChannel_w(w, w.proxy[c].transport, k)

GetOrCreateChannelProxyImpl(w, c, k) ==
  LET t == w.proxy[c].transport
  IN  IF w.channels[t][k].ref > 0 THEN w ELSE CreateChannel_w(w, t, k)

\* TransportChannelProxy::SetImplementation, with a channel of t.
SetImplementation(w, c, k, t) ==
  LET old == w.proxy[c].impl[k]
      w1 == IF old = None THEN w ELSE DestroyChannel_w(w, old, k)
  IN  [w1 EXCEPT !.proxy[c].impl[k] = t]

SetChannelProxyImpl(w, c, k) ==
  SetImplementation(GetOrCreateChannelProxyImpl(w, c, k), c, k,
                    w.proxy[c].transport)

\* The destructor of a TransportChannelProxy.
DeleteChannelProxy(w, c, k) ==
  LET old == w.proxy[c].impl[k]
      w1 == [w EXCEPT !.proxy[c].impl[k] = NoProxy]
  IN  IF old = None THEN w1 ELSE DestroyChannel_w(w1, old, k)

ProxyCreateChannel(w, c, k) ==
  LET w1 == [w EXCEPT !.proxy[c].impl[k] = None]
  IN  IF w.proxy[c].negotiated THEN SetChannelProxyImpl(w1, c, k)
      ELSE IF w.proxy[c].connecting THEN GetOrCreateChannelProxyImpl(w1, c, k)
      ELSE w1

ProxyDestroyChannel(w, c, k) ==
  DeleteChannelProxy(IF w.proxy[c].negotiated THEN w
                     ELSE SetChannelProxyImpl(w, c, k), c, k)

ProxyConnectChannels(w, c) ==
  LET Create(v, k) == GetOrCreateChannelProxyImpl(v, c, k)
      Has(k) == HasProxy(w, c, k)
      w1 == IF w.proxy[c].connecting \/ w.proxy[c].negotiated THEN w
            ELSE ForComponents(w, Create, Has)
  IN  ConnectChannels_w([w1 EXCEPT !.proxy[c].connecting = TRUE],
                        w.proxy[c].transport)

CompleteNegotiation(w, c) ==
  LET Attach(v, k) == SetChannelProxyImpl(v, c, k)
      Has(k) == HasProxy(w, c, k)
  IN  IF w.proxy[c].negotiated THEN w
      ELSE [ForComponents(w, Attach, Has) EXCEPT !.proxy[c].negotiated = TRUE]

\* The last pointer to a TransportWrapper deletes the transport.
Release(w, t) ==
  IF \E c \in Contents : w.proxy[c].transport = t THEN w
  ELSE DestroyAllChannels(w, t)

\* Mutant: the transport that nobody uses any more is deleted before the impls
\* are replaced.
SetupMux_Early(w, c, target) ==
  LET t == w.proxy[target].transport
      Repoint(v, k) == SetImplementation(CreateChannel_w(v, t, k), c, k, t)
      Has(k) == HasProxy(w, c, k)
      w1 == Release([w EXCEPT !.proxy[c].transport = t], w.proxy[c].transport)
  IN  IF w.proxy[c].transport = t THEN w ELSE ForComponents(w1, Repoint, Has)

SetupMux(w, c, target) ==
  LET t == w.proxy[target].transport
      Repoint(v, k) ==
        IF ~v.ok THEN v
        ELSE IF v.channels[t][k].ref = 0 THEN [v EXCEPT !.ok = FALSE]
        ELSE SetImplementation(CreateChannel_w(v, t, k), c, k, t)
      Has(k) == HasProxy(w, c, k)
      w1 == ForComponents(w, Repoint, Has)
      w2 == [w1 EXCEPT !.proxy[c].transport = t,
                       !.proxy[c].allocated = w1.proxy[target].allocated]
  IN  IF w.proxy[c].transport = t THEN w
      ELSE IF ~w1.ok THEN w1
      ELSE Release(w2, w.proxy[c].transport)

-----------------------------------------------------------------------------
(* BaseSession: the transports of a session. *)

InitialRole == IF initiator_ THEN "CONTROLLING" ELSE "CONTROLLED"
SwitchedRole == IF initiator_ THEN "CONTROLLED" ELSE "CONTROLLING"

GetOrCreateTransportProxy(w, c) ==
  IF w.proxy[c].transport # None THEN w
  ELSE [w EXCEPT !.transport[c] = [NewTransport EXCEPT !.alive = TRUE,
                                                       !.role = InitialRole],
                 !.proxy[c].transport = c]

\* The value returned by Pushdown...TransportDescription, by
\* MaybeEnableMuxingSupport and by the calls in a loop is not looked at.
Ignoring(w) == [w EXCEPT !.ok = TRUE]

PushdownLocalTransportDescription(w, desc, action) ==
  LET Push(v, c) ==
        LET v1 == IF action = "CA_ANSWER" THEN CompleteNegotiation(v, c) ELSE v
            v2 == SetLocalTransportDescription_w(v1, v.proxy[c].transport,
                                                 desc[c], action)
        IN  IF ~v.ok THEN v ELSE IF ~v2.ok THEN v2 ELSE ProxyConnectChannels(v2, c)
      Has(c) == c \in Proxies(w)
  IN  Ignoring(ForContents(w, Push, Has))

\* Mutant: an answer does not complete the negotiation.
PushdownRemoteTransportDescription_Offer(w, desc, action) ==
  LET Push(v, c) == SetRemoteTransportDescription_w(v, v.proxy[c].transport,
                                                    desc[c], action)
      Has(c) == c \in Proxies(w)
  IN  Ignoring(ForContents(w, Push, Has))

PushdownRemoteTransportDescription(w, desc, action) ==
  LET Push(v, c) ==
        LET v1 == IF action = "CA_ANSWER" THEN CompleteNegotiation(v, c) ELSE v
        IN  IF ~v.ok THEN v
            ELSE SetRemoteTransportDescription_w(v1, v.proxy[c].transport,
                                                 desc[c], action)
      Has(c) == c \in Proxies(w)
  IN  Ignoring(ForContents(w, Push, Has))

SpeculativelyConnectAllTransportChannels(w) ==
  LET Has(c) == c \in Proxies(w)
  IN  ForContents(w, ProxyConnectChannels, Has)

\* OnRemoteCandidates with no candidate, and with one for component k.
OnNoRemoteCandidates(w, c) ==
  ProxyConnectChannels(CompleteNegotiation(w, c), c)

OnRemoteCandidates(w, c, k) ==
  LET w1 == CompleteNegotiation(w, c)
      t == w.proxy[c].transport
  IN  IF w1.channels[t][k].ref = 0 THEN w1 ELSE ProxyConnectChannels(w1, c)

SetSelectedProxy(w) ==
  LET Mux(v, c) == IF v.ok THEN SetupMux(v, c, Head(Bundle)) ELSE v
      InGroup(c) == c \in Proxies(w) \cap ToSet(Bundle)
  IN  ForContents(w, Mux, InGroup)

MaybeEnableMuxingSupport(w) ==
  LET ready == \A c \in Proxies(w) : w.proxy[c].negotiated
      w1 == Check(w, ready, "ASSERT(iter->second->negotiated())")
  IN  IF ~ready \/ Bundle = <<>> THEN w1 ELSE Ignoring(SetSelectedProxy(w1))

IsCandidateAllocationDone(w) == \A c \in Proxies(w) : w.proxy[c].allocated

DeleteTransportProxy(w, c) ==
  LET Delete(v, k) == DeleteChannelProxy(v, c, k)
      Has(k) == HasProxy(w, c, k)
  IN  Release([ForComponents(w, Delete, Has) EXCEPT !.proxy[c] = NoTransportProxy],
              w.proxy[c].transport)

-----------------------------------------------------------------------------
(* What the client and the peer ask of the session. *)

Live == state # "DEINIT"

\* The client keeps to the ASSERTs of TransportProxy::CreateChannel.
CreateChannel(c, k) ==
  LET w == GetOrCreateTransportProxy(World, c)
  IN  /\ Live
      /\ <<c, k>> \in slots \ used
      /\ w.channels[w.proxy[c].transport][k].ref = 0
      /\ Become(ProxyCreateChannel(w, c, k))
      /\ used' = used \cup {<<c, k>>}
      /\ UNCHANGED <<state, role_switch_, events>>

DestroyChannel(c, k) ==
  /\ Live
  /\ HasProxy(World, c, k)
  /\ Become(ProxyDestroyChannel(World, c, k))
  /\ UNCHANGED <<state, role_switch_, counts>>

\* The descriptions hold the contents that the client has channels for.
Described(c) == \E k \in ComponentSet : <<c, k>> \in slots

CreateTransportProxies(w) == ForContents(w, GetOrCreateTransportProxy, Described)

Initiate ==
  /\ state = "INIT" /\ initiator_
  /\ state' = "SENTINITIATE"
  /\ Become(PushdownLocalTransportDescription(
              SpeculativelyConnectAllTransportChannels(CreateTransportProxies(World)),
              [c \in Contents |-> Offer], "CA_OFFER"))
  /\ UNCHANGED <<role_switch_, counts>>

OnInitiateMessage ==
  /\ state = "INIT" /\ ~initiator_
  /\ state' = "RECEIVEDINITIATE"
  /\ Become(ForContents(PushdownRemoteTransportDescription(
                          CreateTransportProxies(World),
                          [c \in Contents |-> Offer], "CA_OFFER"),
                        OnNoRemoteCandidates, Described))
  /\ UNCHANGED <<role_switch_, counts>>

Accept(desc) ==
  /\ state = "RECEIVEDINITIATE"
  /\ state' = "SENTACCEPT"
  /\ Become(MaybeEnableMuxingSupport(
              PushdownLocalTransportDescription(World, desc, "CA_ANSWER")))
  /\ UNCHANGED <<role_switch_, counts>>

OnAcceptMessage(desc) ==
  /\ state = "SENTINITIATE"
  /\ state' = "RECEIVEDACCEPT"
  /\ Become(ForContents(MaybeEnableMuxingSupport(
                          PushdownRemoteTransportDescription(World, desc, "CA_ANSWER")),
                        OnNoRemoteCandidates, Described))
  /\ UNCHANGED <<role_switch_, counts>>

OnTransportInfoMessage(c, k) ==
  /\ state \in {"SENTINITIATE", "RECEIVEDINITIATE", "SENTACCEPT", "RECEIVEDACCEPT"}
  /\ Described(c)
  /\ Become(OnRemoteCandidates(World, c, k))
  /\ UNCHANGED <<state, role_switch_, counts>>

\* The destructor of BaseSession.
Delete ==
  LET Has(c) == c \in Proxies(World)
  IN  /\ Live
      /\ state' = "DEINIT"
      /\ Become(ForContents(World, DeleteTransportProxy, Has))
      /\ UNCHANGED <<role_switch_, counts>>

-----------------------------------------------------------------------------
(* Transport::OnMessage on the signaling thread. *)

\* The first message is the one with this id, and w is what it leads to.
Handle_s(id, w) ==
  /\ sq # <<>>
  /\ Head(sq).id = id
  /\ Become(w)
  /\ UNCHANGED <<state, counts>>

Taken_s == [World EXCEPT !.sq = Tail(@)]
Receiver_s == Head(sq).transport

GetTransportState_s(t, set) ==
  IF set = {} THEN "NONE" ELSE IF set = Entries(World, t) THEN "ALL" ELSE "SOME"

OnChannelReadableState_s ==
  LET set == {k \in Entries(World, Receiver_s) : channels[Receiver_s][k].readable}
  IN  /\ Handle_s("MSG_READSTATE",
                  [Taken_s EXCEPT !.transport[Receiver_s].readable =
                                     GetTransportState_s(Receiver_s, set)])
      /\ UNCHANGED role_switch_

OnChannelWritableState_s ==
  LET set == {k \in Entries(World, Receiver_s) : channels[Receiver_s][k].writable}
  IN  /\ Handle_s("MSG_WRITESTATE",
                  [Taken_s EXCEPT !.transport[Receiver_s].writable =
                                     GetTransportState_s(Receiver_s, set)])
      /\ UNCHANGED role_switch_

\* BaseSession::OnSignalingReady, for all of the session's proxies.
OnSignalingReady(w) ==
  LET Ready(v, c) ==
        [v EXCEPT !.proxy[c].allocated = FALSE,
                  !.wq = Append(@, Msg("MSG_ONSIGNALINGREADY", v.proxy[c].transport))]
      Has(c) == c \in Proxies(w)
  IN  ForContents(w, Ready, Has)

\* SignalRequestSignaling reaches Session::OnTransportRequestSignaling and then
\* the client, which calls SessionManager::OnSignalingReady at once.
OnChannelRequestSignaling_s ==
  LET Request(w, t) ==
        LET k == Head(sq).component
            w1 == [w EXCEPT !.channels[t][k].allocated = FALSE]
        IN  OnSignalingReady(Check(w1, \E c \in Contents : w.proxy[c].transport = t,
                                   "ASSERT(transproxy != NULL)"))
  IN  /\ Handle_s("MSG_REQUESTSIGNALING", Request(Taken_s, Receiver_s))
      /\ UNCHANGED role_switch_

OnChannelCandidateReady_s ==
  LET Flush(w, t) ==
        Check([w EXCEPT !.transport[t].ready = FALSE],
              w.transport[t].connect_requested, "ASSERT(connect_requested_)")
  IN  /\ Handle_s("MSG_CANDIDATEREADY", Flush(Taken_s, Receiver_s))
      /\ UNCHANGED role_switch_

\* With BaseSession::OnTransportCandidatesAllocationDone.
OnChannelCandidatesAllocationDone_s ==
  LET Done(w, t) ==
        Check([w EXCEPT !.proxy = [c \in Contents |->
                 IF @[c].transport = t THEN [@[c] EXCEPT !.allocated = TRUE] ELSE @[c]]],
              ~IsCandidateAllocationDone(w), "ASSERT(!IsCandidateAllocationDone())")
  IN  /\ Handle_s("MSG_CANDIDATEALLOCATIONCOMPLETE", Done(Taken_s, Receiver_s))
      /\ UNCHANGED role_switch_

OnRoleConflict ==
  LET SetRole(w, c) == SetRole_w(w, w.proxy[c].transport, SwitchedRole)
      Has(c) == c \in Proxies(World)
  IN  /\ Handle_s("MSG_ROLECONFLICT",
                  IF role_switch_ THEN Taken_s ELSE ForContents(Taken_s, SetRole, Has))
      /\ role_switch_' = TRUE

-----------------------------------------------------------------------------
(* The worker thread: the messages for it, and what happens in a channel. *)

OnSignalingReady_w ==
  LET Start(entry) ==
        IF entry.waiting THEN [entry EXCEPT !.waiting = FALSE, !.gather = "started"]
        ELSE entry
      t == Head(wq).transport
  IN  /\ wq # <<>>
      /\ Become([World EXCEPT
                   !.wq = Tail(@),
                   !.channels[t] = [k \in ComponentSet |-> Start(@[k])]])
      /\ UNCHANGED <<state, role_switch_, counts>>

\* A channel calls its transport, which changes w.
InChannel(t, k, w) ==
  /\ channels[t][k].ref > 0
  /\ Become(w)
  /\ UNCHANGED <<state, role_switch_, used>>

\* A call that a channel makes when its connections change.
Event(t, k, w) ==
  /\ events < MaxEvents[slots]
  /\ events' = events + 1
  /\ channels[t][k].gather # "idle"
  /\ InChannel(t, k, w)

\* Mutant: only the first channel that finds a candidate has it sent.
OnChannelCandidateReady_First(t, k) ==
  LET w == [World EXCEPT !.channels[t][k].gather = "found",
                         !.transport[t].ready = TRUE]
  IN  /\ channels[t][k].gather = "started"
      /\ InChannel(t, k, IF \A j \in Entries(w, t) \ {k} :
                                 w.channels[t][j].gather = "started"
                           THEN Post(w, Msg("MSG_CANDIDATEREADY", t)) ELSE w)
      /\ UNCHANGED events

OnChannelCandidateReady(t, k) ==
  LET w == [World EXCEPT !.channels[t][k].gather = "found",
                         !.transport[t].ready = TRUE]
  IN  /\ channels[t][k].gather = "started"
      /\ InChannel(t, k, IF transport[t].connect_requested
                           THEN Post(w, Msg("MSG_CANDIDATEREADY", t)) ELSE w)
      /\ UNCHANGED events

OnChannelCandidatesAllocationDone(t, k) ==
  LET w == [World EXCEPT !.channels[t][k].gather = "done",
                         !.channels[t][k].allocated = TRUE]
  IN  /\ channels[t][k].gather = "found"
      /\ InChannel(t, k,
           IF \A j \in Entries(w, t) : w.channels[t][j].allocated
             THEN Post(w, Msg("MSG_CANDIDATEALLOCATIONCOMPLETE", t)) ELSE w)
      /\ UNCHANGED events

OnChannelReadableState(t, k) ==
  Event(t, k, Post([World EXCEPT !.channels[t][k].readable = ~@],
                   Msg("MSG_READSTATE", t)))

OnChannelWritableState(t, k) ==
  Event(t, k, Post([World EXCEPT !.channels[t][k].writable = ~@],
                   Msg("MSG_WRITESTATE", t)))

\* The connections have failed: P2PTransportChannel::Allocate once more.
OnChannelRequestSignaling(t, k) ==
  ~channels[t][k].waiting /\ Event(t, k, Connect(World, t, k))

OnChannelRoleConflict(t, k) ==
  Event(t, k, Post(World, Msg("MSG_ROLECONFLICT", t)))

-----------------------------------------------------------------------------
\* Nothing is left to do once the session is deleted.
Terminated == ~Live /\ sq = <<>> /\ wq = <<>> /\ UNCHANGED vars

ClientSteps ==
  \/ \E c \in Contents, k \in ComponentSet :
       CreateChannel(c, k) \/ DestroyChannel(c, k)
  \/ Initiate \/ OnInitiateMessage \/ Delete
  \/ \E desc \in [Contents -> Answers] : Accept(desc) \/ OnAcceptMessage(desc)
  \/ \E c \in Contents, k \in ComponentSet : OnTransportInfoMessage(c, k)

SignalingSteps ==
  \/ OnChannelReadableState_s \/ OnChannelWritableState_s
  \/ OnChannelRequestSignaling_s \/ OnChannelCandidateReady_s
  \/ OnChannelCandidatesAllocationDone_s \/ OnRoleConflict

WorkerSteps ==
  \/ OnSignalingReady_w
  \/ \E t \in Contents, k \in ComponentSet :
       \/ OnChannelCandidateReady(t, k) \/ OnChannelCandidatesAllocationDone(t, k)
       \/ OnChannelReadableState(t, k) \/ OnChannelWritableState(t, k)
       \/ OnChannelRequestSignaling(t, k) \/ OnChannelRoleConflict(t, k)

Next == ClientSteps \/ SignalingSteps \/ WorkerSteps \/ Terminated

Spec == Init /\ [][Next]_vars

-----------------------------------------------------------------------------
(* Properties. *)

\* The channels that refer to a channel of transport t: the proxies that have it
\* as their impl_, and the proxy of t's own content while it is not attached.
Holders(t, k) ==
  {c \in Contents : proxy[c].impl[k] = t}
    \cup {c \in Contents : proxy[c].transport = t /\ proxy[c].impl[k] = None}

\* A channel is referred to as often as its ref_ says: TransportProxy attaches,
\* repoints and deletes channel proxies without losing or inventing a reference.
RefsMatch ==
  \A t \in Contents, k \in ComponentSet :
    channels[t][k].ref > 0 => channels[t][k].ref = Cardinality(Holders(t, k))

\* No channel proxy has a deleted channel as its impl_, none calls a deleted
\* transport, not even while the session is torn down, and no message is left for
\* a transport that SetupMux or the session has deleted.
NoUseAfterDelete ==
  /\ "deleted transport" \notin faults
  /\ \A c \in Contents, k \in ComponentSet :
       proxy[c].impl[k] \in Contents =>
         /\ transport[proxy[c].impl[k]].alive
         /\ channels[proxy[c].impl[k]][k].ref > 0
  /\ \A m \in ToSet(sq) \cup ToSet(wq) : transport[m.transport].alive

\* No ASSERT fails in OnChannelCandidateReady_s, OnTransportRequestSignaling or
\* MaybeEnableMuxingSupport.
AssertsHold ==
  faults \subseteq {"deleted transport", "ASSERT(!IsCandidateAllocationDone())"}

\* OnTransportCandidatesAllocationDone is only called while gathering is not
\* complete, as its ASSERT says.
AllocationDoneOnce == "ASSERT(!IsCandidateAllocationDone())" \notin faults

\* writable() is the OR of the channels' bits once no change is waiting to be
\* handled, also after channels were destroyed or moved to the transport.
WritableIsOr ==
  \A t \in Contents :
    Msg("MSG_WRITESTATE", t) \notin ToSet(sq) =>
      (transport[t].writable # "NONE"
         <=> \E k \in ComponentSet : channels[t][k].writable)

\* The same of readable().  DestroyChannel_w does not ask for it.
ReadableIsOr ==
  \A t \in Contents :
    Msg("MSG_READSTATE", t) \notin ToSet(sq) =>
      (transport[t].readable # "NONE"
         <=> \E k \in ComponentSet : channels[t][k].readable)

\* No candidate is forgotten: a message that sends it is in the queue whenever
\* the transport holds one and may connect.
CandidatesFlushed ==
  \A t \in Contents :
    transport[t].ready /\ transport[t].connect_requested =>
      Msg("MSG_CANDIDATEREADY", t) \in ToSet(sq)

\* Whenever a channel was created, it has the role of the session, which a role
\* conflict reverses, and the protocol that was negotiated, once there is one.
ChannelsInStep ==
  \A t \in Contents, k \in ComponentSet :
    channels[t][k].ref > 0 =>
      /\ channels[t][k].role = IF role_switch_ THEN SwitchedRole ELSE InitialRole
      /\ transport[t].agreed => channels[t][k].protocol = transport[t].protocol

\* Once every channel has its candidates and all messages have been handled, the
\* session knows that gathering is complete.
GatheringReported ==
  (/\ sq = <<>> /\ wq = <<>>
   /\ \A c \in Contents : proxy[c].transport # None =>
        /\ \E k \in ComponentSet : channels[proxy[c].transport][k].ref > 0
        /\ \A k \in ComponentSet : channels[proxy[c].transport][k].ref > 0 =>
             channels[proxy[c].transport][k].gather = "done")
  => IsCandidateAllocationDone(World)

=============================================================================
