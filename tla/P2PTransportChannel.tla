------------------------ MODULE P2PTransportChannel ------------------------
(***************************************************************************)
(* One ICE channel: P2PTransportChannel (p2ptransportchannel.cc) and the   *)
(* Connection objects of its ports (port.cc).  A connection pairs a port   *)
(* with a candidate of the peer.  The channel pings its connections,       *)
(* follows their read and write states, and sorts them to pick the best    *)
(* one, to prune those it no longer needs and to report whether it is      *)
(* readable and writable.                                                  *)
(*                                                                         *)
(* Everything runs on the worker thread.  A handler is one step; what it   *)
(* posts for later is in queue.  Time is not counted: UpdateState finds    *)
(* any connection too long without a ping or an answer that may be so.     *)
(*                                                                         *)
(* Left out: tiebreakers and role conflicts (see Transport), destroyed     *)
(* ports, socket options, statistics, round-trip times, and nominated_,    *)
(* which only adds an attribute to the pings that are sent.                *)
(***************************************************************************)
EXTENDS Integers, FiniteSets, Sequences, FiniteSetsExt, SequencesExt

CONSTANTS Ports,         \* the local ports, of all allocator sessions
          Candidates,    \* the candidates of the peer
          Generation,    \* of each port: the allocator session that makes it
          CandidateGeneration,
          Network,       \* of each port
          Rank,          \* of each connection <<port, candidate>>: its priority,
                         \* and among equals its generation
          Failures,      \* CONNECTION_WRITE_CONNECT_FAILURES
          MaxGeneration, \* bound on allocator sessions
          None           \* a NULL pointer

Conns == Ports \X Candidates
SortMessage == [id |-> "MSG_SORT"]
DeleteMessage(c) == [id |-> "MSG_DELETE", connection |-> c]

ASSUME ChannelAssumption ==
  /\ MaxGeneration \in Nat
  /\ Failures \in Nat \ {0}
  /\ Generation \in [Ports -> 0 .. MaxGeneration]
  /\ CandidateGeneration \in [Candidates -> Nat]
  /\ Rank \in [Conns -> Nat]
  /\ \A c, d \in Conns : Rank[c] = Rank[d] => c = d
  /\ None \notin Conns

VARIABLES role_,
          ready,              \* the ports that have become ready
          generation,         \* of the newest allocator session; -1: none yet
          remote_candidates_,
          connections_,
          conn,               \* the state of each connection
          best_connection_,
          sort_dirty_,
          was_writable_,
          was_timed_out_,
          waiting_for_signaling_,
          readable_,
          writable_,
          queue,              \* the messages of the channel and its connections
          served,             \* the ports that received in this Wait
          silent,             \* whether the network delivers nothing any more
          faults              \* the ASSERTs that have failed

vars == <<role_, ready, generation, remote_candidates_, connections_, conn,
          best_connection_, sort_dirty_, was_writable_, was_timed_out_,
          waiting_for_signaling_, readable_, writable_, queue, served, silent, faults>>

\* succeeded: state_ is STATE_SUCCEEDED, which is all that is asked about it.
\* asked: a ConnectionRequest is outstanding.  pings: the number of
\* pings_since_last_response_, of which only the first Failures count.  fresh:
\* the clocks that were started while the queue was not empty, which it is only
\* for much less than any of the timeouts.
NewConnection ==
  [read |-> "INIT", write |-> "INIT", pruned |-> FALSE, succeeded |-> FALSE,
   pings |-> 0, asked |-> FALSE, fresh |-> {}]

TypeOK ==
  /\ role_ \in {"CONTROLLING", "CONTROLLED"}
  /\ ready \subseteq Ports
  /\ generation \in -1 .. MaxGeneration
  /\ remote_candidates_ \subseteq Candidates
  /\ connections_ \subseteq Conns
  /\ conn \in [Conns ->
       [read : {"INIT", "READABLE", "TIMEOUT"},
        write : {"WRITABLE", "UNRELIABLE", "INIT", "TIMEOUT"},
        pruned : BOOLEAN,
        succeeded : BOOLEAN,
        pings : 0 .. Failures,
        asked : BOOLEAN,
        fresh : SUBSET {"read", "write"}]]
  /\ best_connection_ \in connections_ \cup {None}
  /\ {sort_dirty_, was_writable_, was_timed_out_, waiting_for_signaling_,
      readable_, writable_, silent} \subseteq BOOLEAN
  /\ ToSet(queue) \subseteq {SortMessage} \cup {DeleteMessage(c) : c \in connections_}
  /\ served \subseteq Ports

\* Once Connect has been called.
Init ==
  /\ role_ \in {"CONTROLLING", "CONTROLLED"}
  /\ ready = {}
  /\ generation = -1
  /\ remote_candidates_ = {}
  /\ connections_ = {}
  /\ conn = [c \in Conns |-> NewConnection]
  /\ best_connection_ = None
  /\ sort_dirty_ = FALSE
  /\ was_writable_ = FALSE
  /\ was_timed_out_ = TRUE
  /\ waiting_for_signaling_ = TRUE
  /\ readable_ = FALSE
  /\ writable_ = FALSE
  /\ queue = <<>>
  /\ served = {}
  /\ silent = FALSE
  /\ faults = {}

\* The state that a handler goes through, as one value, and the step to it.
World ==
  [remote |-> remote_candidates_, list |-> connections_, conn |-> conn,
   best |-> best_connection_, dirty |-> sort_dirty_, was_writable |-> was_writable_,
   was_timed_out |-> was_timed_out_, waiting |-> waiting_for_signaling_,
   readable |-> readable_, writable |-> writable_, queue |-> queue, faults |-> faults]

Become(next) ==
  \E w \in {next} :
    /\ remote_candidates_' = w.remote
    /\ connections_' = w.list
    /\ conn' = IF w.queue # <<>> THEN w.conn
               ELSE [c \in Conns |-> [w.conn[c] EXCEPT !.fresh = {}]]
    /\ best_connection_' = w.best
    /\ sort_dirty_' = w.dirty
    /\ was_writable_' = w.was_writable
    /\ was_timed_out_' = w.was_timed_out
    /\ waiting_for_signaling_' = w.waiting
    /\ readable_' = w.readable
    /\ writable_' = w.writable
    /\ queue' = w.queue
    /\ faults' = w.faults
    /\ UNCHANGED role_

Check(w, cond, fault) == IF cond THEN w ELSE [w EXCEPT !.faults = @ \cup {fault}]

\* Op for each element of S; the order makes no difference to what follows.
ForEach(w, S, Op(_, _)) == FoldSet(LAMBDA x, v : Op(v, x), w, S)

-----------------------------------------------------------------------------
(* Connection. *)

RequestSort(w) ==
  IF w.dirty THEN w
  ELSE [w EXCEPT !.queue = Append(@, SortMessage), !.dirty = TRUE]

\* Mutant: a connection that was never readable is kept.
CheckTimeout_Readable(w, c) ==
  IF w.conn[c].read = "TIMEOUT" /\ w.conn[c].write = "TIMEOUT"
    THEN [w EXCEPT !.queue = Append(@, DeleteMessage(c))] ELSE w

CheckTimeout(w, c) ==
  IF w.conn[c].read # "READABLE" /\ w.conn[c].write = "TIMEOUT"
    THEN [w EXCEPT !.queue = Append(@, DeleteMessage(c))] ELSE w

\* Mutant: the channel is not told.
set_read_state_Quiet(w, c, value) ==
  IF w.conn[c].read = value THEN w
  ELSE CheckTimeout([w EXCEPT !.conn[c].read = value], c)

set_read_state(w, c, value) ==
  IF w.conn[c].read = value THEN w
  ELSE CheckTimeout(RequestSort([w EXCEPT !.conn[c].read = value]), c)

set_write_state(w, c, value) ==
  IF w.conn[c].write = value THEN w
  ELSE CheckTimeout(RequestSort([w EXCEPT !.conn[c].write = value]), c)

Prune(w, c) ==
  IF w.conn[c].pruned THEN w
  ELSE set_write_state([w EXCEPT !.conn[c].pruned = TRUE, !.conn[c].asked = FALSE],
                       c, "TIMEOUT")

\* What the clock can find: the connections without a ping for long, those
\* without an answer for CONNECTION_WRITE_CONNECT_TIMEOUT, and those without
\* one for the longer CONNECTION_WRITE_TIMEOUT.
Overdue(w) ==
  LET Old(clock) == {c \in w.list : clock \notin w.conn[c].fresh}
      failing == {c \in Old("write") : w.conn[c].write = "WRITABLE"
                                         /\ w.conn[c].pings >= Failures}
  IN  [read |-> {c \in Old("read") : w.conn[c].read = "READABLE"},
       connect |-> failing,
       write |-> failing \cup {c \in Old("write") :
                                 /\ w.conn[c].write \in {"UNRELIABLE", "INIT"}
                                 /\ w.conn[c].pings > 0}]

Lateness(w) == [read : SUBSET Overdue(w).read, connect : SUBSET Overdue(w).connect,
                write : SUBSET Overdue(w).write]

UpdateState(w, c, late) ==
  LET w1 == IF c \in late.read THEN set_read_state(w, c, "TIMEOUT") ELSE w
      w2 == IF c \in late.connect THEN set_write_state(w1, c, "UNRELIABLE") ELSE w1
  IN  IF c \in late.write /\ w2.conn[c].write # "WRITABLE"
        THEN set_write_state(w2, c, "TIMEOUT") ELSE w2

UpdateConnectionStates(w, late) ==
  ForEach(w, w.list, LAMBDA v, c : UpdateState(v, c, late))

ReceivedPing(w, c) ==
  set_read_state([w EXCEPT !.conn[c].fresh = @ \cup {"read"}], c, "READABLE")

\* An answer to a ping, or data, ends the timeout of a connection.
StartUpAgain(w, c) ==
  IF ~w.conn[c].pruned /\ w.conn[c].write = "TIMEOUT"
    THEN set_write_state(w, c, "INIT") ELSE w

-----------------------------------------------------------------------------
(* Sorting. *)

WriteOrder == [WRITABLE |-> 0, UNRELIABLE |-> 1, INIT |-> 2, TIMEOUT |-> 3]

\* CompareConnections: a is the better one.
Better(w, a, b) ==
  LET wa == WriteOrder[w.conn[a].write]
      wb == WriteOrder[w.conn[b].write]
  IN  wa < wb \/ (wa = wb /\ Rank[a] > Rank[b])

\* The first of S in the sorted list.
Top(w, S) == CHOOSE c \in S : \A d \in S \ {c} : Better(w, c, d)

NetworkOf(c) == Network[c[1]]

\* Mutant: only the priorities are compared.
ShouldSwitch_Priority(w, top) ==
  w.best # top /\ (w.best = None \/ top = None \/ Rank[top] > Rank[w.best])

ShouldSwitch(w, top) ==
  w.best # top /\ (w.best = None \/ top = None \/ Better(w, top, w.best))

SwitchBestConnectionTo(w, c) == [w EXCEPT !.best = c]

PruneOnNetwork(w, network) ==
  LET on == {c \in w.list : NetworkOf(c) = network}
      primier == IF w.best # None /\ w.best \in on THEN w.best ELSE Top(w, on)
  IN  IF w.conn[primier].write # "WRITABLE" THEN w
      ELSE ForEach(w, {c \in on : Rank[c] < Rank[primier]}, Prune)

Allocate(w) == [w EXCEPT !.waiting = TRUE]

HandleWritable(w) ==
  [w EXCEPT !.was_writable = TRUE, !.was_timed_out = FALSE, !.writable = TRUE]

HandleNotWritable(w) ==
  [(IF w.was_writable THEN Allocate(w) ELSE w)
     EXCEPT !.was_writable = FALSE, !.was_timed_out = FALSE, !.writable = FALSE]

\* Mutant: only a channel that was writable allocates again.
HandleAllTimedOut_NoAllocate(w) ==
  [w EXCEPT !.was_writable = FALSE, !.was_timed_out = TRUE, !.writable = FALSE]

HandleAllTimedOut(w) ==
  [(IF w.was_timed_out THEN w ELSE Allocate(w))
     EXCEPT !.was_writable = FALSE, !.was_timed_out = TRUE, !.writable = FALSE]

BestWritable(w) == w.best # None /\ w.conn[w.best].write = "WRITABLE"

UpdateChannelState(w) ==
  Check([w EXCEPT !.readable = \E c \in w.list : w.conn[c].read = "READABLE"],
        BestWritable(w) = w.writable, "ASSERT(writable == this->writable())")

\* The rest of SortConnections, once the states are up to date.
Sort(w) ==
  LET w1 == [w EXCEPT !.dirty = FALSE]
      top == IF w.list = {} THEN None ELSE Top(w, w.list)
      w2 == IF ShouldSwitch(w1, top) THEN SwitchBestConnectionTo(w1, top) ELSE w1
      w3 == ForEach(w2, {NetworkOf(c) : c \in w.list}, PruneOnNetwork)
      States == {w3.conn[c].write : c \in w.list}
  IN  UpdateChannelState(
        IF "WRITABLE" \in States THEN HandleWritable(w3)
        ELSE IF States \cap {"UNRELIABLE", "INIT"} # {} THEN HandleNotWritable(w3)
        ELSE HandleAllTimedOut(w3))

SortConnections(w) ==
  \E late \in Lateness(w) : Become(Sort(UpdateConnectionStates(w, late)))

-----------------------------------------------------------------------------
(* Ports and candidates. *)

ports_ == {p \in ready : Generation[p] = generation}

CreateConnection(w, c, readable) ==
  LET w1 == IF c \in w.list THEN w
            ELSE [w EXCEPT !.list = @ \cup {c}, !.conn[c] = NewConnection]
  IN  IF readable THEN ReceivedPing(w1, c) ELSE w1

RememberRemoteCandidate(w, r) ==
  [w EXCEPT !.remote =
     {s \in @ : CandidateGeneration[s] >= CandidateGeneration[r]} \cup {r}]

\* With the port that the candidate was found by, if there is one.
CreateConnections(w, r, origin, readable) ==
  RememberRemoteCandidate(
    ForEach(w, ports_ \cup origin,
            LAMBDA v, p : CreateConnection(v, <<p, r>>, readable)), r)

\* The handler of a message.  The next event of a socket needs a new Wait.
OnMessage == served' = {} /\ UNCHANGED silent

OnSignalingReady ==
  /\ waiting_for_signaling_
  /\ generation < MaxGeneration
  /\ generation' = generation + 1
  /\ Become([World EXCEPT !.waiting = FALSE])
  /\ UNCHANGED ready
  /\ OnMessage

OnPortReady(p) ==
  /\ p \notin ready
  /\ Generation[p] = generation
  /\ ready' = ready \cup {p}
  /\ SortConnections(ForEach(World, remote_candidates_,
                             LAMBDA v, r : CreateConnection(v, <<p, r>>, FALSE)))
  /\ UNCHANGED generation
  /\ OnMessage

\* The peer sends a candidate once.
OnCandidate(r) ==
  /\ r \notin remote_candidates_
  /\ SortConnections(CreateConnections(World, r, {}, FALSE))
  /\ UNCHANGED <<ready, generation>>
  /\ OnMessage

-----------------------------------------------------------------------------
(* Messages and packets. *)

OnSort ==
  /\ queue # <<>> /\ Head(queue).id = "MSG_SORT"
  /\ SortConnections([World EXCEPT !.queue = Tail(@)])
  /\ UNCHANGED <<ready, generation>>
  /\ OnMessage

\* Mutant: the channel keeps its pointer.
OnDelete_Dangling ==
  /\ queue # <<>> /\ Head(queue).id = "MSG_DELETE"
  /\ LET c == Head(queue).connection
         Other(m) == m # DeleteMessage(c)
     IN  Become([World EXCEPT !.list = @ \ {c}, !.conn[c] = NewConnection,
                              !.queue = SelectSeq(@, Other)])
  /\ UNCHANGED <<ready, generation>>
  /\ OnMessage

\* Mutant: no new best connection is looked for.
OnDelete_NoSort ==
  /\ queue # <<>> /\ Head(queue).id = "MSG_DELETE"
  /\ LET c == Head(queue).connection
         Other(m) == m # DeleteMessage(c)
         w == [World EXCEPT !.list = @ \ {c}, !.conn[c] = NewConnection,
                            !.queue = SelectSeq(@, Other)]
     IN  Become(IF best_connection_ = c THEN SwitchBestConnectionTo(w, None) ELSE w)
  /\ UNCHANGED <<ready, generation>>
  /\ OnMessage

\* OnMessage of a Connection: OnConnectionDestroyed, and the end of the object
\* and of its messages.
OnDelete ==
  /\ queue # <<>> /\ Head(queue).id = "MSG_DELETE"
  /\ LET c == Head(queue).connection
         Other(m) == m # DeleteMessage(c)
         w == [World EXCEPT !.list = @ \ {c}, !.conn[c] = NewConnection,
                            !.queue = SelectSeq(@, Other)]
         w1 == Check(w, c \in connections_, "ASSERT(iter != connections_.end())")
     IN  Become(IF best_connection_ = c
                  THEN RequestSort(SwitchBestConnectionTo(w1, None)) ELSE w1)
  /\ UNCHANGED <<ready, generation>>
  /\ OnMessage

IsPingable(w, c) ==
  \/ w.conn[c].write # "TIMEOUT"
  \/ ~w.writable /\ w.conn[c].read # "TIMEOUT"

Ping(w, c) ==
  [w EXCEPT !.conn[c].fresh = IF w.conn[c].pings = 0 THEN @ \cup {"write"} ELSE @,
            !.conn[c].pings = Min({@ + 1, Failures}),
            !.conn[c].asked = TRUE,
            !.conn[c].succeeded = FALSE]

\* FindNextPingableConnection takes the one pinged longest ago, unless it is
\* the turn of a writable best connection.
OnPing(late, c) ==
  /\ \E w \in {UpdateConnectionStates(World, late)} :
       LET pingable == {d \in w.list : IsPingable(w, d)
                                         \/ (d = w.best /\ BestWritable(w))}
       IN  /\ c \in pingable \/ (c = None /\ pingable = {})
           /\ Become(IF c = None THEN w ELSE Ping(w, c))
  /\ UNCHANGED <<ready, generation>>
  /\ OnMessage

\* A ConnectionRequest is not answered in time.
OnConnectionRequestTimeout(c) ==
  /\ c \in connections_ /\ conn[c].asked
  /\ Become([World EXCEPT !.conn[c].asked = FALSE])
  /\ UNCHANGED <<ready, generation>>
  /\ OnMessage

\* Get waits for sockets only once its queue is empty, and one Wait takes at
\* most one packet from each socket.
Receive(p, w) ==
  /\ ~silent
  /\ queue = <<>> \/ (served # {} /\ p \notin served)
  /\ Become(w)
  /\ served' = IF w.queue = <<>> THEN {} ELSE served \cup {p}
  /\ UNCHANGED <<ready, generation, silent>>

\* A ping from the peer, with USE-CANDIDATE if it is the controlling one and
\* nominates the connection.
OnBindingRequest(c, nominate) ==
  LET w == StartUpAgain(ReceivedPing(World, c), c)
  IN  /\ c \in connections_
      /\ nominate => role_ = "CONTROLLED"
      /\ Receive(c[1], IF nominate /\ conn[c].succeeded
                         THEN SwitchBestConnectionTo(w, c) ELSE w)

OnBindingResponse(c) ==
  /\ c \in connections_ /\ conn[c].asked
  /\ Receive(c[1], [set_write_state(World, c, "WRITABLE")
                      EXCEPT !.conn[c].succeeded = TRUE,
                             !.conn[c].pings = 0,
                             !.conn[c].asked = FALSE])

\* An error that ends the connection; the others change nothing.
OnBindingErrorResponse(c) ==
  /\ c \in connections_ /\ conn[c].asked
  /\ Receive(c[1], set_write_state([World EXCEPT !.conn[c].succeeded = FALSE,
                                                 !.conn[c].asked = FALSE],
                                   c, "TIMEOUT"))

OnData(c) ==
  /\ c \in connections_ /\ conn[c].read = "READABLE"
  /\ Receive(c[1], StartUpAgain([World EXCEPT !.conn[c].fresh = @ \cup {"read"}], c))

\* A ping that reaches a port which has no connection to its sender.
OnUnknownAddress(p, r) ==
  LET w == CreateConnections(World, r, {p}, TRUE)
  IN  /\ p \in ready
      /\ <<p, r>> \notin connections_
      /\ remote_candidates_ # {}
      /\ \E late \in Lateness(w) :
           Receive(p, Sort(UpdateConnectionStates(w, late)))

\* The path to the peer breaks, for good.
NetworkFails ==
  /\ ~silent
  /\ silent' = TRUE
  /\ Become(World)
  /\ UNCHANGED <<ready, generation, served>>

-----------------------------------------------------------------------------
Next ==
  \/ OnSignalingReady
  \/ \E p \in Ports : OnPortReady(p)
  \/ \E r \in Candidates : OnCandidate(r)
  \/ OnSort \/ OnDelete
  \/ \E late \in Lateness(World), c \in Conns \cup {None} : OnPing(late, c)
  \/ \E c \in Conns :
       \/ OnConnectionRequestTimeout(c)
       \/ \E nominate \in BOOLEAN : OnBindingRequest(c, nominate)
       \/ OnBindingResponse(c) \/ OnBindingErrorResponse(c) \/ OnData(c)
  \/ \E p \in Ports, r \in Candidates : OnUnknownAddress(p, r)
  \/ NetworkFails

Spec == Init /\ [][Next]_vars

\* Get returns what was posted, and OnPing, which posts itself again, takes each
\* connection in turn and sees the clocks that run out when nothing arrives.
Fairness ==
  /\ []<>(queue = <<>>)
  /\ \A c \in Conns :
       /\ []<>(silent => c \notin Overdue(World).read)
       /\ []<>(silent => c \notin Overdue(World).connect)
       /\ []<>(silent => c \notin Overdue(World).write)
       /\ []<>(silent /\ c \in connections_ /\ IsPingable(World, c)
                 => conn[c].pings = Failures)

FairSpec == Spec /\ Fairness

-----------------------------------------------------------------------------
(* Properties. *)

SortQueued == SortMessage \in ToSet(queue)

\* Unless a sort is on its way, the best connection is the first of the list
\* that SortConnections would make now.  (The controlling side; the controlled
\* one uses what its peer nominates until it sorts again.)
BestIsTop ==
  role_ = "CONTROLLING" /\ ~SortQueued =>
    best_connection_ = IF connections_ = {} THEN None ELSE Top(World, connections_)

\* Unless a sort is on its way, the channel reports itself writable exactly when
\* one of its connections is, and readable when one of them is.
ReportsItsState ==
  ~SortQueued =>
    /\ writable_ = \E c \in connections_ : conn[c].write = "WRITABLE"
    /\ readable_ = \E c \in connections_ : conn[c].read = "READABLE"

\* The ASSERTs of UpdateChannelState and OnConnectionDestroyed hold.
AssertsHold == faults = {}

\* Once SortConnections has run, no connection is left in use beside a writable
\* best connection of the same network and higher priority.
WorseArePruned ==
  ~SortQueued /\ BestWritable(World) =>
    \A c \in connections_ :
      NetworkOf(c) = NetworkOf(best_connection_) /\ Rank[c] < Rank[best_connection_]
        => conn[c].write = "TIMEOUT"

\* When the network falls silent, all connections time out and are deleted, and
\* the channel reports that it is neither readable nor writable.
SilenceIsNoticed ==
  silent ~> [](connections_ = {} /\ ~readable_ /\ ~writable_)

\* A channel that had connections which were not all timed out asks for a new
\* allocation when the network falls silent.
AllocatesAgain == silent /\ ~was_timed_out_ ~> waiting_for_signaling_

=============================================================================
