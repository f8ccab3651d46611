------------------------------- MODULE Thread -------------------------------
(***************************************************************************)
(* talk_base::Thread on talk_base::MessageQueue: the loop Get/Dispatch,    *)
(* the synchronous Send with its nested ReceiveSends, Post, Clear, Quit,   *)
(* Stop and the destructor, over PhysicalSocketServer's Wait/WakeUp.       *)
(*                                                                         *)
(* Every thread is a call stack.  A frame is one active call of the code   *)
(* and pc the statement it has reached; a critical section is one step,    *)
(* and so is a read of fStop_, has_sends_ or ready outside of one.  The    *)
(* handlers are the environment: while one runs it may Post, Send, destroy *)
(* a handler of its own thread, or return.  Delayed messages, Peek and     *)
(* Restart are in module MessageQueue.                                     *)
(***************************************************************************)
EXTENDS Naturals, Sequences, FiniteSets

CONSTANTS LoopThreads,    \* threads inside Thread::Run
          NativeThreads,  \* threads of the application with no Thread object
          Handlers,       \* MessageHandler objects
          Home,           \* the thread whose queue a handler's messages go to
          Msgs,           \* messages, each one posted or sent at most once
          HandlerOf,      \* Message::phandler
          Stoppable,      \* threads the application stops and deletes
          Mortal,         \* handlers that are destroyed while the threads run
          MaxIo,          \* bound: socket events dispatched by the threads' Waits
          None

Threads == LoopThreads \cup NativeThreads

ASSUME ThreadAssumption ==
  /\ LoopThreads \cap NativeThreads = {}
  /\ Home \in [Handlers -> LoopThreads]
  /\ HandlerOf \in [Msgs -> Handlers]
  /\ Stoppable \subseteq LoopThreads
  /\ Mortal \subseteq Handlers
  /\ MaxIo \in Nat
  /\ None \notin Threads \cup Msgs

VARIABLES fStop_,      \* per loop thread: Quit was called
          msgq_,       \* per loop thread: posted messages
          sendlist_,   \* per loop thread: sent messages not yet received
          has_sends_,  \* per loop thread: the unlocked hint that there are some
          signaled,    \* per thread: its socket server's wakeup pipe holds a byte
          fWait_,      \* per thread: its socket server's Wait loop goes on
          stack,       \* per thread: the active calls, innermost last
          from,        \* the thread that posted or sent a message, None before
          ready,       \* sent messages whose Send may return
          dead,        \* destroyed handlers
          io,          \* socket events dispatched so far
          owed         \* per loop thread: what was queued when Quit was called

vars == <<fStop_, msgq_, sendlist_, has_sends_, signaled, fWait_, stack, from,
          ready, dead, io, owed>>

(***************************************************************************)
(* Frames.                                                                 *)
(***************************************************************************)
GetPcs  == {"get", "queue", "stopCheck", "select", "exited"}
RecvPcs == {"rsCheck", "rsPop", "rsRun", "rsWake"}
SendPcs == {"sendStop", "sendPush", "sendWake", "sendTest", "sendEnter",
            "sendWait"}
PostPcs == {"postStop", "postPush"}
UserPcs == {"handler", "native"}
StopPcs == {"join", "dtorClear"}

Frames == [pc : GetPcs \cup RecvPcs \cup SendPcs \cup PostPcs \cup UserPcs
                  \cup StopPcs,
           arg : Msgs \cup LoopThreads \cup {None},
           waited : BOOLEAN]

Frame(pc, arg) == [pc |-> pc, arg |-> arg, waited |-> FALSE]

Top(t)   == stack[t][Len(stack[t])]
At(t, l) == Top(t).pc = l
Dest(m)  == Home[HandlerOf[m]]
Elems(s) == {s[i] : i \in DOMAIN s}

\* The call on top of t's stack goes on as frame f; with it calls g; returns.
Become(t, f)  == stack' = [stack EXCEPT ![t][Len(stack[t])] = f]
Push(t, f, g) == stack' = [stack EXCEPT ![t] =
                             Append([@ EXCEPT ![Len(@)] = f], g)]
Return(t)     == stack' = [stack EXCEPT ![t] = SubSeq(@, 1, Len(@) - 1)]

Goto(t, l)    == Become(t, [Top(t) EXCEPT !.pc = l])
Call(t, l, g) == Push(t, [Top(t) EXCEPT !.pc = l], g)

\* ReceiveSends holds crit_ from the return of OnMessage to the next pop.
CritFree(t) == ~At(t, "rsWake")

-----------------------------------------------------------------------------
Init ==
  /\ fStop_ = [t \in LoopThreads |-> FALSE]
  /\ msgq_ = [t \in LoopThreads |-> <<>>]
  /\ sendlist_ = [t \in LoopThreads |-> <<>>]
  /\ has_sends_ = [t \in LoopThreads |-> FALSE]
  /\ signaled = [t \in Threads |-> FALSE]
  /\ fWait_ = [t \in Threads |-> FALSE]
  /\ stack = [t \in Threads |->
                <<Frame(IF t \in LoopThreads THEN "get" ELSE "native", None)>>]
  /\ from = [m \in Msgs |-> None]
  /\ ready = {}
  /\ dead = {}
  /\ io = 0
  /\ owed = [t \in LoopThreads |-> {}]

(***************************************************************************)
(* MessageQueue::Get and Thread::ProcessMessages.                          *)
(***************************************************************************)
GetReceiveSends(t) ==
  /\ At(t, "get")
  /\ Call(t, "queue", Frame("rsCheck", None))
  /\ UNCHANGED <<fStop_, msgq_, sendlist_, has_sends_, signaled, fWait_, from,
                 ready, dead, io, owed>>

\* The locked look at msgq_: a message is popped and dispatched.
GetQueue(t) ==
  /\ At(t, "queue")
  /\ IF msgq_[t] # <<>>
       THEN /\ Call(t, "get", Frame("handler", Head(msgq_[t])))
            /\ msgq_' = [msgq_ EXCEPT ![t] = Tail(@)]
       ELSE /\ Goto(t, "stopCheck")
            /\ UNCHANGED msgq_
  /\ UNCHANGED <<fStop_, sendlist_, has_sends_, signaled, fWait_, from, ready,
                 dead, io, owed>>

\* The unlocked test of fStop_, then the entry of ss_->Wait.
GetStopCheck(t) ==
  /\ At(t, "stopCheck")
  /\ IF fStop_[t]
       THEN Goto(t, "exited") /\ UNCHANGED fWait_
       ELSE Goto(t, "select") /\ fWait_' = [fWait_ EXCEPT ![t] = TRUE]
  /\ UNCHANGED <<fStop_, msgq_, sendlist_, has_sends_, signaled, from, ready,
                 dead, io, owed>>

\* The wakeup pipe is readable: Signaler resets it and ends the wait loop.
SelectSignaled(t) ==
  /\ At(t, "select")
  /\ fWait_[t] /\ signaled[t]
  /\ signaled' = [signaled EXCEPT ![t] = FALSE]
  /\ fWait_' = [fWait_ EXCEPT ![t] = FALSE]
  /\ UNCHANGED <<fStop_, msgq_, sendlist_, has_sends_, stack, from, ready,
                 dead, io, owed>>

\* A socket is ready: its event handler runs inside of Wait.
SelectIo(t) ==
  /\ At(t, "select")
  /\ io < MaxIo
  /\ io' = io + 1
  /\ Call(t, "select", Frame("handler", None))
  /\ UNCHANGED <<fStop_, msgq_, sendlist_, has_sends_, signaled, fWait_, from,
                 ready, dead, owed>>

SelectReturn(t) ==
  /\ At(t, "select")
  /\ ~fWait_[t]
  /\ Goto(t, "get")
  /\ UNCHANGED <<fStop_, msgq_, sendlist_, has_sends_, signaled, fWait_, from,
                 ready, dead, io, owed>>

(***************************************************************************)
(* Thread::ReceiveSends.                                                   *)
(***************************************************************************)
ReceiveCheck(t) ==
  /\ At(t, "rsCheck")
  /\ IF t \in LoopThreads /\ has_sends_[t] THEN Goto(t, "rsPop") ELSE Return(t)
  /\ UNCHANGED <<fStop_, msgq_, sendlist_, has_sends_, signaled, fWait_, from,
                 ready, dead, io, owed>>

\* One turn of the while loop, crit_ held: run the first message, or leave.
ReceiveNext(t) ==
  IF sendlist_[t] # <<>>
    THEN /\ Push(t, Frame("rsRun", Head(sendlist_[t])),
                    Frame("handler", Head(sendlist_[t])))
         /\ sendlist_' = [sendlist_ EXCEPT ![t] = Tail(@)]
         /\ UNCHANGED has_sends_
    ELSE /\ Return(t)
         /\ has_sends_' = [has_sends_ EXCEPT ![t] = FALSE]
         /\ UNCHANGED sendlist_

ReceivePop(t) ==
  /\ At(t, "rsPop")
  /\ ReceiveNext(t)
  /\ UNCHANGED <<fStop_, msgq_, signaled, fWait_, from, ready, dead, io, owed>>

\* OnMessage has returned: *smsg.ready = true.
ReceiveReady(t) ==
  /\ At(t, "rsRun")
  /\ ready' = ready \cup {Top(t).arg}
  /\ Goto(t, "rsWake")
  /\ UNCHANGED <<fStop_, msgq_, sendlist_, has_sends_, signaled, fWait_, from,
                 dead, io, owed>>

\* Mutant: the sender is not woken.
ReceiveWakeSilent(t) ==
  /\ At(t, "rsWake")
  /\ ReceiveNext(t)
  /\ UNCHANGED <<fStop_, msgq_, signaled, fWait_, from, ready, dead, io, owed>>

\* smsg.thread->socketserver()->WakeUp(), and the next turn.
ReceiveWake(t) ==
  /\ At(t, "rsWake")
  /\ signaled' = [signaled EXCEPT ![from[Top(t).arg]] = TRUE]
  /\ ReceiveNext(t)
  /\ UNCHANGED <<fStop_, msgq_, fWait_, from, ready, dead, io, owed>>

(***************************************************************************)
(* Thread::Send and MessageQueue::Post, called on thread t.                *)
(***************************************************************************)
\* A handler or the application starts a call.
BeginCall(t, m, l) ==
  /\ Top(t).pc \in UserPcs
  /\ from[m] = None
  /\ HandlerOf[m] \notin dead
  /\ from' = [from EXCEPT ![m] = t]
  /\ Call(t, Top(t).pc, Frame(l, m))
  /\ UNCHANGED <<fStop_, msgq_, sendlist_, has_sends_, signaled, fWait_, ready,
                 dead, io, owed>>

Send(t, m) == BeginCall(t, m, "sendStop")
Post(t, m) == BeginCall(t, m, "postStop")

\* A Send to the current thread calls the handler directly; on a native thread
\* Send makes an AutoThread, with a socket server of its own.
SendStopCheck(t) ==
  /\ At(t, "sendStop")
  /\ LET m == Top(t).arg
     IN  IF fStop_[Dest(m)] THEN Return(t)
         ELSE IF Dest(m) = t THEN Goto(t, "handler")
         ELSE Goto(t, "sendPush")
  /\ signaled' = [signaled EXCEPT ![t] = @ /\ t \in LoopThreads]
  /\ UNCHANGED <<fStop_, msgq_, sendlist_, has_sends_, fWait_, from, ready,
                 dead, io, owed>>

SendPush(t) ==
  /\ At(t, "sendPush")
  /\ LET m == Top(t).arg
     IN  /\ CritFree(Dest(m))
         /\ sendlist_' = [sendlist_ EXCEPT ![Dest(m)] = Append(@, m)]
         /\ has_sends_' = [has_sends_ EXCEPT ![Dest(m)] = TRUE]
  /\ Goto(t, "sendWake")
  /\ UNCHANGED <<fStop_, msgq_, signaled, fWait_, from, ready, dead, io, owed>>

SendWake(t) ==
  /\ At(t, "sendWake")
  /\ signaled' = [signaled EXCEPT ![Dest(Top(t).arg)] = TRUE]
  /\ Goto(t, "sendTest")
  /\ UNCHANGED <<fStop_, msgq_, sendlist_, has_sends_, fWait_, from, ready,
                 dead, io, owed>>

\* Mutant: the wait loop of Send does not receive sends.
SendTestDeaf(t) ==
  /\ At(t, "sendTest")
  /\ IF Top(t).arg \in ready
       THEN /\ Return(t)
            /\ signaled' = IF Top(t).waited
                             THEN [signaled EXCEPT ![t] = TRUE] ELSE signaled
       ELSE /\ Goto(t, "sendEnter")
            /\ UNCHANGED signaled
  /\ UNCHANGED <<fStop_, msgq_, sendlist_, has_sends_, fWait_, from, ready,
                 dead, io, owed>>

\* while (!ready): receive the sends made to us, or leave the loop and give
\* back the wakeups it may have consumed.
SendTest(t) ==
  /\ At(t, "sendTest")
  /\ IF Top(t).arg \in ready
       THEN /\ Return(t)
            /\ signaled' = IF Top(t).waited
                             THEN [signaled EXCEPT ![t] = TRUE] ELSE signaled
       ELSE /\ Call(t, "sendEnter", Frame("rsCheck", None))
            /\ UNCHANGED signaled
  /\ UNCHANGED <<fStop_, msgq_, sendlist_, has_sends_, fWait_, from, ready,
                 dead, io, owed>>

\* Wait(kForever, false): only the wakeup pipe is watched.
SendEnterWait(t) ==
  /\ At(t, "sendEnter")
  /\ Goto(t, "sendWait")
  /\ fWait_' = [fWait_ EXCEPT ![t] = TRUE]
  /\ UNCHANGED <<fStop_, msgq_, sendlist_, has_sends_, signaled, from, ready,
                 dead, io, owed>>

SendWaitReturn(t) ==
  /\ At(t, "sendWait")
  /\ signaled[t]
  /\ signaled' = [signaled EXCEPT ![t] = FALSE]
  /\ fWait_' = [fWait_ EXCEPT ![t] = FALSE]
  /\ Become(t, [Top(t) EXCEPT !.pc = "sendTest", !.waited = TRUE])
  /\ UNCHANGED <<fStop_, msgq_, sendlist_, has_sends_, from, ready, dead, io,
                 owed>>

PostStopCheck(t) ==
  /\ At(t, "postStop")
  /\ IF fStop_[Dest(Top(t).arg)] THEN Return(t) ELSE Goto(t, "postPush")
  /\ UNCHANGED <<fStop_, msgq_, sendlist_, has_sends_, signaled, fWait_, from,
                 ready, dead, io, owed>>

\* Mutant: Post does not wake the socket server up.
PostPushNoWakeUp(t) ==
  /\ At(t, "postPush")
  /\ LET d == Dest(Top(t).arg)
     IN  /\ CritFree(d)
         /\ msgq_' = [msgq_ EXCEPT ![d] = Append(@, Top(t).arg)]
  /\ Return(t)
  /\ UNCHANGED <<fStop_, sendlist_, has_sends_, signaled, fWait_, from, ready,
                 dead, io, owed>>

PostPush(t) ==
  /\ At(t, "postPush")
  /\ LET d == Dest(Top(t).arg)
     IN  /\ CritFree(d)
         /\ msgq_' = [msgq_ EXCEPT ![d] = Append(@, Top(t).arg)]
         /\ signaled' = [signaled EXCEPT ![d] = TRUE]
  /\ Return(t)
  /\ UNCHANGED <<fStop_, sendlist_, has_sends_, fWait_, from, ready, dead, io,
                 owed>>

HandlerReturn(t) ==
  /\ At(t, "handler")
  /\ Return(t)
  /\ UNCHANGED <<fStop_, msgq_, sendlist_, has_sends_, signaled, fWait_, from,
                 ready, dead, io, owed>>

(***************************************************************************)
(* Thread::Clear, on the queue of d, for the messages in ms.               *)
(***************************************************************************)
\* The sequence s without the messages in ms, the others in their order.
Remainders(s, ms) ==
  {r \in UNION {[1..k -> Elems(s)] : k \in 0..Len(s)} :
     \E at \in [DOMAIN r -> DOMAIN s] :
       /\ \A i, j \in DOMAIN r : i < j => at[i] < at[j]
       /\ \A i \in DOMAIN r : r[i] = s[at[i]]
       /\ {at[i] : i \in DOMAIN r} = {i \in DOMAIN s : s[i] \notin ms}}

\* Both lists of d lose the messages in ms.
Erase(d, ms) ==
  /\ CritFree(d)
  /\ \E r \in Remainders(sendlist_[d], ms) :
       sendlist_' = [sendlist_ EXCEPT ![d] = r]
  /\ \E r \in Remainders(msgq_[d], ms) : msgq_' = [msgq_ EXCEPT ![d] = r]

\* The Sends of the messages in gone may return, and are told so.
Release(gone) ==
  /\ ready' = ready \cup gone
  /\ signaled' = [t \in Threads |->
                    signaled[t] \/ \E m \in gone : from[m] = t]

\* Mutant: the send whose OnMessage is running is completed as well.
ClearCompletesRunning(d, ms) ==
  Erase(d, ms) /\ Release({m \in ms : from[m] # None /\ Dest(m) = d})

\* Mutant: only the sends are cleared, not the posted messages.
ClearKeepsPosts(d, ms) ==
  /\ CritFree(d)
  /\ \E r \in Remainders(sendlist_[d], ms) :
       sendlist_' = [sendlist_ EXCEPT ![d] = r]
  /\ Release(Elems(sendlist_[d]) \cap ms)
  /\ UNCHANGED msgq_

\* Mutant: the senders of cleared messages are not woken up.
ClearNoWakeUp(d, ms) ==
  /\ Erase(d, ms)
  /\ ready' = ready \cup (Elems(sendlist_[d]) \cap ms)
  /\ UNCHANGED signaled

Clear(d, ms) ==
  Erase(d, ms) /\ Release(Elems(sendlist_[d]) \cap ms)

\* A call that has not put its message on the queue yet.
Unqueued(ms) ==
  \E t \in Threads : \E i \in DOMAIN stack[t] :
    /\ stack[t][i].pc \in PostPcs \cup {"sendStop", "sendPush"}
    /\ stack[t][i].arg \in ms

\* ~MessageHandler, on the handler's own thread: MessageQueueManager::Clear.
\* Usage rule: nobody is in the middle of posting to the object.
DestroyHandler(t, h) ==
  LET ms == {m \in Msgs : HandlerOf[m] = h}
  IN  /\ At(t, "handler")
      /\ h \in Mortal \ dead
      /\ Home[h] = t
      /\ ~Unqueued(ms)
      /\ Clear(t, ms)
      /\ dead' = dead \cup {h}
      /\ UNCHANGED <<fStop_, has_sends_, fWait_, stack, from, io, owed>>

(***************************************************************************)
(* Thread::Stop and ~Thread, called by the application.                    *)
(***************************************************************************)
StopThread(t, u) ==
  /\ At(t, "native")
  /\ u \in Stoppable /\ ~fStop_[u]
  /\ fStop_' = [fStop_ EXCEPT ![u] = TRUE]
  /\ signaled' = [signaled EXCEPT ![u] = TRUE]
  /\ owed' = [owed EXCEPT ![u] = Elems(msgq_[u]) \cup Elems(sendlist_[u])]
  /\ Call(t, "native", Frame("join", u))
  /\ UNCHANGED <<msgq_, sendlist_, has_sends_, fWait_, from, ready, dead, io>>

Join(t) ==
  /\ At(t, "join")
  /\ At(Top(t).arg, "exited")
  /\ Goto(t, "dtorClear")
  /\ UNCHANGED <<fStop_, msgq_, sendlist_, has_sends_, signaled, fWait_, from,
                 ready, dead, io, owed>>

\* Usage rule: no call on the thread object is about to queue a message.
DtorClear(t) ==
  LET u == Top(t).arg
  IN  /\ At(t, "dtorClear")
      /\ ~Unqueued({m \in Msgs : Dest(m) = u})
      /\ Clear(u, Msgs)
      /\ Return(t)
      /\ UNCHANGED <<fStop_, has_sends_, fWait_, from, dead, io, owed>>

-----------------------------------------------------------------------------
\* What thread t does without a choice of the environment.
Step(t) ==
  \/ GetReceiveSends(t) \/ GetQueue(t) \/ GetStopCheck(t)
  \/ SelectSignaled(t) \/ SelectReturn(t)
  \/ ReceiveCheck(t) \/ ReceivePop(t) \/ ReceiveReady(t) \/ ReceiveWake(t)
  \/ SendStopCheck(t) \/ SendPush(t) \/ SendWake(t) \/ SendTest(t)
  \/ SendEnterWait(t) \/ SendWaitReturn(t)
  \/ PostStopCheck(t) \/ PostPush(t) \/ HandlerReturn(t)
  \/ Join(t) \/ DtorClear(t)

Next ==
  \E t \in Threads :
    \/ Step(t)
    \/ SelectIo(t)
    \/ \E m \in Msgs : Send(t, m) \/ Post(t, m)
    \/ \E h \in Handlers : DestroyHandler(t, h)
    \/ \E u \in LoopThreads : StopThread(t, u)

Spec == Init /\ [][Next]_vars

\* The operating system runs every thread, and every handler returns.
FairSpec == Spec /\ \A t \in Threads : WF_vars(Step(t))

-----------------------------------------------------------------------------
(***************************************************************************)
(* Properties.                                                             *)
(***************************************************************************)
\* Every variable of the threads and their queues has its type.
TypeOK ==
  /\ fStop_ \in [LoopThreads -> BOOLEAN]
  /\ msgq_ \in [LoopThreads -> Seq(Msgs)]
  /\ sendlist_ \in [LoopThreads -> Seq(Msgs)]
  /\ has_sends_ \in [LoopThreads -> BOOLEAN]
  /\ signaled \in [Threads -> BOOLEAN]
  /\ fWait_ \in [Threads -> BOOLEAN]
  /\ stack \in [Threads -> Seq(Frames) \ {<<>>}]
  /\ from \in [Msgs -> Threads \cup {None}]
  /\ ready \subseteq Msgs
  /\ dead \subseteq Handlers
  /\ io \in 0..MaxIo
  /\ owed \in [LoopThreads -> SUBSET Msgs]

Sending(t, m) == \E i \in DOMAIN stack[t] :
                   stack[t][i].pc \in SendPcs /\ stack[t][i].arg = m

\* While a sent message is on sendlist_ or its OnMessage runs on the receiving
\* thread, the sender is still inside of Send: the message data it passed by
\* pointer, mostly from its own stack frame, is alive.
SenderWaits ==
  \A t \in LoopThreads :
    /\ \A m \in Elems(sendlist_[t]) : from[m] # None /\ Sending(from[m], m)
    /\ \A i \in DOMAIN stack[t] : stack[t][i].pc = "rsRun" =>
         from[stack[t][i].arg] # None
         /\ Sending(from[stack[t][i].arg], stack[t][i].arg)

\* No queue holds a message for a destroyed handler, so none is dispatched to
\* one: ~MessageHandler removes what is queued for it on every queue.
NoMessageForDeadHandler ==
  \A t \in LoopThreads :
    \A m \in Elems(msgq_[t]) \cup Elems(sendlist_[t]) : HandlerOf[m] \notin dead

Waker(t)     == \E u \in Threads : At(u, "sendWake") /\ Dest(Top(u).arg) = t
Finisher(m)  == \E u \in LoopThreads : At(u, "rsWake") /\ Top(u).arg = m
\* A nested Send of t, above frame i, will call WakeUp before it returns.
Rewakes(t, i) == \E j \in DOMAIN stack[t] :
                   /\ j > i
                   /\ stack[t][j].waited \/ stack[t][j].pc = "sendWait"

\* Get blocks only when there is nothing to do: with a message posted or sent,
\* or Quit called, the wait in progress is about to end.
GetWakes ==
  \A t \in LoopThreads : \A i \in DOMAIN stack[t] :
    stack[t][i].pc = "select"
      /\ (msgq_[t] # <<>> \/ sendlist_[t] # <<>> \/ fStop_[t])
    => signaled[t] \/ ~fWait_[t] \/ Waker(t) \/ Rewakes(t, i)

\* Send blocks only when there is nothing to do: once its message was handled,
\* or another thread has sent one to this thread, its wait is about to end.
SendWakes ==
  \A t \in Threads : \A i \in DOMAIN stack[t] :
    LET f == stack[t][i]
    IN  /\ f.pc \in {"sendEnter", "sendWait"} /\ f.arg \in ready
          => signaled[t] \/ Finisher(f.arg) \/ Rewakes(t, i)
        /\ f.pc = "sendWait" /\ t \in LoopThreads /\ sendlist_[t] # <<>>
          => signaled[t] \/ Waker(t)

\* Every Send returns, whatever the threads send to each other meanwhile: the
\* wait loop of Send receives the sends made to its own thread.
SendReturns ==
  \A m \in Msgs :
    (\E t \in Threads : Sending(t, m)) ~> ~(\E t \in Threads : Sending(t, m))

\* A queued message does not stay on its queue: it is dispatched, or cleared.
QueuesDrain ==
  \A m \in Msgs :
    m \in Elems(msgq_[Dest(m)]) ~> m \notin Elems(msgq_[Dest(m)])

\* messagequeue.h: "any pending Sends and *ready* Posts ... will be delivered
\* before Get (or Peek) returns false".
PendingDelivered ==
  \A t \in LoopThreads : At(t, "exited") =>
    owed[t] \cap (Elems(msgq_[t]) \cup Elems(sendlist_[t])) = {}

\* thread.cc, ReceiveSends: "thread sending exits: We don't allow this, since
\* thread can exit only via Join, so Send must complete": the thread object
\* that WakeUp is called on exists.
SenderThreadAlive ==
  \A t \in LoopThreads : At(t, "rsWake") =>
    \/ from[Top(t).arg] \in LoopThreads
    \/ Sending(from[Top(t).arg], Top(t).arg)

=============================================================================
