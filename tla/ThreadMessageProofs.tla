------------------------ MODULE ThreadMessageProofs ------------------------
(***************************************************************************)
(* Proofs about module Thread, for any threads, handlers and messages: a   *)
(* message is in one place at a time, a Send that is pending keeps its     *)
(* sender inside of Send, and nothing is queued for a destroyed handler.   *)
(***************************************************************************)
EXTENDS ThreadProofs

Early   == PostPcs \cup {"sendStop", "sendPush"}
Waiting == {"sendWake", "sendTest", "sendEnter", "sendWait"}
CallPcs == Early \cup Waiting

\* Frame i of thread t is at one of the statements in P, for message m.
On(t, i, P, m) ==
  i \in 1..Len(stack[t]) /\ stack[t][i].pc \in P /\ stack[t][i].arg = m

\* What is queued, or about to be, is for a living handler of that thread.
AliveInv ==
  /\ \A d \in LoopThreads :
       \A m \in Elems(msgq_[d]) \cup Elems(sendlist_[d]) :
         Dest(m) = d /\ HandlerOf[m] \notin dead
  /\ \A t \in Threads, i \in Nat, m \in Msgs :
       On(t, i, Early, m) => HandlerOf[m] \notin dead

Queued(m) == \E d \in LoopThreads : m \in Elems(sendlist_[d])
Runs(m)   == \E t \in Threads, i \in Nat : On(t, i, {"rsRun"}, m)
Waits(m)  == \E t \in Threads, i \in Nat : On(t, i, Waiting, m)

NoRepeats == \A d \in LoopThreads : \A i, j \in 1..Len(sendlist_[d]) :
               sendlist_[d][i] = sendlist_[d][j] => i = j

\* At most one frame is at P for a message.
Single(P) ==
  \A m \in Msgs : \A t, u \in Threads : \A i, j \in Nat :
    On(t, i, P, m) /\ On(u, j, P, m) => t = u /\ i = j

\* A message that was not used yet is nowhere; the call that uses it is the
\* only one; before it is queued it is neither queued, run nor done; while it
\* is queued or run its Send waits and is not done.
PlaceInv ==
  /\ NoRepeats /\ Single(CallPcs) /\ Single({"rsRun"})
  /\ \A m \in Msgs :
       /\ from[m] = None =>
            /\ m \notin ready /\ ~Queued(m) /\ ~Runs(m)
            /\ \A t \in Threads, i \in Nat : ~On(t, i, CallPcs, m)
       /\ (\E t \in Threads, i \in Nat : On(t, i, Early, m)) =>
            m \notin ready /\ ~Queued(m) /\ ~Runs(m)
       /\ Queued(m) => m \notin ready /\ ~Runs(m) /\ Waits(m)
       /\ Runs(m) => m \notin ready /\ Waits(m)

-----------------------------------------------------------------------------
(***************************************************************************)
(* Which frames a step leaves where they were.                             *)
(***************************************************************************)
\* No call and no run of a sent message is new, no call goes back to a
\* statement before its message is queued, and a Send that is not done waits.
Kept ==
  \A u \in Threads, i \in Nat, m \in Msgs :
    /\ On(u, i, CallPcs, m)' => On(u, i, CallPcs, m)
    /\ On(u, i, Early, m)' => On(u, i, Early, m)
    /\ On(u, i, {"rsRun"}, m)' => On(u, i, {"rsRun"}, m)
    /\ On(u, i, Waiting, m) /\ m \notin ready => On(u, i, Waiting, m)'

\* The part of it that concerns messages not yet queued.
EarlyKept ==
  \A u \in Threads, i \in Nat, m \in Msgs :
    On(u, i, Early, m)' => On(u, i, Early, m)

\* A frame of a stack after a statement.
LEMMA BecomeOn ==
  ASSUME TypeOK, NEW t \in Threads, NEW f \in Frames, Become(t, f)
  PROVE  \A u \in Threads, i \in Nat : \A P, m :
           On(u, i, P, m)' <=> IF u = t /\ i = Len(stack[t])
                                 THEN f.pc \in P /\ f.arg = m
                                 ELSE On(u, i, P, m)
<1>1. /\ \A u \in Threads : u # t => stack'[u] = stack[u]
      /\ Len(stack'[t]) = Len(stack[t]) /\ Len(stack[t]) \in Nat \ {0}
      /\ \A i \in 1..Len(stack[t]) :
           stack'[t][i] = IF i = Len(stack[t]) THEN f ELSE stack[t][i]
  BY BecomeStack, TopType
<1> SUFFICES ASSUME NEW u \in Threads, NEW i \in Nat, NEW P, NEW m
             PROVE  On(u, i, P, m)' <=> IF u = t /\ i = Len(stack[t])
                                          THEN f.pc \in P /\ f.arg = m
                                          ELSE On(u, i, P, m)
  OBVIOUS
<1>2. CASE u # t
  BY <1>1, <1>2 DEF On
<1>3. CASE u = t
  BY <1>1, <1>3 DEF On
<1> QED
  BY <1>2, <1>3

\* A frame of a stack after a call.
LEMMA PushOn ==
  ASSUME TypeOK, NEW t \in Threads, NEW f \in Frames, NEW g \in Frames,
         Push(t, f, g)
  PROVE  \A u \in Threads, i \in Nat : \A P, m :
           On(u, i, P, m)' <=> IF u = t /\ i = Len(stack[t]) + 1
                                 THEN g.pc \in P /\ g.arg = m
                               ELSE IF u = t /\ i = Len(stack[t])
                                 THEN f.pc \in P /\ f.arg = m
                                 ELSE On(u, i, P, m)
<1>1. /\ \A u \in Threads : u # t => stack'[u] = stack[u]
      /\ Len(stack'[t]) = Len(stack[t]) + 1 /\ Len(stack[t]) \in Nat \ {0}
      /\ \A i \in 1..Len(stack[t]) + 1 :
           stack'[t][i] = IF i = Len(stack[t]) + 1 THEN g
                          ELSE IF i = Len(stack[t]) THEN f ELSE stack[t][i]
  BY PushStack, TopType
<1> SUFFICES ASSUME NEW u \in Threads, NEW i \in Nat, NEW P, NEW m
             PROVE  On(u, i, P, m)' <=>
                      IF u = t /\ i = Len(stack[t]) + 1
                        THEN g.pc \in P /\ g.arg = m
                      ELSE IF u = t /\ i = Len(stack[t])
                        THEN f.pc \in P /\ f.arg = m
                        ELSE On(u, i, P, m)
  OBVIOUS
<1>2. CASE u # t
  BY <1>1, <1>2 DEF On
<1>3. CASE u = t
  BY <1>1, <1>3 DEF On
<1> QED
  BY <1>2, <1>3

\* A frame of a stack after a return.
LEMMA ReturnOn ==
  ASSUME TypeInv, NEW t \in Threads, Top(t).pc \notin BasePcs, Return(t)
  PROVE  \A u \in Threads, i \in Nat : \A P, m :
           On(u, i, P, m)' <=> On(u, i, P, m) /\ ~(u = t /\ i = Len(stack[t]))
<1>1. /\ \A u \in Threads : u # t => stack'[u] = stack[u]
      /\ Len(stack'[t]) = Len(stack[t]) - 1 /\ Len(stack[t]) \in Nat \ {0}
      /\ \A i \in 1..Len(stack[t]) - 1 : stack'[t][i] = stack[t][i]
  BY ReturnStack, TopType, Inner DEF TypeInv
<1> SUFFICES ASSUME NEW u \in Threads, NEW i \in Nat, NEW P, NEW m
             PROVE  On(u, i, P, m)' <=>
                      On(u, i, P, m) /\ ~(u = t /\ i = Len(stack[t]))
  OBVIOUS
<1>2. CASE u # t
  BY <1>1, <1>2 DEF On
<1>3. CASE u = t
  BY <1>1, <1>3 DEF On
<1> QED
  BY <1>2, <1>3

\* The frame on top.
LEMMA TopOn ==
  ASSUME TypeOK, NEW t \in Threads
  PROVE  /\ Len(stack[t]) \in Nat
         /\ \A P, m : On(t, Len(stack[t]), P, m) <=>
                        Top(t).pc \in P /\ Top(t).arg = m
  BY TopType DEF On, Top

\* A frame at p may go on at l.
Goes(p, l) ==
  /\ l \in CallPcs => p \in CallPcs
  /\ l \in Early => p \in Early
  /\ l = "rsRun" => p = "rsRun"
  /\ p \in Waiting => l \in Waiting

\* A statement keeps the calls where they are.
LEMMA BecomeKept ==
  ASSUME TypeOK, NEW t \in Threads, NEW f \in Frames, Become(t, f),
         f.arg = Top(t).arg, Goes(Top(t).pc, f.pc)
  PROVE  Kept
<1> DEFINE n == Len(stack[t])
<1>1. \A u \in Threads, i \in Nat : \A P, m :
        On(u, i, P, m)' <=> IF u = t /\ i = n THEN f.pc \in P /\ f.arg = m
                                              ELSE On(u, i, P, m)
  BY BecomeOn
<1>2. \A P, m : On(t, n, P, m) <=> Top(t).pc \in P /\ Top(t).arg = m
  BY ZenonT(30), TopOn
<1> HIDE DEF n
<1> SUFFICES ASSUME NEW u \in Threads, NEW i \in Nat, NEW m \in Msgs
             PROVE  /\ On(u, i, CallPcs, m)' => On(u, i, CallPcs, m)
                    /\ On(u, i, Early, m)' => On(u, i, Early, m)
                    /\ On(u, i, {"rsRun"}, m)' => On(u, i, {"rsRun"}, m)
                    /\ On(u, i, Waiting, m) => On(u, i, Waiting, m)'
  BY DEF Kept
<1>3. CASE u = t /\ i = n
  BY <1>1, <1>2, <1>3 DEF Goes
<1>4. CASE ~(u = t /\ i = n)
  BY <1>1, <1>4
<1> QED
  BY <1>3, <1>4

\* A call of something else than Send or Post does so too.
LEMMA PushKept ==
  ASSUME TypeInv, NEW t \in Threads, NEW f \in Frames, NEW g \in Frames,
         Push(t, f, g), f.arg = Top(t).arg, Goes(Top(t).pc, f.pc),
         g.pc \notin CallPcs \cup {"rsRun"}
  PROVE  Kept
<1> DEFINE n == Len(stack[t])
<1>1. \A u \in Threads, i \in Nat : \A P, m :
        On(u, i, P, m)' <=> IF u = t /\ i = n + 1 THEN g.pc \in P /\ g.arg = m
                            ELSE IF u = t /\ i = n
                              THEN f.pc \in P /\ f.arg = m
                              ELSE On(u, i, P, m)
  BY PushOn DEF TypeInv
<1>2. /\ n \in Nat
      /\ \A P, m : On(t, n, P, m) <=> Top(t).pc \in P /\ Top(t).arg = m
  BY ZenonT(30), TopOn DEF TypeInv
<1>3. n + 1 \notin 1..n
  BY <1>2
<1>4. \A P, m : ~On(t, n + 1, P, m)
  BY <1>3 DEF On
<1> HIDE DEF n
<1> SUFFICES ASSUME NEW u \in Threads, NEW i \in Nat, NEW m \in Msgs
             PROVE  /\ On(u, i, CallPcs, m)' => On(u, i, CallPcs, m)
                    /\ On(u, i, Early, m)' => On(u, i, Early, m)
                    /\ On(u, i, {"rsRun"}, m)' => On(u, i, {"rsRun"}, m)
                    /\ On(u, i, Waiting, m) => On(u, i, Waiting, m)'
  BY DEF Kept
<1>5. CASE u = t /\ i = n + 1
  BY <1>1, <1>5, <1>4 DEF CallPcs
<1>6. CASE u = t /\ i = n
  BY <1>1, <1>2, <1>6 DEF Goes
<1>7. CASE ~(u = t /\ i = n + 1) /\ ~(u = t /\ i = n)
  BY <1>1, <1>7
<1> QED
  BY <1>5, <1>6, <1>7

\* A return, where a Send returns only when its message is done.
LEMMA ReturnKept ==
  ASSUME TypeInv, NEW t \in Threads, Top(t).pc \notin BasePcs, Return(t),
         Top(t).pc \in Waiting => Top(t).arg \in ready
  PROVE  Kept
<1> DEFINE n == Len(stack[t])
<1>1. \A u \in Threads, i \in Nat : \A P, m :
        On(u, i, P, m)' <=> On(u, i, P, m) /\ ~(u = t /\ i = n)
  BY ReturnOn
<1>2. \A P, m : On(t, n, P, m) <=> Top(t).pc \in P /\ Top(t).arg = m
  BY TopOn DEF TypeInv
<1> HIDE DEF n
<1> QED
  BY <1>1, <1>2 DEF Kept

\* Goto and Call, in terms of statements.
LEMMA GotoKept ==
  ASSUME TypeInv, NEW t \in Threads, NEW l \in Pcs, Goto(t, l),
         Goes(Top(t).pc, l)
  PROVE  Kept
<1> DEFINE f == [Top(t) EXCEPT !.pc = l]
<1>1. TypeOK /\ Top(t) \in Frames /\ Become(t, f)
  BY TopOK DEF TypeInv, Goto
<1>2. f \in Frames /\ f.pc = l /\ f.arg = Top(t).arg
  BY <1>1 DEF Frames, Pcs
<1> HIDE DEF f
<1> QED
  BY <1>1, <1>2, BecomeKept

\* Likewise.
LEMMA CallKept ==
  ASSUME TypeInv, NEW t \in Threads, NEW l \in Pcs, NEW k \in Pcs,
         NEW x \in Msgs \cup LoopThreads \cup {None},
         Call(t, l, Frame(k, x)), Goes(Top(t).pc, l),
         k \notin CallPcs \cup {"rsRun"}
  PROVE  Kept
<1> DEFINE f == [Top(t) EXCEPT !.pc = l]
           g == Frame(k, x)
<1>1. Top(t) \in Frames /\ Push(t, f, g)
  BY TopOK DEF Call
<1>2. f \in Frames /\ f.pc = l /\ f.arg = Top(t).arg
  BY <1>1 DEF Frames, Pcs
<1>3. g \in Frames /\ g.pc = k
  BY DEF Frame, Frames, Pcs
<1> HIDE DEF f, g
<1> QED
  BY <1>1, <1>2, <1>3, PushKept


-----------------------------------------------------------------------------
(***************************************************************************)
(* A message is in one place.                                              *)
(***************************************************************************)
\* Nothing new is sent, and what is done anew was queued and is no longer.
Shrinks == \A m \in Msgs : Queued(m)' => Queued(m)
Done    == \A m \in Msgs : m \in ready' =>
             m \in ready \/ (Queued(m) /\ ~Queued(m)')

\* A step that keeps the calls where they are and sends nothing.
LEMMA QuietPlaces ==
  ASSUME PlaceInv, Kept, from' = from, NoRepeats', Shrinks, Done
  PROVE  PlaceInv'
<1>1. Single(CallPcs)' /\ Single({"rsRun"})'
  BY DEF PlaceInv, Single, Kept
<1>2. \A m \in Msgs : Runs(m)' => Runs(m)
  BY DEF Runs, Kept
<1>3. \A m \in Msgs : Waits(m) /\ m \notin ready => Waits(m)'
  BY DEF Waits, Kept
<1> SUFFICES ASSUME NEW m \in Msgs
             PROVE  /\ from'[m] = None =>
                         /\ m \notin ready' /\ ~Queued(m)' /\ ~Runs(m)'
                         /\ \A t \in Threads, i \in Nat : ~On(t, i, CallPcs, m)'
                    /\ (\E t \in Threads, i \in Nat : On(t, i, Early, m)') =>
                         m \notin ready' /\ ~Queued(m)' /\ ~Runs(m)'
                    /\ Queued(m)' => m \notin ready' /\ ~Runs(m)' /\ Waits(m)'
                    /\ Runs(m)' => m \notin ready' /\ Waits(m)'
  BY <1>1 DEF PlaceInv
<1>4. ASSUME from'[m] = None
      PROVE  /\ m \notin ready' /\ ~Queued(m)' /\ ~Runs(m)'
             /\ \A t \in Threads, i \in Nat : ~On(t, i, CallPcs, m)'
  BY <1>2, <1>4 DEF PlaceInv, Shrinks, Done, Kept
<1>5. ASSUME NEW t \in Threads, NEW i \in Nat, On(t, i, Early, m)'
      PROVE  m \notin ready' /\ ~Queued(m)' /\ ~Runs(m)'
  BY <1>2, <1>5 DEF PlaceInv, Shrinks, Done, Kept
<1>6. ASSUME Queued(m)'
      PROVE  m \notin ready' /\ ~Runs(m)' /\ Waits(m)'
  BY <1>2, <1>3, <1>6 DEF PlaceInv, Shrinks, Done
<1>7. ASSUME Runs(m)'
      PROVE  m \notin ready' /\ Waits(m)'
  BY <1>2, <1>3, <1>7 DEF PlaceInv, Done
<1> QED
  BY <1>4, <1>5, <1>6, <1>7

\* Get, the waits and the wakeups move no message.
LEMMA GetPlaces ==
  ASSUME TypeInv, NEW t \in Threads,
         \/ GetReceiveSends(t) \/ GetQueue(t) \/ GetStopCheck(t)
         \/ SelectSignaled(t) \/ SelectIo(t) \/ SelectReturn(t)
  PROVE  Kept /\ UNCHANGED <<from, sendlist_, ready, dead>>
<1> USE DEF Pcs, GetPcs, RecvPcs, SendPcs, PostPcs, UserPcs, StopPcs,
            Early, Waiting, CallPcs
<1>1. UNCHANGED <<from, sendlist_, ready, dead>>
  BY DEF GetReceiveSends, GetQueue, GetStopCheck, SelectSignaled, SelectIo,
         SelectReturn
<1>2. TypeOK /\ FrameOK(t, Top(t), from)
  BY ZenonT(30), TopOK DEF TypeInv
<1>3. CASE GetReceiveSends(t)
  <2>1. Goes(Top(t).pc, "queue")
    BY <1>3 DEF GetReceiveSends, At, Goes
  <2> QED
    BY <1>1, <1>3, <2>1, CallKept DEF GetReceiveSends
<1>4. CASE GetQueue(t)
  <2>1. /\ Top(t).pc = "queue" /\ t \in LoopThreads
        /\ Goes(Top(t).pc, "get") /\ Goes(Top(t).pc, "stopCheck")
    BY ZenonT(30), <1>2, <1>4 DEF GetQueue, At, Goes, FrameOK
  <2>2. CASE msgq_[t] # <<>>
    <3>1. Head(msgq_[t]) \in Msgs
      BY <1>2, <2>1, <2>2 DEF TypeOK
    <3>2. Call(t, "get", Frame("handler", Head(msgq_[t])))
      BY <1>4, <2>2 DEF GetQueue
    <3> QED
      BY <1>1, <2>1, <3>1, <3>2, CallKept
  <2>3. CASE msgq_[t] = <<>>
    BY <1>1, <1>4, <2>1, <2>3, GotoKept DEF GetQueue
  <2> QED
    BY ZenonT(30), <2>2, <2>3
<1>5. CASE GetStopCheck(t)
  <2>1. Goes(Top(t).pc, "exited") /\ Goes(Top(t).pc, "select")
    BY <1>5 DEF GetStopCheck, At, Goes
  <2> QED
    BY <1>1, <1>5, <2>1, GotoKept DEF GetStopCheck
<1>6. CASE SelectSignaled(t)
  <2>1. \A u, i, P, m : On(u, i, P, m)' <=> On(u, i, P, m)
    BY ZenonT(30), <1>6 DEF SelectSignaled, On
  <2> QED
    BY ZenonT(30), <1>1, <2>1 DEF Kept
<1>7. CASE SelectIo(t)
  <2>1. Goes(Top(t).pc, "select")
    BY <1>7 DEF SelectIo, At, Goes
  <2> QED
    BY <1>1, <1>7, <2>1, CallKept DEF SelectIo
<1>8. CASE SelectReturn(t)
  <2>1. Goes(Top(t).pc, "get")
    BY <1>8 DEF SelectReturn, At, Goes
  <2> QED
    BY <1>1, <1>8, <2>1, GotoKept DEF SelectReturn
<1> QED
  BY <1>3, <1>4, <1>5, <1>6, <1>7, <1>8


\* So do the steps of Send and Post that queue nothing, and of Stop.
LEMMA CallPlaces ==
  ASSUME TypeInv, NEW t \in Threads,
         \/ ReceiveCheck(t) \/ SendStopCheck(t) \/ SendWake(t) \/ SendTest(t)
         \/ SendEnterWait(t) \/ SendWaitReturn(t) \/ PostStopCheck(t)
         \/ PostPush(t) \/ HandlerReturn(t) \/ Join(t)
         \/ \E u \in LoopThreads : StopThread(t, u)
  PROVE  Kept /\ UNCHANGED <<from, sendlist_, ready, dead>>
<1> USE DEF Pcs, BasePcs, GetPcs, RecvPcs, SendPcs, PostPcs, UserPcs, StopPcs,
            Early, Waiting, CallPcs
<1>1. UNCHANGED <<from, sendlist_, ready, dead>>
  BY DEF ReceiveCheck, SendStopCheck, SendWake, SendTest, SendEnterWait,
         SendWaitReturn, PostStopCheck, PostPush, HandlerReturn, Join, StopThread
<1>2. TypeOK /\ Top(t) \in Frames
  BY TopOK DEF TypeInv
<1>3. CASE ReceiveCheck(t)
  <2>1. Top(t).pc = "rsCheck" /\ Goes(Top(t).pc, "rsPop")
    BY <1>3 DEF ReceiveCheck, At, Goes
  <2> QED
    BY <1>1, <1>3, <2>1, GotoKept, ReturnKept DEF ReceiveCheck
<1>4. CASE SendStopCheck(t)
  <2>1. /\ Top(t).pc = "sendStop"
        /\ Goes(Top(t).pc, "handler") /\ Goes(Top(t).pc, "sendPush")
    BY <1>4 DEF SendStopCheck, At, Goes
  <2>2. Return(t) \/ Goto(t, "handler") \/ Goto(t, "sendPush")
    BY <1>4 DEF SendStopCheck
  <2> QED
    BY <1>1, <2>1, <2>2, GotoKept, ReturnKept
<1>5. CASE SendWake(t)
  <2>1. Goes(Top(t).pc, "sendTest")
    BY ZenonT(30), <1>5 DEF SendWake, At, Goes
  <2> QED
    BY <1>1, <1>5, <2>1, GotoKept DEF SendWake
<1>6. CASE SendTest(t)
  <2>1. Top(t).pc = "sendTest" /\ Goes(Top(t).pc, "sendEnter")
    BY <1>6 DEF SendTest, At, Goes
  <2>2. \/ Top(t).arg \in ready /\ Return(t)
        \/ Call(t, "sendEnter", Frame("rsCheck", None))
    BY <1>6 DEF SendTest
  <2> QED
    BY <1>1, <2>1, <2>2, CallKept, ReturnKept
<1>7. CASE SendEnterWait(t)
  <2>1. Goes(Top(t).pc, "sendWait")
    BY <1>7 DEF SendEnterWait, At, Goes
  <2> QED
    BY <1>1, <1>7, <2>1, GotoKept DEF SendEnterWait
<1>8. CASE SendWaitReturn(t)
  <2> DEFINE f == [Top(t) EXCEPT !.pc = "sendTest", !.waited = TRUE]
  <2>1. Goes(Top(t).pc, "sendTest") /\ Become(t, f)
    BY <1>8 DEF SendWaitReturn, At, Goes
  <2>2. f \in Frames /\ f.pc = "sendTest" /\ f.arg = Top(t).arg
    BY ZenonT(30), <1>2 DEF Frames
  <2> HIDE DEF f
  <2> QED
    BY <1>1, <1>2, <2>1, <2>2, BecomeKept
<1>9. CASE PostStopCheck(t)
  <2>1. Top(t).pc = "postStop" /\ Goes(Top(t).pc, "postPush")
    BY <1>9 DEF PostStopCheck, At, Goes
  <2> QED
    BY <1>1, <1>9, <2>1, GotoKept, ReturnKept DEF PostStopCheck
<1>10. CASE PostPush(t)
  BY <1>1, <1>10, ReturnKept DEF PostPush, At
<1>11. CASE HandlerReturn(t)
  BY <1>1, <1>11, ReturnKept DEF HandlerReturn, At
<1>12. CASE Join(t)
  <2>1. Goes(Top(t).pc, "dtorClear")
    BY ZenonT(30), <1>12 DEF Join, At, Goes
  <2> QED
    BY <1>1, <1>12, <2>1, GotoKept DEF Join
<1>13. ASSUME NEW u \in LoopThreads, StopThread(t, u)
       PROVE  Kept
  <2>1. Goes(Top(t).pc, "native") /\ Call(t, "native", Frame("join", u))
    BY <1>13 DEF StopThread, At, Goes
  <2> QED
    BY ZenonT(30), <2>1, CallKept
<1> QED
  BY ZenonT(30), <1>1, <1>3, <1>4, <1>5, <1>6, <1>7, <1>8, <1>9, <1>10, <1>11, <1>12, <1>13

\* What Clear leaves of a list without repetitions has none.
LEMMA RemainderNoRepeats ==
  ASSUME NEW S, NEW q \in Seq(S), NEW ms, NEW r \in Remainders(q, ms),
         \A i, j \in 1..Len(q) : q[i] = q[j] => i = j
  PROVE  \A i, j \in 1..Len(r) : r[i] = r[j] => i = j
<1>1. DOMAIN q = 1..Len(q) /\ Len(q) \in Nat
  BY LenProperties
<1>2. r \in Seq(S) /\ DOMAIN r = 1..Len(r) /\ Len(r) \in Nat
  BY RemainderProperties, LenProperties
<1>3. PICK at \in [DOMAIN r -> DOMAIN q] :
        /\ \A i, j \in DOMAIN r : i < j => at[i] < at[j]
        /\ \A i \in DOMAIN r : r[i] = q[at[i]]
  BY ZenonT(30) DEF Remainders
<1> SUFFICES ASSUME NEW i \in 1..Len(r), NEW j \in 1..Len(r), r[i] = r[j], i # j
             PROVE  FALSE
  OBVIOUS
<1>4. at[i] \in 1..Len(q) /\ at[j] \in 1..Len(q)
  BY <1>1, <1>2, <1>3
<1>5. at[i] = at[j]
  BY ZenonT(30), <1>2, <1>3, <1>4
<1>6. i < j \/ j < i
  BY <1>2
<1>7. at[i] < at[j] \/ at[j] < at[i]
  BY ZenonT(30), <1>2, <1>3, <1>6
<1> QED
  BY <1>1, <1>4, <1>5, <1>7

\* Clear, on the queue of d: what it takes from sendlist_ is done.
LEMMA ClearPlaces ==
  ASSUME TypeOK, AliveInv, NoRepeats, NEW d \in LoopThreads,
         NEW ms \in SUBSET Msgs, Clear(d, ms)
  PROVE  /\ NoRepeats' /\ Shrinks /\ Done
         /\ \A e \in LoopThreads :
              /\ Elems(msgq_'[e]) \subseteq Elems(msgq_[e])
              /\ Elems(sendlist_'[e]) \subseteq Elems(sendlist_[e])
         /\ \A m \in Elems(msgq_'[d]) \cup Elems(sendlist_'[d]) : m \notin ms
<1>1. sendlist_[d] \in Seq(Msgs) /\ msgq_[d] \in Seq(Msgs)
  BY DEF TypeOK
<1>2. PICK r \in Remainders(sendlist_[d], ms) :
        sendlist_' = [sendlist_ EXCEPT ![d] = r]
  BY ZenonT(30) DEF Clear, Erase
<1>3. PICK s \in Remainders(msgq_[d], ms) : msgq_' = [msgq_ EXCEPT ![d] = s]
  BY ZenonT(30) DEF Clear, Erase
<1>4. \A m \in Elems(r) : m \in Elems(sendlist_[d]) /\ m \notin ms
  BY <1>1, RemainderProperties
<1>5. \A m \in Elems(s) : m \in Elems(msgq_[d]) /\ m \notin ms
  BY <1>1, RemainderProperties
<1>6. \A i, j \in 1..Len(r) : r[i] = r[j] => i = j
  BY SMTT(30), <1>1, RemainderNoRepeats DEF NoRepeats
<1>7. \A e \in LoopThreads :
        /\ sendlist_'[e] = IF e = d THEN r ELSE sendlist_[e]
        /\ msgq_'[e] = IF e = d THEN s ELSE msgq_[e]
  BY ZenonT(30), <1>2, <1>3 DEF TypeOK
<1>8. \A e \in LoopThreads :
        /\ Elems(msgq_'[e]) \subseteq Elems(msgq_[e])
        /\ Elems(sendlist_'[e]) \subseteq Elems(sendlist_[e])
  BY ZenonT(30), <1>4, <1>5, <1>7
<1>9. NoRepeats'
  BY ZenonT(30), <1>6, <1>7 DEF NoRepeats
<1>10. Shrinks
  BY <1>8 DEF Shrinks, Queued
<1>11. Done
  <2> SUFFICES ASSUME NEW m \in Msgs, m \in ready', m \notin ready
               PROVE  Queued(m) /\ ~Queued(m)'
    BY DEF Done
  <2>1. m \in Elems(sendlist_[d]) /\ m \in ms
    BY ZenonT(30) DEF Clear, Release
  <2>2. \A e \in LoopThreads : m \in Elems(sendlist_'[e]) => e = d
    BY ZenonT(30), <1>8, <2>1 DEF AliveInv
  <2>3. m \notin Elems(sendlist_'[d])
    BY <1>4, <1>7, <2>1
  <2> QED
    BY <2>1, <2>2, <2>3 DEF Queued
<1> QED
  BY <1>4, <1>5, <1>7, <1>8, <1>9, <1>10, <1>11

\* The destructors of a handler and of a thread.
LEMMA DestroyPlaces ==
  ASSUME TypeInv, AliveInv, PlaceInv, NEW t \in Threads,
         DtorClear(t) \/ \E h \in Handlers : DestroyHandler(t, h)
  PROVE  PlaceInv'
<1>1. TypeOK /\ NoRepeats /\ FrameOK(t, Top(t), from)
  BY ZenonT(30), TopOK DEF TypeInv, PlaceInv
<1>2. CASE DtorClear(t)
  <2>1. /\ Top(t).pc = "dtorClear" /\ Clear(Top(t).arg, Msgs) /\ Return(t)
        /\ from' = from
    BY ZenonT(30), <1>2 DEF DtorClear, At
  <2>2. Top(t).arg \in LoopThreads
    BY <1>1, <2>1 DEF FrameOK, StopPcs
  <2>3. Kept
    BY ZenonT(30), <2>1, ReturnKept DEF BasePcs, GetPcs, Waiting
  <2> QED
    BY <1>1, <2>1, <2>2, <2>3, ClearPlaces, QuietPlaces
<1>3. ASSUME NEW h \in Handlers, DestroyHandler(t, h)
      PROVE  PlaceInv'
  <2>1. /\ Top(t).pc = "handler" /\ Clear(t, {m \in Msgs : HandlerOf[m] = h})
        /\ from' = from /\ stack' = stack
    BY ZenonT(30), <1>3 DEF DestroyHandler, At
  <2>2. t \in LoopThreads
    BY <1>1, <2>1 DEF FrameOK
  <2>3. \A u, i, P, m : On(u, i, P, m)' <=> On(u, i, P, m)
    BY <2>1 DEF On
  <2>4. Kept
    BY <2>3 DEF Kept
  <2>5. {m \in Msgs : HandlerOf[m] = h} \in SUBSET Msgs
    OBVIOUS
  <2> QED
    BY ZenonT(30), <1>1, <2>1, <2>2, <2>4, <2>5, ClearPlaces, QuietPlaces
<1> QED
  BY ZenonT(30), <1>2, <1>3

\* The start of a Send or a Post, of a message that was nowhere.
LEMMA BeginPlaces ==
  ASSUME TypeInv, PlaceInv, NEW t \in Threads, NEW x \in Msgs,
         Send(t, x) \/ Post(t, x)
  PROVE  PlaceInv'
<1> DEFINE n == Len(stack[t])
<1>1. TypeOK /\ Top(t) \in Frames /\ Top(t).pc \in Pcs
  BY TopOK DEF TypeInv
<1>2. PICK l \in {"sendStop", "postStop"} : BeginCall(t, x, l)
  BY DEF Send, Post
<1> DEFINE f == [Top(t) EXCEPT !.pc = Top(t).pc]
           g == Frame(l, x)
<1>3. /\ Top(t).pc \in UserPcs /\ from[x] = None /\ HandlerOf[x] \notin dead
      /\ from' = [from EXCEPT ![x] = t] /\ Push(t, f, g)
      /\ UNCHANGED <<sendlist_, ready>>
  BY <1>2 DEF BeginCall, Call
<1>4. f \in Frames /\ f.pc = Top(t).pc /\ g \in Frames /\ g.pc = l /\ g.arg = x
  BY <1>1 DEF Frame, Frames, PostPcs, SendPcs
<1>5. n \in Nat
  BY <1>1, TopType
<1>6. \A u \in Threads, i \in Nat : \A P, m :
        On(u, i, P, m)' <=> IF u = t /\ i = n + 1 THEN g.pc \in P /\ g.arg = m
                            ELSE IF u = t /\ i = n
                              THEN f.pc \in P /\ f.arg = m
                              ELSE On(u, i, P, m)
  BY ZenonT(30), <1>1, <1>3, <1>4, PushOn
<1>7. \A P, m : On(t, n, P, m) <=> Top(t).pc \in P /\ Top(t).arg = m
  BY ZenonT(30), <1>1, TopOn
<1>8. \A m \in Msgs : from'[m] = None => from[m] = None /\ m # x
  <2>1. t # None
    BY ThreadAssumption
  <2> QED
    BY <1>1, <1>3, <2>1 DEF TypeOK
<1> HIDE DEF f, g, n
<1>9. /\ f.pc \notin CallPcs \cup {"rsRun"} /\ Top(t).pc \notin CallPcs \cup {"rsRun"}
      /\ g.pc \in Early
  BY ZenonT(30), <1>3, <1>4 DEF CallPcs, Early, Waiting, UserPcs, PostPcs
<1>10. \A u \in Threads, i \in Nat, m \in Msgs :
         /\ On(u, i, CallPcs, m)' => On(u, i, CallPcs, m) \/
                                       (u = t /\ i = n + 1 /\ m = x)
         /\ On(u, i, Early, m)' => On(u, i, Early, m) \/ m = x
         /\ On(u, i, {"rsRun"}, m)' => On(u, i, {"rsRun"}, m)
         /\ On(u, i, Waiting, m) => On(u, i, Waiting, m)'
  <2> SUFFICES ASSUME NEW u \in Threads, NEW i \in Nat, NEW m \in Msgs
               PROVE  /\ On(u, i, CallPcs, m)' => On(u, i, CallPcs, m) \/
                           (u = t /\ i = n + 1 /\ m = x)
                      /\ On(u, i, Early, m)' => On(u, i, Early, m) \/ m = x
                      /\ On(u, i, {"rsRun"}, m)' => On(u, i, {"rsRun"}, m)
                      /\ On(u, i, Waiting, m) => On(u, i, Waiting, m)'
    BY ZenonT(30)
  <2>1. CASE u = t /\ i = n + 1
    <3>1. ~On(t, n + 1, Waiting, m)
      BY <1>5 DEF On, n
    <3>2. g.pc # "rsRun"
      BY ZenonT(30), <1>9 DEF Early, PostPcs
    <3> QED
      BY <1>4, <1>6, <2>1, <3>1, <3>2
  <2>2. CASE u = t /\ i = n
    BY SMTT(30), <1>5, <1>6, <1>7, <1>9, <2>2 DEF CallPcs
  <2>3. CASE ~(u = t /\ i = n + 1) /\ ~(u = t /\ i = n)
    BY ZenonT(30), <1>6, <2>3
  <2> QED
    BY ZenonT(30), <2>1, <2>2, <2>3
<1>11. Single(CallPcs)' /\ Single({"rsRun"})'
  BY SMTT(30), <1>3, <1>10 DEF PlaceInv, Single
<1>12. \A m \in Msgs : /\ Queued(m)' <=> Queued(m)
                       /\ Runs(m)' => Runs(m)
                       /\ Waits(m) => Waits(m)'
  BY ZenonT(30), <1>3, <1>10 DEF Queued, Runs, Waits
<1>13. NoRepeats'
  BY ZenonT(30), <1>3 DEF PlaceInv, NoRepeats
<1> SUFFICES ASSUME NEW m \in Msgs
             PROVE  /\ from'[m] = None =>
                         /\ m \notin ready' /\ ~Queued(m)' /\ ~Runs(m)'
                         /\ \A u \in Threads, i \in Nat : ~On(u, i, CallPcs, m)'
                    /\ (\E u \in Threads, i \in Nat : On(u, i, Early, m)') =>
                         m \notin ready' /\ ~Queued(m)' /\ ~Runs(m)'
                    /\ Queued(m)' => m \notin ready' /\ ~Runs(m)' /\ Waits(m)'
                    /\ Runs(m)' => m \notin ready' /\ Waits(m)'
  BY <1>11, <1>13 DEF PlaceInv
<1>14. ASSUME from'[m] = None
       PROVE  /\ m \notin ready' /\ ~Queued(m)' /\ ~Runs(m)'
              /\ \A u \in Threads, i \in Nat : ~On(u, i, CallPcs, m)'
  BY ZenonT(30), <1>3, <1>8, <1>10, <1>12, <1>14 DEF PlaceInv
<1>15. ASSUME NEW u \in Threads, NEW i \in Nat, On(u, i, Early, m)'
       PROVE  m \notin ready' /\ ~Queued(m)' /\ ~Runs(m)'
  BY ZenonT(30), <1>3, <1>10, <1>12, <1>15 DEF PlaceInv
<1>16. /\ Queued(m)' => m \notin ready' /\ ~Runs(m)' /\ Waits(m)'
       /\ Runs(m)' => m \notin ready' /\ Waits(m)'
  BY <1>3, <1>12 DEF PlaceInv
<1> QED
  BY <1>14, <1>15, <1>16

\* A list after a message was appended.
LEMMA AppendElems ==
  ASSUME NEW q \in Seq(Msgs), NEW x \in Msgs
  PROVE  /\ Elems(Append(q, x)) = Elems(q) \cup {x}
         /\ (\A i, j \in 1..Len(q) : q[i] = q[j] => i = j) /\ x \notin Elems(q)
              => \A i, j \in 1..Len(Append(q, x)) :
                   Append(q, x)[i] = Append(q, x)[j] => i = j
<1> DEFINE s == Append(q, x)
<1>1. /\ DOMAIN s = 1..Len(q) + 1 /\ Len(s) = Len(q) + 1
      /\ \A i \in 1..Len(q) + 1 : s[i] = IF i = Len(q) + 1 THEN x ELSE q[i]
  OBVIOUS
<1>2. DOMAIN q = 1..Len(q) /\ Len(q) \in Nat
  BY LenProperties
<1> HIDE DEF s
<1>3. Elems(s) = Elems(q) \cup {x}
  BY <1>1, <1>2 DEF Elems
<1>4. ASSUME \A i, j \in 1..Len(q) : q[i] = q[j] => i = j, x \notin Elems(q),
             NEW i \in 1..Len(s), NEW j \in 1..Len(s), s[i] = s[j]
      PROVE  i = j
  <2>1. \A k \in 1..Len(q) : q[k] # x
    BY <1>2, <1>4 DEF Elems
  <2> QED
    BY SMTT(30), <1>1, <1>2, <1>4, <2>1
<1> QED
  BY <1>3, <1>4 DEF s

\* The message is queued: its Send waits from now on.
LEMMA SendPushPlaces ==
  ASSUME TypeInv, PlaceInv, NEW t \in Threads, SendPush(t)
  PROVE  PlaceInv'
<1> DEFINE n == Len(stack[t])
           x == Top(t).arg
           f == [Top(t) EXCEPT !.pc = "sendWake"]
<1>1. TypeOK /\ Top(t) \in Frames /\ FrameOK(t, Top(t), from) /\ n \in Nat
  BY TopOK, TopType DEF TypeInv
<1>2. /\ Top(t).pc = "sendPush" /\ Become(t, f)
      /\ sendlist_' = [sendlist_ EXCEPT ![Dest(x)] = Append(@, x)]
      /\ UNCHANGED <<from, ready>>
  BY ZenonT(30) DEF SendPush, At, Goto
<1>3. x \in Msgs /\ Dest(x) \in LoopThreads /\ from[x] # None
  BY <1>1, <1>2, ThreadAssumption DEF FrameOK, SendPcs, Dest
<1>4. f \in Frames /\ f.pc = "sendWake" /\ f.arg = x
  BY <1>1 DEF Frames, SendPcs
<1>5. \A u \in Threads, i \in Nat : \A P, m :
        On(u, i, P, m)' <=> IF u = t /\ i = n THEN f.pc \in P /\ f.arg = m
                                              ELSE On(u, i, P, m)
  BY ZenonT(30), <1>1, <1>2, <1>4, BecomeOn
<1>6. \A P, m : On(t, n, P, m) <=> "sendPush" \in P /\ x = m
  BY ZenonT(30), <1>1, <1>2, TopOn
<1> HIDE DEF n, x, f
<1>7. \A u \in Threads, i \in Nat, m \in Msgs :
        /\ On(u, i, CallPcs, m)' => On(u, i, CallPcs, m)
        /\ On(u, i, Early, m)' => On(u, i, Early, m) /\ ~(u = t /\ i = n)
        /\ On(u, i, {"rsRun"}, m)' => On(u, i, {"rsRun"}, m)
        /\ On(u, i, Waiting, m) => On(u, i, Waiting, m)'
  BY SMTT(30), <1>4, <1>5, <1>6 DEF CallPcs, Early, Waiting, PostPcs
<1>8. /\ On(t, n, CallPcs, x) /\ On(t, n, Early, x)
      /\ \A m \in Msgs : m = x => \E i \in Nat : On(t, i, Waiting, m)'
      /\ \A u, i, m : On(u, i, Early, m) => On(u, i, CallPcs, m)
  <2>1. On(t, n, CallPcs, x) /\ On(t, n, Early, x)
    BY <1>6 DEF CallPcs, Early
  <2>2. \A i \in Nat, m \in Msgs : i = n /\ m = x => On(t, i, Waiting, m)'
    BY <1>4, <1>5 DEF Waiting
  <2>3. \A u, i, m : On(u, i, Early, m) => On(u, i, CallPcs, m)
    BY DEF On, CallPcs
  <2> QED
    BY <1>1, <2>1, <2>2, <2>3
<1>9. x \notin ready /\ ~Queued(x) /\ ~Runs(x)
  BY <1>1, <1>3, <1>8 DEF PlaceInv
<1>10. \A m \in Msgs : /\ Queued(m)' <=> Queued(m) \/ m = x
                       /\ Runs(m)' => Runs(m)
                       /\ Waits(m) \/ m = x => Waits(m)'
  <2>1. \A d \in LoopThreads : Elems(sendlist_'[d]) =
          IF d = Dest(x) THEN Elems(sendlist_[d]) \cup {x} ELSE Elems(sendlist_[d])
    BY ZenonT(30), <1>1, <1>2, <1>3, AppendElems DEF TypeOK
  <2>2. \A m \in Msgs : Queued(m)' <=> Queued(m) \/ m = x
    BY ZenonT(30), <1>3, <2>1 DEF Queued
  <2>3. \A m \in Msgs : Runs(m)' => Runs(m)
    BY <1>7 DEF Runs
  <2>4. \A m \in Msgs : Waits(m) => Waits(m)'
    BY <1>7 DEF Waits
  <2>5. \A m \in Msgs : m = x => Waits(m)'
    BY <1>8 DEF Waits
  <2> QED
    BY <2>2, <2>3, <2>4, <2>5
<1>11. NoRepeats'
  <2>1. \A d \in LoopThreads : \A i, j \in 1..Len(sendlist_[d]) :
          sendlist_[d][i] = sendlist_[d][j] => i = j
    BY ZenonT(30) DEF PlaceInv, NoRepeats
  <2>2. /\ sendlist_[Dest(x)] \in Seq(Msgs) /\ x \notin Elems(sendlist_[Dest(x)])
        /\ \A d \in LoopThreads :
             sendlist_'[d] = IF d = Dest(x) THEN Append(sendlist_[d], x)
                                            ELSE sendlist_[d]
    BY <1>1, <1>2, <1>3, <1>9 DEF TypeOK, Queued
  <2>3. \A i, j \in 1..Len(Append(sendlist_[Dest(x)], x)) :
          Append(sendlist_[Dest(x)], x)[i] = Append(sendlist_[Dest(x)], x)[j]
            => i = j
    BY ZenonT(30), <1>3, <2>1, <2>2, AppendElems
  <2> QED
    BY ZenonT(30), <2>1, <2>2, <2>3 DEF NoRepeats
<1>12. Single(CallPcs)' /\ Single({"rsRun"})'
  BY SMTT(30), <1>7 DEF PlaceInv, Single
<1>13. \A m \in Msgs, u \in Threads, i \in Nat : On(u, i, Early, m)' => m # x
  BY <1>1, <1>3, <1>7, <1>8 DEF PlaceInv, Single
<1> SUFFICES ASSUME NEW m \in Msgs
             PROVE  /\ from'[m] = None =>
                         /\ m \notin ready' /\ ~Queued(m)' /\ ~Runs(m)'
                         /\ \A u \in Threads, i \in Nat : ~On(u, i, CallPcs, m)'
                    /\ (\E u \in Threads, i \in Nat : On(u, i, Early, m)') =>
                         m \notin ready' /\ ~Queued(m)' /\ ~Runs(m)'
                    /\ Queued(m)' => m \notin ready' /\ ~Runs(m)' /\ Waits(m)'
                    /\ Runs(m)' => m \notin ready' /\ Waits(m)'
  BY ZenonT(30), <1>11, <1>12 DEF PlaceInv
<1>14. ASSUME from'[m] = None
       PROVE  /\ m \notin ready' /\ ~Queued(m)' /\ ~Runs(m)'
              /\ \A u \in Threads, i \in Nat : ~On(u, i, CallPcs, m)'
  BY ZenonT(30), <1>2, <1>3, <1>7, <1>10, <1>14 DEF PlaceInv
<1>15. ASSUME NEW u \in Threads, NEW i \in Nat, On(u, i, Early, m)'
       PROVE  m \notin ready' /\ ~Queued(m)' /\ ~Runs(m)'
  BY ZenonT(30), <1>2, <1>7, <1>10, <1>13, <1>15 DEF PlaceInv
<1>16. /\ Queued(m)' => m \notin ready' /\ ~Runs(m)' /\ Waits(m)'
       /\ Runs(m)' => m \notin ready' /\ Waits(m)'
  BY <1>2, <1>9, <1>10 DEF PlaceInv
<1> QED
  BY <1>14, <1>15, <1>16

\* A list after its first message was taken.
LEMMA TailElems ==
  ASSUME NEW q \in Seq(Msgs), q # <<>>,
         \A i, j \in 1..Len(q) : q[i] = q[j] => i = j
  PROVE  /\ Elems(Tail(q)) = Elems(q) \ {Head(q)} /\ Head(q) \in Elems(q)
         /\ \A i, j \in 1..Len(Tail(q)) : Tail(q)[i] = Tail(q)[j] => i = j
<1> DEFINE s == Tail(q)
<1>1. /\ Len(q) \in Nat \ {0} /\ DOMAIN q = 1..Len(q) /\ Head(q) = q[1]
      /\ s \in Seq(Msgs) /\ Len(s) = Len(q) - 1
      /\ \A i \in 1..Len(s) : s[i] = q[i + 1]
  BY HeadTailProperties, LenProperties, EmptySeq
<1>2. DOMAIN s = 1..Len(s)
  BY <1>1, LenProperties
<1> HIDE DEF s
<1>3. \A i \in 1..Len(q) : i = 1 \/ (i - 1 \in 1..Len(s) /\ q[i] = s[i - 1])
  BY <1>1
<1>4. \A i \in 1..Len(s) : s[i] # q[1] /\ i + 1 \in 1..Len(q)
  BY <1>1
<1>5. Elems(s) = Elems(q) \ {Head(q)}
  <2>1. \A m \in Elems(s) : m \in Elems(q) /\ m # Head(q)
    BY <1>1, <1>2, <1>4 DEF Elems
  <2>2. ASSUME NEW m \in Elems(q), m # Head(q)
        PROVE  m \in Elems(s)
    <3>1. PICK i \in 1..Len(q) : m = q[i]
      BY <1>1 DEF Elems
    <3>2. PICK j \in 1..Len(s) : m = s[j]
      BY <1>1, <1>3, <2>2, <3>1
    <3> QED
      BY <1>2, <3>2 DEF Elems
  <2> QED
    BY <2>1, <2>2
<1>6. \A i, j \in 1..Len(s) : s[i] = s[j] => i = j
  BY <1>1, <1>4
<1>7. Head(q) \in Elems(q)
  BY <1>1 DEF Elems
<1> QED
  BY <1>5, <1>6, <1>7 DEF s

\* A sent message moves from the list to the call of its handler.
LEMMA ReceiveNextPlaces ==
  ASSUME TypeInv, AliveInv, PlaceInv, NEW t \in LoopThreads,
         Top(t).pc \in {"rsPop", "rsWake"}, ReceiveNext(t),
         UNCHANGED <<from, ready>>
  PROVE  PlaceInv' /\ EarlyKept
<1>1. TypeOK /\ t \in Threads /\ sendlist_[t] \in Seq(Msgs)
  BY ZenonT(30) DEF TypeInv, TypeOK, Threads
<1>2. CASE sendlist_[t] = <<>>
  <2>1. Return(t) /\ sendlist_' = sendlist_
    BY <1>2 DEF ReceiveNext
  <2>2. Kept
    BY ZenonT(30), <1>1, <2>1, ReturnKept DEF BasePcs, GetPcs, Waiting
  <2>3. NoRepeats' /\ Shrinks /\ Done
    BY <2>1 DEF PlaceInv, NoRepeats, Shrinks, Queued, Done
  <2> QED
    BY <2>2, <2>3, QuietPlaces DEF Kept, EarlyKept
<1>3. CASE sendlist_[t] # <<>>
  <2>1. PICK x \in Msgs : x = Head(sendlist_[t])
    BY SMTT(30), <1>1, <1>3
  <2>2. PICK n \in Nat : n = Len(stack[t])
    BY <1>1, TopType
  <2>3. /\ Push(t, Frame("rsRun", x), Frame("handler", x))
        /\ sendlist_' = [sendlist_ EXCEPT ![t] = Tail(@)]
    BY ZenonT(30), <1>3, <2>1 DEF ReceiveNext
  <2>4. /\ Frame("rsRun", x) \in Frames /\ Frame("handler", x) \in Frames
        /\ Frame("rsRun", x).pc = "rsRun" /\ Frame("handler", x).pc = "handler"
        /\ Frame("rsRun", x).arg = x
    BY ZenonT(30) DEF Frame, Frames, RecvPcs, UserPcs
  <2>5. \A u \in Threads, i \in Nat : \A P, m :
          On(u, i, P, m)' <=>
            IF u = t /\ i = n + 1
              THEN "handler" \in P /\ Frame("handler", x).arg = m
            ELSE IF u = t /\ i = n THEN "rsRun" \in P /\ x = m
            ELSE On(u, i, P, m)
    BY <1>1, <2>2, <2>3, <2>4, PushOn
  <2>6. \A P, m : On(t, n, P, m) <=> Top(t).pc \in P /\ Top(t).arg = m
    BY ZenonT(30), <1>1, <2>2, TopOn
  <2>7. \A P, m : ~On(t, n + 1, P, m)
    BY SMTT(30), <2>2 DEF On
  <2>8. \A u \in Threads, i \in Nat, m \in Msgs :
          /\ On(u, i, CallPcs, m)' => On(u, i, CallPcs, m)
          /\ On(u, i, Early, m)' => On(u, i, Early, m)
          /\ On(u, i, {"rsRun"}, m)' => On(u, i, {"rsRun"}, m) \/
                                          (u = t /\ i = n /\ m = x)
          /\ On(u, i, Waiting, m) => On(u, i, Waiting, m)'
    <3> SUFFICES ASSUME NEW u \in Threads, NEW i \in Nat, NEW m \in Msgs
                 PROVE  /\ On(u, i, CallPcs, m)' => On(u, i, CallPcs, m)
                        /\ On(u, i, Early, m)' => On(u, i, Early, m)
                        /\ On(u, i, {"rsRun"}, m)' => On(u, i, {"rsRun"}, m) \/
                             (u = t /\ i = n /\ m = x)
                        /\ On(u, i, Waiting, m) => On(u, i, Waiting, m)'
      OBVIOUS
    <3>1. CASE u = t /\ i = n + 1
      BY SMTT(30), <2>5, <2>7, <3>1 DEF CallPcs, Early, Waiting, PostPcs
    <3>2. CASE u = t /\ i = n
      BY SMTT(30), <2>5, <2>6, <3>2 DEF CallPcs, Early, Waiting, PostPcs
    <3>3. CASE ~(u = t /\ i = n + 1) /\ ~(u = t /\ i = n)
      BY ZenonT(30), <2>5, <3>3
    <3> QED
      BY ZenonT(30), <3>1, <3>2, <3>3
  <2>9. /\ Elems(Tail(sendlist_[t])) = Elems(sendlist_[t]) \ {x}
        /\ x \in Elems(sendlist_[t])
        /\ \A i, j \in 1..Len(Tail(sendlist_[t])) :
             Tail(sendlist_[t])[i] = Tail(sendlist_[t])[j] => i = j
    BY ZenonT(30), <1>1, <1>3, <2>1, TailElems DEF PlaceInv, NoRepeats
  <2>10. \A d \in LoopThreads : sendlist_'[d] =
           IF d = t THEN Tail(sendlist_[d]) ELSE sendlist_[d]
    BY <1>1, <2>3 DEF TypeOK
  <2>11. NoRepeats'
    BY ZenonT(30), <2>9, <2>10 DEF PlaceInv, NoRepeats
  <2>12. Queued(x) /\ Dest(x) = t
    BY ZenonT(30), <2>9 DEF Queued, AliveInv
  <2>13. \A m \in Msgs : Queued(m)' => Queued(m) /\ m # x
    <3>1. \A d \in LoopThreads : x \in Elems(sendlist_[d]) => d = t
      BY ZenonT(30), <2>12 DEF AliveInv
    <3> QED
      BY ZenonT(30), <2>9, <2>10, <3>1 DEF Queued
  <2>14. \A m \in Msgs : Runs(m)' => Runs(m) \/ m = x
    BY <2>8 DEF Runs
  <2>15. \A m \in Msgs : Waits(m) => Waits(m)'
    BY ZenonT(30), <2>8 DEF Waits
  <2>16. Single(CallPcs)'
    BY SMTT(30), <2>8 DEF PlaceInv, Single
  <2>17. Single({"rsRun"})'
    <3>1. \A u \in Threads, i \in Nat : ~On(u, i, {"rsRun"}, x)
      BY <2>12 DEF PlaceInv, Runs
    <3> QED
      BY <2>8, <3>1 DEF PlaceInv, Single
  <2>18. EarlyKept
    BY ZenonT(30), <2>8 DEF EarlyKept
  <2> SUFFICES ASSUME NEW m \in Msgs
               PROVE  /\ from'[m] = None =>
                           /\ m \notin ready' /\ ~Queued(m)' /\ ~Runs(m)'
                           /\ \A u \in Threads, i \in Nat :
                                ~On(u, i, CallPcs, m)'
                      /\ (\E u \in Threads, i \in Nat : On(u, i, Early, m)') =>
                           m \notin ready' /\ ~Queued(m)' /\ ~Runs(m)'
                      /\ Queued(m)' => m \notin ready' /\ ~Runs(m)' /\ Waits(m)'
                      /\ Runs(m)' => m \notin ready' /\ Waits(m)'
    BY ZenonT(30), <2>11, <2>16, <2>17, <2>18 DEF PlaceInv
  <2>19. ASSUME from'[m] = None
         PROVE  /\ m \notin ready' /\ ~Queued(m)' /\ ~Runs(m)'
                /\ \A u \in Threads, i \in Nat : ~On(u, i, CallPcs, m)'
    BY ZenonT(30), <2>8, <2>12, <2>13, <2>14, <2>19 DEF PlaceInv
  <2>20. ASSUME NEW u \in Threads, NEW i \in Nat, On(u, i, Early, m)'
         PROVE  m \notin ready' /\ ~Queued(m)' /\ ~Runs(m)'
    BY ZenonT(30), <2>8, <2>12, <2>13, <2>14, <2>20 DEF PlaceInv
  <2>21. /\ Queued(m)' => m \notin ready' /\ ~Runs(m)' /\ Waits(m)'
         /\ Runs(m)' => m \notin ready' /\ Waits(m)'
    BY ZenonT(30), <2>12, <2>13, <2>14, <2>15 DEF PlaceInv
  <2> QED
    BY <2>19, <2>20, <2>21
<1> QED
  BY ZenonT(30), <1>2, <1>3

\* OnMessage has returned: the message is done, and was in no other place.
LEMMA ReadyPlaces ==
  ASSUME TypeInv, PlaceInv, NEW t \in Threads, ReceiveReady(t)
  PROVE  PlaceInv' /\ EarlyKept
<1>1. TypeOK /\ FrameOK(t, Top(t), from) /\ Top(t).pc = "rsRun"
  BY ZenonT(30), TopOK DEF TypeInv, ReceiveReady, At
<1>2. PICK x \in Msgs : x = Top(t).arg
  BY <1>1 DEF FrameOK
<1>3. PICK n \in Nat : n = Len(stack[t])
  BY <1>1, TopType
<1>4. /\ ready' = ready \cup {x} /\ Goto(t, "rsWake")
      /\ UNCHANGED <<from, sendlist_>>
  BY <1>2 DEF ReceiveReady
<1>5. On(t, n, {"rsRun"}, x)
  BY ZenonT(30), <1>1, <1>2, <1>3, TopOn
<1>6. Kept
  <2>1. Goes(Top(t).pc, "rsWake") /\ "rsWake" \in Pcs
    BY <1>1 DEF Goes, CallPcs, Early, Waiting, PostPcs, Pcs, RecvPcs
  <2> QED
    BY <1>4, <2>1, GotoKept
<1>7. ~On(t, n, {"rsRun"}, x)'
  <2> DEFINE f == [Top(t) EXCEPT !.pc = "rsWake"]
  <2>1. Top(t) \in Frames /\ Become(t, f)
    BY <1>4, TopOK DEF Goto
  <2>2. f \in Frames /\ f.pc = "rsWake"
    BY <2>1 DEF Frames, RecvPcs
  <2> HIDE DEF f
  <2>3. On(t, n, {"rsRun"}, x)' <=> f.pc \in {"rsRun"} /\ f.arg = x
    BY <1>1, <1>3, <2>1, <2>2, BecomeOn
  <2> QED
    BY <2>2, <2>3
<1>8. ~Runs(x)'
  <2> SUFFICES ASSUME NEW u \in Threads, NEW i \in Nat, On(u, i, {"rsRun"}, x)'
               PROVE  FALSE
    BY DEF Runs
  <2>1. On(u, i, {"rsRun"}, x)
    BY <1>6 DEF Kept
  <2>2. u = t /\ i = n
    BY <1>5, <2>1 DEF PlaceInv, Single
  <2> QED
    BY <1>7, <2>2
<1>9. Runs(x)
  BY <1>5 DEF Runs
<1>10. /\ from[x] # None /\ ~Queued(x)
       /\ \A u \in Threads, i \in Nat : ~On(u, i, Early, x)
  BY ZenonT(30), <1>9 DEF PlaceInv
<1>11. Single(CallPcs)' /\ Single({"rsRun"})'
  BY <1>6 DEF PlaceInv, Single, Kept
<1>12. NoRepeats'
  BY ZenonT(30), <1>4 DEF PlaceInv, NoRepeats
<1>13. \A m \in Msgs : /\ Queued(m)' <=> Queued(m)
                       /\ Runs(m)' => Runs(m) /\ m # x
                       /\ Waits(m) /\ m \notin ready => Waits(m)'
  <2>1. \A m \in Msgs : Queued(m)' <=> Queued(m)
    BY ZenonT(30), <1>4 DEF Queued
  <2>2. \A m \in Msgs : Runs(m)' => Runs(m) /\ m # x
    BY ZenonT(30), <1>6, <1>8 DEF Kept, Runs
  <2>3. \A m \in Msgs : Waits(m) /\ m \notin ready => Waits(m)'
    BY <1>6 DEF Kept, Waits
  <2> QED
    BY <2>1, <2>2, <2>3
<1> SUFFICES ASSUME NEW m \in Msgs
             PROVE  /\ from'[m] = None =>
                         /\ m \notin ready' /\ ~Queued(m)' /\ ~Runs(m)'
                         /\ \A u \in Threads, i \in Nat : ~On(u, i, CallPcs, m)'
                    /\ (\E u \in Threads, i \in Nat : On(u, i, Early, m)') =>
                         m \notin ready' /\ ~Queued(m)' /\ ~Runs(m)'
                    /\ Queued(m)' => m \notin ready' /\ ~Runs(m)' /\ Waits(m)'
                    /\ Runs(m)' => m \notin ready' /\ Waits(m)'
  BY ZenonT(30), <1>6, <1>11, <1>12 DEF PlaceInv, Kept, EarlyKept
<1>14. ASSUME from'[m] = None
       PROVE  /\ m \notin ready' /\ ~Queued(m)' /\ ~Runs(m)'
              /\ \A u \in Threads, i \in Nat : ~On(u, i, CallPcs, m)'
  BY ZenonT(30), <1>4, <1>6, <1>10, <1>13, <1>14 DEF PlaceInv, Kept
<1>15. ASSUME NEW u \in Threads, NEW i \in Nat, On(u, i, Early, m)'
       PROVE  m \notin ready' /\ ~Queued(m)' /\ ~Runs(m)'
  BY SMTT(30), <1>4, <1>6, <1>10, <1>13, <1>15 DEF PlaceInv, Kept
<1>16. /\ Queued(m)' => m \notin ready' /\ ~Runs(m)' /\ Waits(m)'
       /\ Runs(m)' => m \notin ready' /\ Waits(m)'
  BY ZenonT(30), <1>4, <1>10, <1>13 DEF PlaceInv
<1> QED
  BY <1>14, <1>15, <1>16

-----------------------------------------------------------------------------
(***************************************************************************)
(* Nothing is queued for a destroyed handler.                              *)
(***************************************************************************)
\* A step that queues nothing new and destroys nothing.
LEMMA QuietAlive ==
  ASSUME AliveInv, EarlyKept, dead' = dead,
         \A d \in LoopThreads :
           /\ Elems(msgq_'[d]) \subseteq Elems(msgq_[d])
           /\ Elems(sendlist_'[d]) \subseteq Elems(sendlist_[d])
  PROVE  AliveInv'
  BY DEF AliveInv, EarlyKept, Dest

\* The start of a Send or a Post: the caller holds the handler.
LEMMA BeginAlive ==
  ASSUME TypeInv, AliveInv, NEW t \in Threads, NEW x \in Msgs,
         Send(t, x) \/ Post(t, x)
  PROVE  AliveInv'
<1>1. TypeOK /\ Top(t) \in Frames
  BY TopOK DEF TypeInv
<1>2. PICK l \in {"sendStop", "postStop"} : BeginCall(t, x, l)
  BY DEF Send, Post
<1> DEFINE f == [Top(t) EXCEPT !.pc = Top(t).pc]
           g == Frame(l, x)
<1>3. /\ HandlerOf[x] \notin dead /\ Push(t, f, g) /\ Top(t).pc \in UserPcs
      /\ UNCHANGED <<msgq_, sendlist_, dead>>
  BY <1>2 DEF BeginCall, Call
<1>4. /\ f \in Frames /\ f.pc = Top(t).pc /\ g \in Frames /\ g.arg = x
  BY ZenonT(30), <1>1 DEF Frame, Frames, PostPcs, SendPcs
<1> HIDE DEF f, g
<1>5. \A u \in Threads, i \in Nat, m \in Msgs :
        On(u, i, Early, m)' => On(u, i, Early, m) \/ m = x
  <2>1. f.pc \notin Early
    BY <1>3, <1>4 DEF Early, UserPcs, PostPcs
  <2> QED
    BY ZenonT(30), <1>1, <1>3, <1>4, <2>1, PushOn
<1> QED
  BY ZenonT(30), <1>3, <1>5 DEF AliveInv, Dest

\* The message is queued, by Send or by Post.
LEMMA QueueAlive ==
  ASSUME TypeInv, AliveInv, NEW t \in Threads, SendPush(t) \/ PostPush(t)
  PROVE  AliveInv'
<1>1. TypeOK /\ FrameOK(t, Top(t), from)
  BY ZenonT(30), TopOK DEF TypeInv
<1>2. Top(t).pc \in {"sendPush", "postPush"} /\ dead' = dead
  BY ZenonT(30) DEF SendPush, PostPush, At
<1>3. PICK x \in Msgs : x = Top(t).arg
  BY <1>1, <1>2 DEF FrameOK, SendPcs, PostPcs
<1>4. Dest(x) \in LoopThreads /\ HandlerOf[x] \notin dead
  <2>1. On(t, Len(stack[t]), Early, x) /\ Len(stack[t]) \in Nat
    BY <1>1, <1>2, <1>3, TopOn DEF Early, PostPcs
  <2> QED
    BY ZenonT(30), <2>1, ThreadAssumption DEF AliveInv, Dest
<1>5. EarlyKept
  <2>1. CASE SendPush(t)
    <3>1. Goes(Top(t).pc, "sendWake") \/ Top(t).pc = "postPush"
      BY ZenonT(30), <1>2 DEF Goes, CallPcs, Early, Waiting, PostPcs
    <3>2. Top(t).pc = "sendPush" /\ Goto(t, "sendWake") /\ "sendWake" \in Pcs
      BY ZenonT(30), <2>1 DEF SendPush, At, Pcs, SendPcs
    <3> QED
      BY <3>1, <3>2, GotoKept DEF Kept, EarlyKept
  <2>2. CASE PostPush(t)
    BY ZenonT(30), <2>2, CallPlaces DEF Kept, EarlyKept
  <2> QED
    BY ZenonT(30), <2>1, <2>2
<1>6. \A d \in LoopThreads :
        /\ Elems(msgq_'[d]) \subseteq
             IF d = Dest(x) THEN Elems(msgq_[d]) \cup {x} ELSE Elems(msgq_[d])
        /\ Elems(sendlist_'[d]) \subseteq
             IF d = Dest(x) THEN Elems(sendlist_[d]) \cup {x}
                            ELSE Elems(sendlist_[d])
  <2>1. CASE SendPush(t)
    BY ZenonT(30), <1>1, <1>3, <1>4, <2>1, AppendElems DEF SendPush, TypeOK
  <2>2. CASE PostPush(t)
    BY ZenonT(30), <1>1, <1>3, <1>4, <2>2, AppendElems DEF PostPush, TypeOK
  <2> QED
    BY <2>1, <2>2
<1>7. \A d \in LoopThreads :
        \A m \in Elems(msgq_'[d]) \cup Elems(sendlist_'[d]) :
          Dest(m) = d /\ HandlerOf[m] \notin dead
  BY ZenonT(30), <1>4, <1>6 DEF AliveInv
<1> QED
  BY ZenonT(30), <1>2, <1>5, <1>7 DEF AliveInv, EarlyKept, Dest

\* The destructors: Clear takes the handler's messages off its thread's queue,
\* the only one they can be on.
LEMMA DestroyAlive ==
  ASSUME TypeInv, AliveInv, PlaceInv, NEW t \in Threads,
         DtorClear(t) \/ \E h \in Handlers : DestroyHandler(t, h)
  PROVE  AliveInv'
<1>1. TypeOK /\ NoRepeats /\ FrameOK(t, Top(t), from)
  BY TopOK DEF TypeInv, PlaceInv
<1>2. CASE DtorClear(t)
  <2>1. /\ Top(t).pc = "dtorClear" /\ Clear(Top(t).arg, Msgs) /\ Return(t)
        /\ dead' = dead
    BY <1>2 DEF DtorClear, At
  <2>2. Top(t).arg \in LoopThreads
    BY ZenonT(30), <1>1, <2>1 DEF FrameOK, StopPcs
  <2>3. EarlyKept
    BY <2>1, ReturnKept DEF BasePcs, GetPcs, Waiting, Kept, EarlyKept
  <2> QED
    BY ZenonT(30), <1>1, <2>1, <2>2, <2>3, ClearPlaces, QuietAlive
<1>3. ASSUME NEW h \in Handlers, DestroyHandler(t, h)
      PROVE  AliveInv'
  <2> DEFINE ms == {m \in Msgs : HandlerOf[m] = h}
  <2>1. /\ Top(t).pc = "handler" /\ Home[h] = t /\ ~Unqueued(ms) /\ Clear(t, ms)
        /\ dead' = dead \cup {h} /\ stack' = stack
    BY ZenonT(30), <1>3 DEF DestroyHandler, At
  <2>2. t \in LoopThreads /\ ms \in SUBSET Msgs
    BY <1>1, <2>1 DEF FrameOK
  <2>3. /\ \A e \in LoopThreads :
             /\ Elems(msgq_'[e]) \subseteq Elems(msgq_[e])
             /\ Elems(sendlist_'[e]) \subseteq Elems(sendlist_[e])
        /\ \A m \in Elems(msgq_'[t]) \cup Elems(sendlist_'[t]) : m \notin ms
    BY ZenonT(30), <1>1, <2>1, <2>2, ClearPlaces
  <2>4. \A d \in LoopThreads : Elems(msgq_[d]) \cup Elems(sendlist_[d]) \subseteq Msgs
    BY ZenonT(30), <1>1, ElemsType DEF TypeOK
  <2>5. ASSUME NEW d \in LoopThreads,
               NEW m \in Elems(msgq_'[d]) \cup Elems(sendlist_'[d])
        PROVE  Dest(m) = d /\ HandlerOf[m] \notin dead'
    <3>1. m \in Msgs /\ Dest(m) = d /\ HandlerOf[m] \notin dead
      BY ZenonT(30), <2>3, <2>4 DEF AliveInv
    <3>2. HandlerOf[m] # h
      BY <2>1, <2>3, <3>1 DEF Dest
    <3> QED
      BY <2>1, <3>1, <3>2
  <2>6. ASSUME NEW u \in Threads, NEW i \in Nat, NEW m \in Msgs,
               On(u, i, Early, m)'
        PROVE  HandlerOf[m] \notin dead'
    <3>1. On(u, i, Early, m)
      BY ZenonT(30), <2>1, <2>6 DEF On
    <3>2. stack[u] \in Seq(Frames) /\ DOMAIN stack[u] = 1..Len(stack[u])
      BY <1>1 DEF TypeOK
    <3>3. m \notin ms
      BY ZenonT(30), <2>1, <3>1, <3>2 DEF On, Unqueued, Early
    <3> QED
      BY ZenonT(30), <2>1, <3>1, <3>3 DEF AliveInv
  <2> QED
    BY ZenonT(30), <2>5, <2>6 DEF AliveInv, Dest
<1> QED
  BY <1>2, <1>3

-----------------------------------------------------------------------------
(***************************************************************************)
(* Every step, and the theorems.                                           *)
(***************************************************************************)
MessageInv == TypeInv /\ AliveInv /\ PlaceInv

\* At first no message is anywhere.
LEMMA InitMessage == Init => AliveInv /\ PlaceInv
<1> SUFFICES ASSUME Init PROVE AliveInv /\ PlaceInv
  OBVIOUS
<1>1. \A t \in Threads :
        stack[t] = <<Frame(IF t \in LoopThreads THEN "get" ELSE "native", None)>>
  BY ZenonT(30) DEF Init
<1>2. \A t \in Threads : Len(stack[t]) = 1 /\ stack[t][1].pc \in {"get", "native"}
  <2> SUFFICES ASSUME NEW t \in Threads
               PROVE  Len(stack[t]) = 1 /\ stack[t][1].pc \in {"get", "native"}
    OBVIOUS
  <2>1. PICK l \in {"get", "native"} : stack[t] = <<Frame(l, None)>>
    BY <1>1
  <2> QED
    BY <2>1 DEF Frame
<1>3. \A t \in Threads, i \in Nat : \A m :
        ~On(t, i, CallPcs, m) /\ ~On(t, i, Early, m) /\ ~On(t, i, {"rsRun"}, m)
  <2> SUFFICES ASSUME NEW t \in Threads, NEW i \in 1..Len(stack[t])
               PROVE  stack[t][i].pc \notin CallPcs \cup {"rsRun"}
    BY DEF On, CallPcs
  <2>1. i = 1
    <3>1. i \in 1..1
      BY Zenon, <1>2
    <3> QED
      BY <3>1
  <2> QED
    BY ZenonT(30), <1>2, <2>1 DEF CallPcs, Early, Waiting, PostPcs
<1>4. \A d \in LoopThreads : /\ Elems(msgq_[d]) = {} /\ Elems(sendlist_[d]) = {}
                             /\ Len(sendlist_[d]) = 0
  BY SMTT(30) DEF Init, Elems
<1>5. AliveInv
  BY ZenonT(30), <1>3, <1>4 DEF AliveInv
<1>6. NoRepeats /\ Single(CallPcs) /\ Single({"rsRun"})
  BY SMTT(30), <1>3, <1>4 DEF NoRepeats, Single
<1>7. \A m \in Msgs : m \notin ready /\ ~Queued(m) /\ ~Runs(m)
  BY <1>3, <1>4 DEF Init, Queued, Runs
<1> QED
  BY <1>3, <1>5, <1>6, <1>7 DEF PlaceInv

\* A step that leaves the lists of sent messages, and what is done, alone.
LEMMA StillPlaces ==
  ASSUME PlaceInv, Kept, UNCHANGED <<from, sendlist_, ready>>
  PROVE  PlaceInv'
<1>1. NoRepeats' /\ Shrinks /\ Done
  BY ZenonT(30) DEF PlaceInv, NoRepeats, Shrinks, Queued, Done
<1> QED
  BY <1>1, QuietPlaces

\* Every step of a thread by itself.
LEMMA StepMessage ==
  ASSUME MessageInv, NEW t \in Threads, Step(t) \/ SelectIo(t)
  PROVE  AliveInv' /\ PlaceInv'
<1>1. TypeInv /\ TypeOK /\ AliveInv /\ PlaceInv /\ FrameOK(t, Top(t), from)
  BY TopOK DEF MessageInv, TypeInv
<1>2. CASE \/ GetReceiveSends(t) \/ GetQueue(t) \/ GetStopCheck(t)
           \/ SelectSignaled(t) \/ SelectIo(t) \/ SelectReturn(t)
  <2>1. Kept /\ UNCHANGED <<from, sendlist_, ready, dead>>
    BY <1>1, <1>2, GetPlaces
  <2>2. \A d \in LoopThreads : Elems(msgq_'[d]) \subseteq Elems(msgq_[d])
    <3>1. CASE GetQueue(t)
      <4>1. t \in LoopThreads /\ msgq_[t] \in Seq(Msgs)
        BY ZenonT(30), <1>1, <3>1 DEF GetQueue, At, FrameOK, GetPcs, TypeOK
      <4>2. \/ msgq_' = msgq_
            \/ msgq_[t] # <<>> /\ msgq_' = [msgq_ EXCEPT ![t] = Tail(@)]
        BY ZenonT(30), <3>1 DEF GetQueue
      <4>3. msgq_[t] # <<>> => Elems(Tail(msgq_[t])) \subseteq Elems(msgq_[t])
        BY SMTT(30), <4>1, HeadTailProperties, LenProperties DEF Elems
      <4> QED
        BY ZenonT(30), <1>1, <4>2, <4>3 DEF TypeOK
    <3>2. CASE ~GetQueue(t)
      BY <1>2, <3>2 DEF GetReceiveSends, GetStopCheck, SelectSignaled, SelectIo,
                        SelectReturn
    <3> QED
      BY ZenonT(30), <3>1, <3>2
  <2> QED
    BY ZenonT(30), <1>1, <2>1, <2>2, StillPlaces, QuietAlive DEF Kept, EarlyKept
<1>3. CASE \/ ReceiveCheck(t) \/ SendStopCheck(t) \/ SendWake(t) \/ SendTest(t)
           \/ SendEnterWait(t) \/ SendWaitReturn(t) \/ PostStopCheck(t)
           \/ HandlerReturn(t) \/ Join(t)
  <2>1. Kept /\ UNCHANGED <<from, sendlist_, ready, dead>>
    BY ZenonT(30), <1>1, <1>3, CallPlaces
  <2>2. msgq_' = msgq_
    BY <1>3 DEF ReceiveCheck, SendStopCheck, SendWake, SendTest, SendEnterWait,
                SendWaitReturn, PostStopCheck, HandlerReturn, Join
  <2> QED
    BY ZenonT(30), <1>1, <2>1, <2>2, StillPlaces, QuietAlive DEF Kept, EarlyKept
<1>4. CASE ReceivePop(t) \/ ReceiveWake(t)
  <2>1. /\ Top(t).pc \in {"rsPop", "rsWake"} /\ ReceiveNext(t)
        /\ UNCHANGED <<from, ready, msgq_, dead>>
    BY ZenonT(30), <1>4 DEF ReceivePop, ReceiveWake, At
  <2>2. t \in LoopThreads
    BY <1>1, <2>1 DEF FrameOK
  <2>3. PlaceInv' /\ EarlyKept
    BY <1>1, <2>1, <2>2, ReceiveNextPlaces
  <2>4. \A d \in LoopThreads : Elems(sendlist_'[d]) \subseteq Elems(sendlist_[d])
    <3>1. \/ sendlist_' = sendlist_
          \/ sendlist_[t] # <<>> /\ sendlist_' = [sendlist_ EXCEPT ![t] = Tail(@)]
      BY ZenonT(30), <2>1 DEF ReceiveNext
    <3>2. sendlist_[t] # <<>> => Elems(Tail(sendlist_[t])) \subseteq Elems(sendlist_[t])
      <4>1. sendlist_[t] \in Seq(Msgs)
        BY <1>1, <2>2 DEF TypeOK
      <4>2. \A i, j \in 1..Len(sendlist_[t]) :
              sendlist_[t][i] = sendlist_[t][j] => i = j
        BY ZenonT(30), <1>1, <2>2 DEF PlaceInv, NoRepeats
      <4> QED
        BY ZenonT(30), <4>1, <4>2, TailElems
    <3> QED
      BY ZenonT(30), <1>1, <3>1, <3>2 DEF TypeOK
  <2> QED
    BY ZenonT(30), <1>1, <2>1, <2>3, <2>4, QuietAlive
<1>5. CASE ReceiveReady(t)
  <2>1. UNCHANGED <<msgq_, sendlist_, dead>>
    BY <1>5 DEF ReceiveReady
  <2> QED
    BY ZenonT(30), <1>1, <1>5, <2>1, ReadyPlaces, QuietAlive
<1>6. CASE SendPush(t)
  BY ZenonT(30), <1>1, <1>6, SendPushPlaces, QueueAlive
<1>7. CASE PostPush(t)
  <2>1. Kept /\ UNCHANGED <<from, sendlist_, ready>>
    BY ZenonT(30), <1>1, <1>7, CallPlaces
  <2> QED
    BY ZenonT(30), <1>1, <1>7, <2>1, StillPlaces, QueueAlive
<1>8. CASE DtorClear(t)
  BY ZenonT(30), <1>1, <1>8, DestroyPlaces, DestroyAlive
<1> QED
  BY <1>2, <1>3, <1>4, <1>5, <1>6, <1>7, <1>8 DEF Step

\* Every step.
LEMMA NextMessage == MessageInv /\ [Next]_vars => MessageInv'
<1> SUFFICES ASSUME MessageInv, [Next]_vars PROVE MessageInv'
  OBVIOUS
<1>1. TypeInv /\ AliveInv /\ PlaceInv /\ TypeInv'
  BY NextType DEF MessageInv
<1>2. CASE UNCHANGED vars
  <2>1. \A u, i, P, m : On(u, i, P, m)' <=> On(u, i, P, m)
    BY ZenonT(30), <1>2 DEF vars, On
  <2>2. Kept /\ UNCHANGED <<from, sendlist_, ready, dead, msgq_>>
    BY <1>2, <2>1 DEF vars, Kept
  <2> QED
    BY ZenonT(30), <1>1, <2>2, StillPlaces, QuietAlive DEF MessageInv, Kept, EarlyKept
<1>3. ASSUME NEW t \in Threads, Step(t) \/ SelectIo(t) PROVE MessageInv'
  BY ZenonT(30), <1>1, <1>3, StepMessage DEF MessageInv
<1>4. ASSUME NEW t \in Threads, NEW m \in Msgs, Send(t, m) \/ Post(t, m)
      PROVE  MessageInv'
  BY ZenonT(30), <1>1, <1>4, BeginPlaces, BeginAlive DEF MessageInv
<1>5. ASSUME NEW t \in Threads, NEW h \in Handlers, DestroyHandler(t, h)
      PROVE  MessageInv'
  BY ZenonT(30), <1>1, <1>5, DestroyPlaces, DestroyAlive DEF MessageInv
<1>6. ASSUME NEW t \in Threads, NEW u \in LoopThreads, StopThread(t, u)
      PROVE  MessageInv'
  <2>1. Kept /\ UNCHANGED <<from, sendlist_, ready, dead, msgq_>>
    BY ZenonT(30), <1>1, <1>6, CallPlaces DEF StopThread
  <2> QED
    BY <1>1, <2>1, StillPlaces, QuietAlive DEF MessageInv, Kept, EarlyKept
<1> QED
  BY <1>2, <1>3, <1>4, <1>5, <1>6 DEF Next

\* For any threads, handlers and messages: ~MessageHandler leaves no message
\* for the object it destroys, in any queue, and none is queued afterwards.
THEOREM NothingForTheDead == Spec => []NoMessageForDeadHandler
<1>1. MessageInv => NoMessageForDeadHandler
  BY DEF MessageInv, AliveInv, NoMessageForDeadHandler
<1>2. Init => MessageInv
  BY InitType, InitMessage DEF MessageInv
<1> QED
  BY <1>1, <1>2, NextMessage, PTL DEF Spec

\* For any threads, handlers and messages: while a sent message is queued or
\* its OnMessage runs, its sender has not returned from Send.
THEOREM SenderStays == Spec => []SenderWaits
<1>1. ASSUME MessageInv PROVE SenderWaits
  <2>1. TypeOK /\ StackOK /\ PlaceInv
    BY <1>1 DEF MessageInv, TypeInv
  <2>2. \A t \in Threads : DOMAIN stack[t] = 1..Len(stack[t])
    BY SMTT(30), <2>1 DEF TypeOK
  <2>3. ASSUME NEW m \in Msgs, Waits(m)
        PROVE  from[m] # None /\ Sending(from[m], m)
    <3>1. PICK t \in Threads, i \in Nat : On(t, i, Waiting, m)
      BY ZenonT(30), <2>3 DEF Waits
    <3>2. /\ i \in 1..Len(stack[t]) /\ stack[t][i].arg = m
          /\ stack[t][i].pc \in SendPcs
      BY ZenonT(30), <3>1 DEF On, Waiting, SendPcs
    <3>3. from[m] = t
      BY ZenonT(30), <2>1, <3>2 DEF StackOK, FrameOK
    <3> QED
      BY <2>2, <3>2, <3>3, ThreadAssumption DEF Sending
  <2>4. ASSUME NEW t \in LoopThreads, NEW m \in Elems(sendlist_[t])
        PROVE  m \in Msgs /\ Waits(m)
    <3>1. m \in Msgs
      BY ZenonT(30), <2>1, ElemsType DEF TypeOK
    <3> QED
      BY ZenonT(30), <2>1, <3>1 DEF PlaceInv, Queued
  <2>5. ASSUME NEW t \in LoopThreads, NEW i \in DOMAIN stack[t],
               stack[t][i].pc = "rsRun"
        PROVE  stack[t][i].arg \in Msgs /\ Waits(stack[t][i].arg)
    <3>1. t \in Threads /\ i \in 1..Len(stack[t]) /\ i \in Nat
      BY SMTT(30), <2>2 DEF Threads
    <3>2. stack[t][i].arg \in Msgs
      BY ZenonT(30), <2>1, <2>5, <3>1 DEF StackOK, FrameOK
    <3>3. Runs(stack[t][i].arg)
      BY <2>5, <3>1 DEF Runs, On
    <3> QED
      BY ZenonT(30), <2>1, <3>2, <3>3 DEF PlaceInv
  <2> QED
    BY ZenonT(30), <2>3, <2>4, <2>5 DEF SenderWaits
<1>2. Init => MessageInv
  BY InitType, InitMessage DEF MessageInv
<1> QED
  BY <1>1, <1>2, NextMessage, PTL DEF Spec

=============================================================================
