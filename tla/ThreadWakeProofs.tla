-------------------------- MODULE ThreadWakeProofs --------------------------
(***************************************************************************)
(* No wakeup is lost by the waits that Get and Send nest, for any threads, *)
(* handlers and messages.                                                  *)
(***************************************************************************)
EXTENDS ThreadProofs

\* has_sends_ is never FALSE by mistake.
HintOK == \A t \in LoopThreads : sendlist_[t] # <<>> => has_sends_[t]

\* Between the look at a list and the wait, what is added to it is signaled.
TopWakes(t) ==
  t \in LoopThreads =>
    /\ Top(t).pc \in {"queue", "stopCheck", "sendEnter", "sendWait"}
         => (sendlist_[t] # <<>> => signaled[t] \/ Waker(t))
    /\ Top(t).pc = "stopCheck" => (msgq_[t] # <<>> => signaled[t])

Work(t) == t \in LoopThreads /\ (msgq_[t] # <<>> \/ sendlist_[t] # <<>> \/ fStop_[t])

\* The call at position i of t's stack is not asleep with something to do.
FrameWakes(t, i) ==
  /\ stack[t][i].pc = "select" /\ Work(t)
       => signaled[t] \/ ~fWait_[t] \/ Waker(t) \/ Rewakes(t, i)
  /\ stack[t][i].pc \in {"sendEnter", "sendWait"} =>
       \A m \in ready : stack[t][i].arg = m
         => signaled[t] \/ Finisher(m) \/ Rewakes(t, i)

ThreadWakes(t) ==
  TopWakes(t) /\ \A i \in 1..Len(stack[t]) : FrameWakes(t, i)

WakeInv == TypeInv /\ HintOK /\ \A t \in Threads : ThreadWakes(t)

-----------------------------------------------------------------------------
(***************************************************************************)
(* What a step of another thread may do to thread u.                       *)
(***************************************************************************)
Env(u) ==
  /\ signaled[u] => signaled'[u]
  /\ Work(u)' => Work(u) \/ signaled'[u] \/ Waker(u)'
  /\ \A m \in Msgs : from[m] = u /\ m \in ready'
       => m \in ready \/ signaled'[u] \/ Finisher(m)'
  /\ \A m \in Msgs : from[m] = u /\ Finisher(m)
       => signaled'[u] \/ Finisher(m)'
  /\ Waker(u) => signaled'[u] \/ Waker(u)'

Lists(u) ==
  u \in LoopThreads =>
    /\ sendlist_'[u] # <<>> => sendlist_[u] # <<>> \/ signaled'[u] \/ Waker(u)'
    /\ msgq_'[u] # <<>> => msgq_[u] # <<>> \/ signaled'[u]

\* A frame that stays in place is still not asleep with something to do.
LEMMA FrameKept ==
  ASSUME TypeInv, NEW u \in Threads, NEW i \in 1..Len(stack[u]),
         i \in 1..Len(stack'[u]), stack'[u][i] = stack[u][i], Env(u),
         Rewakes(u, i) => signaled'[u] \/ Rewakes(u, i)',
         fWait_'[u] => fWait_[u] \/ signaled'[u] \/ Rewakes(u, i)',
         FrameWakes(u, i)
  PROVE  FrameWakes(u, i)'
<1>1. FrameOK(u, stack[u][i], from)
  BY DEF TypeInv, StackOK
<1>2. stack'[u][i].pc = "select" /\ Work(u)'
        => signaled'[u] \/ ~fWait_'[u] \/ Waker(u)' \/ Rewakes(u, i)'
  BY DEF FrameWakes, Env
<1>3. ASSUME stack'[u][i].pc \in {"sendEnter", "sendWait"}, NEW m \in ready',
             stack'[u][i].arg = m
      PROVE  signaled'[u] \/ Finisher(m)' \/ Rewakes(u, i)'
  <2>1. m \in Msgs /\ from[m] = u
    BY <1>1, <1>3 DEF FrameOK, SendPcs
  <2> QED
    BY <1>3, <2>1 DEF FrameWakes, Env
<1> QED
  BY <1>2, <1>3 DEF FrameWakes

\* A thread that does not move is still not asleep with something to do.
LEMMA ThreadKept ==
  ASSUME TypeInv, NEW u \in Threads, stack'[u] = stack[u], fWait_'[u] = fWait_[u],
         Env(u), Lists(u), ThreadWakes(u)
  PROVE  ThreadWakes(u)'
<1>1. ASSUME NEW i \in 1..Len(stack'[u]) PROVE FrameWakes(u, i)'
  <2>1. i \in 1..Len(stack[u]) /\ Rewakes(u, i)' <=> Rewakes(u, i)
    BY <1>1 DEF Rewakes
  <2>2. FrameWakes(u, i)
    BY <2>1 DEF ThreadWakes
  <2> QED
    BY <1>1, <2>1, <2>2, FrameKept
<1>2. TopWakes(u)'
  <2>1. Top(u)' = Top(u)
    BY DEF Top
  <2>2. TopWakes(u)
    BY DEF ThreadWakes
  <2> QED
    BY <2>1, <2>2 DEF TopWakes, Lists, Env
<1> QED
  BY <1>1, <1>2 DEF ThreadWakes

\* The frame on top of t's stack after each of the three stack operations.
LEMMA TopAfter ==
  ASSUME TypeOK, NEW t \in Threads
  PROVE  /\ \A f \in Frames : Become(t, f) => Top(t)' = f
         /\ \A f, g \in Frames : Push(t, f, g) => Top(t)' = g
         /\ Len(stack[t]) # 1 /\ Return(t) => Top(t)' = stack[t][Len(stack[t]) - 1]
<1>1. Len(stack[t]) \in Nat \ {0}
  BY TopType
<1>2. ASSUME NEW f \in Frames, Become(t, f) PROVE Top(t)' = f
  BY <1>1, <1>2, BecomeStack DEF Top
<1>3. ASSUME NEW f \in Frames, NEW g \in Frames, Push(t, f, g) PROVE Top(t)' = g
  BY <1>1, <1>3, PushStack DEF Top
<1>4. ASSUME Len(stack[t]) # 1, Return(t)
      PROVE  Top(t)' = stack[t][Len(stack[t]) - 1]
  BY <1>1, <1>4, ReturnStack DEF Top
<1> QED
  BY <1>2, <1>3, <1>4

\* The caller's frame after a call.
LEMMA CallerAfter ==
  ASSUME TypeOK, NEW t \in Threads, NEW f \in Frames, NEW g \in Frames,
         Push(t, f, g), NEW i \in 1..Len(stack[t]), i = Len(stack[t])
  PROVE  stack'[t][i] = f
<1>1. Len(stack[t]) \in Nat \ {0}
  BY TopType
<1>2. i \in 1..Len(stack[t]) + 1 /\ i # Len(stack[t]) + 1
  BY <1>1
<1> QED
  BY <1>2, PushStack

Nested(f) == f.waited \/ f.pc = "sendWait"

\* A statement of t: the frames below the top stay awake.
LEMMA BecomeWakes ==
  ASSUME TypeInv, NEW t \in Threads, NEW f \in Frames, Become(t, f), Env(t),
         Nested(Top(t)) => Nested(f), fWait_'[t] => fWait_[t] \/ Nested(f),
         ThreadWakes(t), TopWakes(t)',
         \A i \in 1..Len(stack[t]) : i = Len(stack[t]) => FrameWakes(t, i)'
  PROVE  ThreadWakes(t)'
<1> DEFINE n == Len(stack[t])
<1>1. /\ Len(stack'[t]) = n /\ n \in Nat \ {0}
      /\ \A i \in 1..n : stack'[t][i] = IF i = n THEN f ELSE stack[t][i]
      /\ Top(t) = stack[t][n]
  BY BecomeStack, TopType DEF TypeInv, Top
<1>2. DOMAIN stack[t] = 1..n /\ DOMAIN stack'[t] = 1..n
  <2>1. stack[t] \in Seq(Frames) /\ stack'[t] \in Seq(Frames)
    BY BecomeStack DEF TypeInv, TypeOK
  <2> QED
    BY <1>1, <2>1
<1>3. \A i \in 1..n : i = n => FrameWakes(t, i)'
  OBVIOUS
<1> HIDE DEF n
<1>4. ASSUME NEW i \in 1..n, i # n PROVE FrameWakes(t, i)'
  <2>1. Rewakes(t, i) => Rewakes(t, i)'
    BY <1>1, <1>2 DEF Rewakes, Nested
  <2>2. Nested(f) => Rewakes(t, i)'
    BY <1>1, <1>2, <1>4 DEF Rewakes, Nested
  <2>3. FrameWakes(t, i)
    BY <1>4 DEF ThreadWakes, n
  <2>4. stack'[t][i] = stack[t][i] /\ i \in 1..Len(stack[t]) /\ i \in 1..Len(stack'[t])
    BY <1>1, <1>4 DEF n
  <2> QED
    BY <2>1, <2>2, <2>3, <2>4, FrameKept
<1> QED
  BY <1>1, <1>3, <1>4 DEF ThreadWakes

\* A call made by t.
LEMMA PushWakes ==
  ASSUME TypeInv, NEW t \in Threads, NEW f \in Frames, NEW g \in Frames,
         Push(t, f, g), Env(t), Nested(Top(t)) => Nested(f),
         fWait_'[t] => fWait_[t], ThreadWakes(t), TopWakes(t)',
         \A i \in 1..Len(stack[t]) : i = Len(stack[t]) => FrameWakes(t, i)',
         g.pc \notin {"select", "sendEnter", "sendWait"}
  PROVE  ThreadWakes(t)'
<1> DEFINE n == Len(stack[t])
<1>0. TypeOK /\ Top(t) = stack[t][n]
  BY DEF TypeInv, Top
<1>1. /\ Len(stack'[t]) = n + 1 /\ n \in Nat \ {0}
      /\ \A i \in 1..n + 1 : stack'[t][i] = IF i = n + 1 THEN g
                               ELSE IF i = n THEN f ELSE stack[t][i]
  BY <1>0, PushStack, TopType
<1>2. DOMAIN stack[t] = 1..n /\ DOMAIN stack'[t] = 1..n + 1
  <2>1. stack[t] \in Seq(Frames) /\ stack'[t] \in Seq(Frames)
    BY PushStack DEF TypeInv, TypeOK
  <2> QED
    BY <1>1, <2>1
<1>3. \A i \in 1..n : i = n => FrameWakes(t, i)'
  OBVIOUS
<1> HIDE DEF n
<1>4. ASSUME NEW i \in 1..n, i # n PROVE FrameWakes(t, i)'
  <2>1. ASSUME NEW j \in 1..n, j > i, Nested(stack[t][j]) PROVE Rewakes(t, i)'
    <3>1. j \in 1..n + 1 /\ Nested(stack'[t][j])
      BY <1>0, <1>1, <2>1
    <3> QED
      BY <1>2, <2>1, <3>1 DEF Rewakes, Nested
  <2>2. Rewakes(t, i) => Rewakes(t, i)'
    BY <1>2, <2>1 DEF Rewakes, Nested
  <2>3. FrameWakes(t, i)
    BY <1>4 DEF ThreadWakes, n
  <2>4. stack'[t][i] = stack[t][i] /\ i \in 1..Len(stack[t]) /\ i \in 1..Len(stack'[t])
    BY <1>1, <1>4 DEF n
  <2> QED
    BY <2>2, <2>3, <2>4, FrameKept
<1>5. n + 1 \in 1..n + 1 /\ stack'[t][n + 1] = g
  BY <1>1
<1>6. ASSUME NEW i \in 1..n + 1 PROVE FrameWakes(t, i)'
  <2>1. CASE i = n + 1
    BY <1>5, <2>1 DEF FrameWakes
  <2>2. CASE i # n + 1
    <3>1. i \in 1..n
      BY <1>1, <1>6, <2>2
    <3> QED
      BY <1>3, <1>4, <3>1
  <2> QED
    BY <2>1, <2>2
<1> QED
  BY <1>1, <1>6 DEF ThreadWakes

\* A return to the caller.
LEMMA ReturnWakes ==
  ASSUME TypeInv, NEW t \in Threads, Top(t).pc \notin BasePcs, Return(t), Env(t),
         Nested(Top(t)) => signaled'[t], fWait_'[t] => fWait_[t],
         ThreadWakes(t), TopWakes(t)'
  PROVE  ThreadWakes(t)'
<1> DEFINE n == Len(stack[t])
<1>1. /\ Len(stack'[t]) = n - 1 /\ n \in Nat \ {0}
      /\ \A i \in 1..n - 1 : stack'[t][i] = stack[t][i]
      /\ Top(t) = stack[t][n]
  BY ReturnStack, TopType, Inner DEF TypeInv, Top
<1>2. DOMAIN stack[t] = 1..n /\ DOMAIN stack'[t] = 1..n - 1
  <2>1. stack[t] \in Seq(Frames) /\ stack'[t] \in Seq(Frames)
    BY SMTT(30), ReturnStack, Inner DEF TypeInv, TypeOK
  <2> QED
    BY SMTT(30), <1>1, <2>1
<1> HIDE DEF n
<1>4. ASSUME NEW i \in 1..n - 1 PROVE FrameWakes(t, i)'
  <2>1. Rewakes(t, i) => signaled'[t] \/ Rewakes(t, i)'
    <3>1. ASSUME NEW j \in 1..n, j > i, Nested(stack[t][j])
          PROVE  signaled'[t] \/ Rewakes(t, i)'
      <4>1. CASE j = n
        BY <1>1, <3>1, <4>1
      <4>2. CASE j # n
        <5>1. j \in 1..n - 1
          BY <1>1, <3>1, <4>2
        <5> QED
          BY <1>1, <1>2, <3>1, <5>1 DEF Rewakes, Nested
      <4> QED
        BY <4>1, <4>2
    <3> QED
      BY <1>2, <3>1 DEF Rewakes, Nested
  <2>2. i \in 1..n
    BY <1>1
  <2>3. FrameWakes(t, i)
    BY <2>2 DEF ThreadWakes, n
  <2>4. stack'[t][i] = stack[t][i] /\ i \in 1..Len(stack[t]) /\ i \in 1..Len(stack'[t])
    BY <1>1, <2>2 DEF n
  <2> QED
    BY SMTT(30), <2>1, <2>3, <2>4, FrameKept
<1> QED
  BY SMTT(30), <1>1, <1>4 DEF ThreadWakes

\* Goto, to a statement before which nothing is looked at, or to one of which
\* the premises say that it is not asleep with something to do.
LEMMA GotoWakes ==
  ASSUME TypeInv, NEW t \in Threads, NEW l \in Pcs, Goto(t, l), Env(t),
         ThreadWakes(t), Top(t).pc # "sendWait",
         fWait_'[t] => fWait_[t] \/ l \in {"select", "sendWait"},
         l = "select" => Len(stack[t]) = 1,
         l \in {"queue", "stopCheck", "sendEnter", "sendWait"} => TopWakes(t)',
         l \in {"select", "sendEnter", "sendWait"} =>
           \A i \in 1..Len(stack[t]) : i = Len(stack[t]) => FrameWakes(t, i)'
  PROVE  ThreadWakes(t)'
<1> DEFINE f == [Top(t) EXCEPT !.pc = l]
           n == Len(stack[t])
<1>1. TypeOK /\ Top(t) \in Frames /\ n \in Nat \ {0}
  BY TopType DEF TypeInv
<1>2. f \in Frames /\ f.pc = l /\ f.waited = Top(t).waited
  BY <1>1 DEF Frames, Pcs
<1>3. Become(t, f)
  BY SMTT(30) DEF Goto
<1> HIDE DEF f
<1>4. Top(t)' = f /\ \A i \in 1..n : i = n => stack'[t][i] = f
  BY SMTT(30), <1>1, <1>2, <1>3, TopAfter, BecomeStack
<1>5. TopWakes(t)'
  BY SMTT(30), <1>2, <1>4 DEF TopWakes
<1>6. \A i \in 1..n : i = n => FrameWakes(t, i)'
  BY SMTT(30), <1>2, <1>4 DEF FrameWakes
<1>7. CASE l # "select"
  BY SMTT(30), <1>2, <1>3, <1>5, <1>6, <1>7, BecomeWakes DEF Nested
<1>8. CASE l = "select"
  <2>1. Len(stack'[t]) = 1 /\ n = 1
    BY <1>1, <1>2, <1>3, <1>8, BecomeStack
  <2>2. \A i \in 1..Len(stack'[t]) : FrameWakes(t, i)'
    BY SMTT(30), <1>6, <2>1
  <2> QED
    BY <1>5, <2>2 DEF ThreadWakes
<1> QED
  BY <1>7, <1>8

\* Call.
LEMMA CallWakes ==
  ASSUME TypeInv, NEW t \in Threads, NEW l \in Pcs,
         NEW k \in {"rsCheck", "handler", "sendStop", "postStop", "join"},
         NEW x \in Msgs \cup LoopThreads \cup {None},
         Call(t, l, Frame(k, x)), Env(t), ThreadWakes(t), Top(t).pc # "sendWait",
         fWait_'[t] => fWait_[t], l # "sendWait",
         l \in {"select", "sendEnter"} =>
           \A i \in 1..Len(stack[t]) : i = Len(stack[t]) => FrameWakes(t, i)'
  PROVE  ThreadWakes(t)'
<1> DEFINE f == [Top(t) EXCEPT !.pc = l]
           g == Frame(k, x)
           n == Len(stack[t])
<1>1. TypeOK /\ Top(t) \in Frames /\ n \in Nat \ {0}
  BY TopType DEF TypeInv
<1>2. f \in Frames /\ f.pc = l /\ f.waited = Top(t).waited
  BY <1>1 DEF Frames, Pcs
<1>3. Push(t, f, g)
  BY DEF Call
<1>4. g \in Frames /\ g.pc = k
  BY SMTT(30) DEF Frame, Frames, RecvPcs, UserPcs, SendPcs, PostPcs, StopPcs
<1> HIDE DEF f, g
<1>5. Top(t)' = g
  BY <1>1, <1>2, <1>3, <1>4, TopAfter
<1>6. TopWakes(t)'
  BY SMTT(30), <1>4, <1>5 DEF TopWakes
<1>7. \A i \in 1..n : i = n => stack'[t][i] = f
  BY SMTT(30), <1>1, <1>2, <1>3, <1>4, PushStack
<1>8. \A i \in 1..n : i = n => FrameWakes(t, i)'
  BY SMTT(30), <1>2, <1>7 DEF FrameWakes
<1> QED
  BY <1>2, <1>3, <1>4, <1>6, <1>8, PushWakes DEF Nested

\* Return: only ReceiveSends returns to a wait that is about to be entered.
LEMMA ReturnWakesTop ==
  ASSUME TypeInv, NEW t \in Threads, Top(t).pc \notin BasePcs, Return(t), Env(t),
         Nested(Top(t)) => signaled'[t], fWait_'[t] => fWait_[t],
         ThreadWakes(t),
         Top(t).pc \in RecvPcs /\ t \in LoopThreads => sendlist_'[t] = <<>>
  PROVE  ThreadWakes(t)'
<1> DEFINE n == Len(stack[t])
<1>1. TypeOK /\ StackOK /\ n \in Nat \ {0} /\ n # 1
  BY TopType, Inner DEF TypeInv
<1>2. Top(t)' = stack[t][n - 1] /\ Top(t) = stack[t][n]
  BY <1>1, TopAfter DEF Top
<1> HIDE DEF n
<1>3. n - 1 \in 1..n /\ n - 1 < n /\ (n - 1) + 1 = n
  BY <1>1
<1>4. ShapeOK(stack[t], n - 1)
  BY SMTT(30), <1>1, <1>3 DEF StackOK, n
<1>5. /\ Top(t)'.pc \in UnderPcs
      /\ Top(t)'.pc \in {"queue", "sendEnter"} => Top(t).pc \in RecvPcs
  BY SMTT(30), <1>2, <1>3, <1>4 DEF ShapeOK, n
<1>6. TopWakes(t)'
  BY SMTT(30), <1>5 DEF TopWakes, UnderPcs
<1> QED
  BY <1>6, ReturnWakes

\* Only thread t moves, and what it does to the others is either harmless or
\* signaled.
Touches(t) ==
  /\ \A u \in Threads : u # t => stack'[u] = stack[u]
  /\ \A u \in Threads : u # t => (signaled[u] => signaled'[u])
  /\ \A u \in LoopThreads :
       sendlist_'[u] # <<>> => sendlist_[u] # <<>> \/ signaled'[u] \/ Waker(u)'
  /\ \A u \in LoopThreads : msgq_'[u] # <<>> => msgq_[u] # <<>> \/ signaled'[u]
  /\ \A u \in LoopThreads : fStop_'[u] => fStop_[u] \/ signaled'[u]
  /\ Top(t).pc = "sendWake" => signaled'[Dest(Top(t).arg)]
  /\ Top(t).pc = "rsWake" /\ from[Top(t).arg] \in Threads
       => signaled'[from[Top(t).arg]]
  /\ \A m \in Msgs : m \in ready' =>
       m \in ready \/ Finisher(m)' \/ (from[m] \in Threads => signaled'[from[m]])

\* The step does not consume t's wakeup either.
Moves(t) == Touches(t) /\ (signaled[t] => signaled'[t])

\* Such a step is one that the other threads may see.
LEMMA TouchesEnv ==
  ASSUME TypeInv, NEW t \in Threads, Touches(t), NEW u \in Threads,
         signaled[u] => signaled'[u]
  PROVE  Env(u) /\ Lists(u)
<1>1. \A v \in Threads : v # t => Top(v)' = Top(v)
  BY DEF Touches, Top
<1>2. Waker(u) => signaled'[u] \/ Waker(u)'
  <2> SUFFICES ASSUME NEW v \in Threads, Top(v).pc = "sendWake",
                      Dest(Top(v).arg) = u
               PROVE  signaled'[u] \/ Waker(u)'
    BY DEF Waker, At
  <2>1. CASE v = t
    BY <2>1 DEF Touches
  <2>2. CASE v # t
    BY <1>1, <2>2 DEF Waker, At, Dest
  <2> QED
    BY <2>1, <2>2
<1>3. ASSUME NEW m \in Msgs, from[m] = u, Finisher(m)
      PROVE  signaled'[u] \/ Finisher(m)'
  <2>1. PICK v \in LoopThreads : Top(v).pc = "rsWake" /\ Top(v).arg = m
    BY SMTT(30), <1>3 DEF Finisher, At
  <2>2. CASE v = t
    BY <1>3, <2>1, <2>2 DEF Touches
  <2>3. CASE v # t
    BY SMTT(30), <1>1, <2>1, <2>3 DEF Finisher, At, Threads
  <2> QED
    BY <2>2, <2>3
<1>4. Lists(u) /\ (Work(u)' => Work(u) \/ signaled'[u] \/ Waker(u)')
  BY DEF Touches, Lists, Work
<1> QED
  BY SMTT(30), <1>2, <1>3, <1>4 DEF Touches, Env

\* One that does not consume t's wakeup, t's own frames may see.
LEMMA MovesEnv ==
  ASSUME TypeInv, NEW t \in Threads, Moves(t)
  PROVE  Env(t)
  BY TouchesEnv DEF Moves

\* What remains to be shown of an action.
LEMMA MovesWake ==
  ASSUME WakeInv, TypeInv', HintOK', NEW t \in Threads, Touches(t) \/ Moves(t),
         \A u \in Threads : u # t => fWait_'[u] = fWait_[u],
         ThreadWakes(t)'
  PROVE  WakeInv'
<1>1. ASSUME NEW u \in Threads, u # t PROVE ThreadWakes(u)'
  <2>1. Touches(t)
    BY SMTT(30) DEF Moves
  <2>2. stack'[u] = stack[u] /\ (signaled[u] => signaled'[u])
    BY Zenon, <1>1, <2>1 DEF Touches
  <2>3. Env(u) /\ Lists(u)
    <3>1. TypeInv
      BY Zenon DEF WakeInv
    <3> QED
      BY Zenon, <2>1, <2>2, <3>1, TouchesEnv
  <2> QED
    BY Zenon, <1>1, <2>2, <2>3, ThreadKept DEF WakeInv
<1> QED
  BY <1>1 DEF WakeInv

-----------------------------------------------------------------------------
(***************************************************************************)
(* Every action keeps WakeInv.                                             *)
(***************************************************************************)
\* What an action on top of t's stack knows.
LEMMA TopFacts ==
  ASSUME WakeInv, NEW t \in Threads
  PROVE  /\ TypeOK /\ TypeInv /\ StackOK /\ FrameOK(t, Top(t), from)
         /\ TopWakes(t) /\ ThreadWakes(t)
         /\ Len(stack[t]) \in 1..Len(stack[t])
         /\ Top(t) = stack[t][Len(stack[t])]
         /\ ~Rewakes(t, Len(stack[t]))
         /\ Top(t).pc \in BasePcs <=> Len(stack[t]) = 1
<1>1. TypeOK /\ TypeInv /\ StackOK /\ ThreadWakes(t)
  BY DEF WakeInv, TypeInv
<1>2. Len(stack[t]) \in Nat \ {0} /\ stack[t] \in Seq(Frames)
  BY <1>1, TopType
<1>3. Len(stack[t]) \in 1..Len(stack[t])
  BY <1>2
<1>4. ShapeOK(stack[t], Len(stack[t]))
  BY <1>1, <1>3 DEF StackOK
<1>5. \A j \in DOMAIN stack[t] : ~(j > Len(stack[t]))
  BY <1>2
<1> QED
  BY <1>1, <1>3, <1>4, <1>5, TopOK DEF ThreadWakes, Rewakes, Top, ShapeOK

\* Get, up to its wait.
LEMMA GetWake ==
  ASSUME WakeInv, NEW t \in Threads,
         GetReceiveSends(t) \/ GetQueue(t) \/ GetStopCheck(t)
  PROVE  WakeInv'
<1> USE DEF Pcs, BasePcs, UnderPcs, GetPcs, RecvPcs, SendPcs, PostPcs,
            UserPcs, StopPcs
<1>1. /\ TypeOK /\ TypeInv /\ FrameOK(t, Top(t), from)
      /\ TopWakes(t) /\ ThreadWakes(t)
  BY TopFacts
<1>2. TypeInv'
  BY <1>1, GetType
<1>3. CASE GetReceiveSends(t)
  <2>1. Top(t).pc = "get" /\ Call(t, "queue", Frame("rsCheck", None))
    BY <1>3 DEF GetReceiveSends, At
  <2>2. \A u \in Threads : u # t => stack'[u] = stack[u]
    BY <1>1, <2>1 DEF Call, Push, TypeOK
  <2>3. Moves(t)
    BY ZenonT(30), <1>1, <1>3, <2>1, <2>2 DEF GetReceiveSends, Moves, Touches, TypeOK
  <2>4. HintOK'
    BY SMTT(30), <1>3 DEF GetReceiveSends, WakeInv, HintOK
  <2>5. ThreadWakes(t)'
    BY <1>1, <1>3, <2>1, <2>3, MovesEnv, CallWakes DEF GetReceiveSends
  <2> QED
    BY <1>2, <1>3, <2>3, <2>4, <2>5, MovesWake DEF GetReceiveSends
<1>4. CASE GetQueue(t)
  <2>1. Top(t).pc = "queue" /\ t \in LoopThreads
    BY <1>1, <1>4 DEF GetQueue, At, FrameOK
  <2>2. \A u \in Threads : u # t => stack'[u] = stack[u]
    BY SMTT(30), <1>1, <1>4 DEF GetQueue, Call, Push, Goto, Become, TypeOK
  <2>3. \A u \in LoopThreads : msgq_[u] = <<>> => msgq_'[u] = <<>>
    BY <1>1, <1>4 DEF GetQueue, TypeOK
  <2>4. Moves(t)
    BY Zenon, <1>1, <1>4, <2>1, <2>2, <2>3 DEF GetQueue, Moves, Touches, TypeOK
  <2>5. HintOK'
    BY Zenon, <1>4 DEF GetQueue, WakeInv, HintOK
  <2>6. ThreadWakes(t)'
    <3>1. CASE msgq_[t] # <<>>
      <4>1. /\ Call(t, "get", Frame("handler", Head(msgq_[t])))
            /\ Head(msgq_[t]) \in Msgs
        BY <1>1, <1>4, <2>1, <3>1 DEF GetQueue, TypeOK
      <4> QED
        BY SMTT(30), <1>1, <1>4, <2>1, <2>4, <4>1, MovesEnv, CallWakes DEF GetQueue
    <3>2. CASE msgq_[t] = <<>>
      <4>1. Goto(t, "stopCheck") /\ UNCHANGED <<msgq_, sendlist_, signaled, fWait_>>
        BY <1>4, <3>2 DEF GetQueue
      <4>2. Env(t)
        BY SMTT(30), <1>1, <2>4, MovesEnv
      <4>3. TopWakes(t)'
        BY <1>1, <2>1, <3>2, <4>1, <4>2 DEF TopWakes, Env
      <4> QED
        BY <1>1, <2>1, <4>1, <4>2, <4>3, GotoWakes
    <3> QED
      BY SMTT(30), <3>1, <3>2
  <2> QED
    BY SMTT(30), <1>2, <1>4, <2>4, <2>5, <2>6, MovesWake DEF GetQueue
<1>5. CASE GetStopCheck(t)
  <2>1. Top(t).pc = "stopCheck" /\ t \in LoopThreads /\ Len(stack[t]) = 1
    BY ZenonT(30), <1>1, <1>5, TopFacts DEF GetStopCheck, At, FrameOK
  <2>2. \A u \in Threads : u # t => stack'[u] = stack[u] /\ fWait_'[u] = fWait_[u]
    BY <1>1, <1>5 DEF GetStopCheck, Goto, Become, TypeOK
  <2>3. Moves(t)
    BY Zenon, <1>1, <1>5, <2>1, <2>2 DEF GetStopCheck, Moves, Touches, TypeOK
  <2>4. Env(t)
    BY <1>1, <2>3, MovesEnv
  <2>5. HintOK'
    BY ZenonT(30), <1>5 DEF GetStopCheck, WakeInv, HintOK
  <2>6. CASE fStop_[t]
    <3>1. Goto(t, "exited") /\ fWait_' = fWait_
      BY <1>5, <2>6 DEF GetStopCheck
    <3>2. ThreadWakes(t)'
      BY <1>1, <2>1, <2>4, <3>1, GotoWakes
    <3> QED
      BY <1>2, <2>2, <2>3, <2>5, <3>2, MovesWake
  <2>7. CASE ~fStop_[t]
    <3>1. Goto(t, "select") /\ UNCHANGED <<msgq_, sendlist_, fStop_, signaled>>
      BY SMTT(30), <1>5, <2>7 DEF GetStopCheck
    <3>2. Work(t)' => signaled'[t] \/ Waker(t)'
      BY <1>1, <2>1, <2>4, <2>7, <3>1 DEF Work, TopWakes, Env
    <3>3. \A i \in 1..Len(stack[t]) : i = Len(stack[t]) => stack'[t][i].pc = "select"
      <4>1. Top(t) \in Frames
        BY SMTT(30), <1>1, TopOK
      <4> QED
        BY <1>1, <3>1, <4>1 DEF Goto, Become, TypeOK, Frames
    <3>4. \A i \in 1..Len(stack[t]) : i = Len(stack[t]) => FrameWakes(t, i)'
      BY <3>2, <3>3 DEF FrameWakes
    <3>5. ThreadWakes(t)'
      BY ZenonT(30), <1>1, <2>1, <2>4, <3>1, <3>4, GotoWakes
    <3> QED
      BY <1>2, <2>2, <2>3, <2>5, <3>5, MovesWake
  <2> QED
    BY SMTT(30), <2>6, <2>7
<1> QED
  BY SMTT(30), <1>3, <1>4, <1>5

\* The wait of Get.
LEMMA SelectWake ==
  ASSUME WakeInv, NEW t \in Threads,
         SelectSignaled(t) \/ SelectIo(t) \/ SelectReturn(t)
  PROVE  WakeInv'
<1> USE DEF Pcs, BasePcs, UnderPcs, GetPcs, RecvPcs, SendPcs, PostPcs,
            UserPcs, StopPcs
<1> DEFINE n == Len(stack[t])
<1>1. /\ TypeOK /\ TypeInv /\ FrameOK(t, Top(t), from)
      /\ TopWakes(t) /\ ThreadWakes(t)
      /\ n \in 1..n /\ Top(t) = stack[t][n] /\ ~Rewakes(t, n)
  BY TopFacts
<1>2. TypeInv' /\ HintOK'
  BY Zenon, <1>1, SelectType
     DEF SelectSignaled, SelectIo, SelectReturn, WakeInv, HintOK
<1>3. Top(t).pc = "select" /\ t \in LoopThreads /\ n = 1
  BY ZenonT(30), <1>1, TopFacts DEF SelectSignaled, SelectIo, SelectReturn, At, FrameOK
<1>4. CASE SelectSignaled(t)
  <2>1. Touches(t) /\ \A u \in Threads : u # t => fWait_'[u] = fWait_[u]
    BY SMTT(30), <1>1, <1>3, <1>4 DEF SelectSignaled, Touches, TypeOK
  <2>2. ~fWait_'[t] /\ stack' = stack
    BY <1>1, <1>4 DEF SelectSignaled, TypeOK
  <2>3. \A i \in 1..Len(stack'[t]) : FrameWakes(t, i)'
    <3>1. stack'[t][1].pc = "select" /\ Len(stack'[t]) = 1
      BY ZenonT(30), <1>1, <1>3, <2>2
    <3>2. SUFFICES ASSUME NEW i \in 1..Len(stack'[t]) PROVE FrameWakes(t, i)'
      OBVIOUS
    <3>3. stack'[t][i].pc = "select"
      BY <3>1
    <3>4. stack'[t][i].pc \notin {"sendEnter", "sendWait"}
      BY <3>3
    <3> QED
      BY Zenon, <2>2, <3>3, <3>4 DEF FrameWakes
  <2>4. TopWakes(t)'
    BY ZenonT(30), <1>3, <2>2 DEF TopWakes, Top
  <2>5. ThreadWakes(t)'
    BY <2>3, <2>4 DEF ThreadWakes
  <2> QED
    BY SMTT(30), <1>2, <2>1, <2>5, MovesWake
<1>5. CASE SelectIo(t)
  <2>1. Call(t, "select", Frame("handler", None)) /\ fWait_' = fWait_
    BY SMTT(30), <1>5 DEF SelectIo
  <2>2. \A u \in Threads : u # t => stack'[u] = stack[u]
    BY <1>1, <2>1 DEF Call, Push, TypeOK
  <2>3. Moves(t)
    BY Zenon, <1>1, <1>3, <1>5, <2>2 DEF SelectIo, Moves, Touches, TypeOK
  <2>4. Env(t) /\ FrameWakes(t, n)
    BY <1>1, <2>3, MovesEnv DEF ThreadWakes
  <2>5. \A i \in 1..n : i = n => FrameWakes(t, i)'
    <3> DEFINE f == [Top(t) EXCEPT !.pc = "select"]
               g == Frame("handler", None)
    <3>1. f \in Frames /\ f.pc = "select" /\ g \in Frames /\ Push(t, f, g)
      BY SMTT(30), <1>1, <2>1, TopType DEF Frames, Frame, Call
    <3> HIDE DEF f, g
    <3>2. \A i \in 1..n : i = n => stack'[t][i] = f
      BY SMTT(30), <1>1, <3>1, CallerAfter
    <3>3. Work(t)' => signaled'[t] \/ ~fWait_'[t] \/ Waker(t)'
      BY ZenonT(30), <1>1, <1>3, <2>1, <2>4 DEF FrameWakes, Env
    <3> QED
      BY Zenon, <3>1, <3>2, <3>3 DEF FrameWakes
  <2>6. ThreadWakes(t)'
    BY Zenon, <1>1, <1>3, <2>1, <2>4, <2>5, CallWakes
  <2> QED
    BY <1>2, <2>1, <2>3, <2>6, MovesWake
<1>6. CASE SelectReturn(t)
  <2>1. Goto(t, "get") /\ fWait_' = fWait_
    BY <1>6 DEF SelectReturn
  <2>2. \A u \in Threads : u # t => stack'[u] = stack[u]
    BY <1>1, <2>1 DEF Goto, Become, TypeOK
  <2>3. Moves(t)
    BY Zenon, <1>1, <1>3, <1>6, <2>2 DEF SelectReturn, Moves, Touches, TypeOK
  <2>4. ThreadWakes(t)'
    BY Zenon, <1>1, <1>3, <2>1, <2>3, MovesEnv, GotoWakes
  <2> QED
    BY <1>2, <2>1, <2>3, <2>4, MovesWake
<1> QED
  BY <1>4, <1>5, <1>6

\* One turn of the loop of ReceiveSends: it ends with sendlist_ empty.
LEMMA ReceiveNextWake ==
  ASSUME WakeInv, NEW t \in LoopThreads, Top(t).pc \in {"rsPop", "rsWake"},
         ReceiveNext(t), Moves(t), fWait_' = fWait_
  PROVE  HintOK' /\ ThreadWakes(t)'
<1> USE DEF Pcs, BasePcs, UnderPcs, GetPcs, RecvPcs, SendPcs, PostPcs,
            UserPcs, StopPcs
<1>0. t \in Threads
  BY SMTT(30) DEF Threads
<1>1. /\ TypeOK /\ TypeInv /\ FrameOK(t, Top(t), from)
      /\ TopWakes(t) /\ ThreadWakes(t) /\ HintOK /\ Env(t)
  BY SMTT(30), <1>0, TopFacts, MovesEnv DEF WakeInv
<1>2. CASE sendlist_[t] # <<>>
  <2> DEFINE m == Head(sendlist_[t])
             f == Frame("rsRun", m)
             g == Frame("handler", m)
  <2>1. m \in Msgs
    BY <1>1, <1>2 DEF TypeOK
  <2>2. Push(t, f, g) /\ UNCHANGED has_sends_
        /\ sendlist_' = [sendlist_ EXCEPT ![t] = Tail(@)]
    BY SMTT(30), <1>2 DEF ReceiveNext
  <2>3. HintOK'
    BY SMTT(30), <1>1, <1>2, <2>2 DEF HintOK, TypeOK
  <2> HIDE DEF m
  <2>4. /\ f \in Frames /\ f.pc = "rsRun" /\ g \in Frames /\ g.pc = "handler"
    BY <2>1 DEF Frame, Frames
  <2> HIDE DEF f, g
  <2>5. /\ Top(t)' = g
        /\ \A i \in 1..Len(stack[t]) : i = Len(stack[t]) => stack'[t][i] = f
    BY ZenonT(30), <1>0, <1>1, <2>2, <2>4, TopAfter, CallerAfter
  <2>6. TopWakes(t)'
    BY SMTT(30), <2>4, <2>5 DEF TopWakes
  <2>7. \A i \in 1..Len(stack[t]) : i = Len(stack[t]) => FrameWakes(t, i)'
    BY SMTT(30), <2>4, <2>5 DEF FrameWakes
  <2>8. ~Nested(Top(t))
    BY <1>1 DEF Nested, FrameOK
  <2> QED
    BY <1>0, <1>1, <2>2, <2>3, <2>4, <2>6, <2>7, <2>8, PushWakes
<1>3. CASE sendlist_[t] = <<>>
  <2>1. Return(t) /\ UNCHANGED sendlist_
        /\ has_sends_' = [has_sends_ EXCEPT ![t] = FALSE]
    BY SMTT(30), <1>3 DEF ReceiveNext
  <2>2. HintOK'
    BY <1>1, <1>3, <2>1 DEF HintOK, TypeOK
  <2>3. ~Nested(Top(t))
    BY <1>1 DEF Nested, FrameOK
  <2> QED
    BY ZenonT(30), <1>0, <1>1, <1>3, <2>1, <2>2, <2>3, ReturnWakesTop
<1> QED
  BY <1>2, <1>3

\* ReceiveSends.
LEMMA ReceiveWakes ==
  ASSUME WakeInv, NEW t \in Threads,
         ReceiveCheck(t) \/ ReceivePop(t) \/ ReceiveReady(t) \/ ReceiveWake(t)
  PROVE  WakeInv'
<1> USE DEF Pcs, BasePcs, UnderPcs, GetPcs, RecvPcs, SendPcs, PostPcs,
            UserPcs, StopPcs
<1>1. /\ TypeOK /\ TypeInv /\ FrameOK(t, Top(t), from)
      /\ TopWakes(t) /\ ThreadWakes(t) /\ HintOK
  BY TopFacts DEF WakeInv
<1>2. TypeInv' /\ fWait_' = fWait_
  BY ZenonT(30), <1>1, ReceiveType DEF ReceiveCheck, ReceivePop, ReceiveReady, ReceiveWake
<1>3. Top(t).pc \in RecvPcs /\ ~Nested(Top(t))
  BY <1>1 DEF ReceiveCheck, ReceivePop, ReceiveReady, ReceiveWake, At, Nested,
              FrameOK
<1>4. CASE ReceiveCheck(t)
  <2>1. Top(t).pc = "rsCheck"
    BY <1>4 DEF ReceiveCheck, At
  <2>2. \A u \in Threads : u # t => stack'[u] = stack[u]
    BY <1>1, <1>4 DEF ReceiveCheck, Goto, Become, Return, TypeOK
  <2>3. Moves(t) /\ HintOK'
    BY Zenon, <1>1, <1>4, <2>1, <2>2
       DEF ReceiveCheck, Moves, Touches, TypeOK, HintOK
  <2>4. Env(t)
    BY <1>1, <2>3, MovesEnv
  <2>5. CASE t \in LoopThreads /\ has_sends_[t]
    <3>1. Goto(t, "rsPop")
      BY SMTT(30), <1>4, <2>5 DEF ReceiveCheck
    <3>2. ThreadWakes(t)'
      BY SMTT(30), <1>1, <1>2, <2>1, <2>4, <3>1, GotoWakes
    <3> QED
      BY <1>2, <2>3, <3>2, MovesWake
  <2>6. CASE ~(t \in LoopThreads /\ has_sends_[t])
    <3>1. Return(t) /\ UNCHANGED sendlist_
      BY SMTT(30), <1>4, <2>6 DEF ReceiveCheck
    <3>2. t \in LoopThreads => sendlist_'[t] = <<>>
      BY <1>1, <2>6, <3>1 DEF HintOK
    <3>3. ThreadWakes(t)'
      BY Zenon, <1>1, <1>2, <1>3, <2>1, <2>4, <3>1, <3>2, ReturnWakesTop
    <3> QED
      BY <1>2, <2>3, <3>3, MovesWake
  <2> QED
    BY <2>5, <2>6
<1>5. CASE ReceivePop(t)
  <2>1. Top(t).pc = "rsPop" /\ t \in LoopThreads /\ ReceiveNext(t)
    BY <1>1, <1>5 DEF ReceivePop, At, FrameOK
  <2>2. \A u \in Threads : u # t => stack'[u] = stack[u]
    BY SMTT(30), <1>1, <2>1 DEF ReceiveNext, Push, Return, TypeOK
  <2>3. \A u \in LoopThreads : sendlist_[u] = <<>> => sendlist_'[u] = <<>>
    BY <1>1, <2>1 DEF ReceiveNext, TypeOK
  <2>4. Moves(t)
    BY Zenon, <1>1, <1>5, <2>1, <2>2, <2>3 DEF ReceivePop, Moves, Touches, TypeOK
  <2> QED
    BY SMTT(30), <1>2, <2>1, <2>4, ReceiveNextWake, MovesWake
<1>6. CASE ReceiveReady(t)
  <2>0. Top(t).arg \in Msgs
    BY SMTT(30), <1>1, <1>6 DEF ReceiveReady, At, FrameOK
  <2>1. PICK m \in Msgs : Top(t).pc = "rsRun" /\ t \in LoopThreads /\ m = Top(t).arg
    BY <1>1, <1>6, <2>0 DEF ReceiveReady, At, FrameOK
  <2>2. \A u \in Threads : u # t => stack'[u] = stack[u]
    BY <1>1, <1>6 DEF ReceiveReady, Goto, Become, TypeOK
  <2>3. Finisher(m)'
    <3> DEFINE f == [Top(t) EXCEPT !.pc = "rsWake"]
    <3>1. f \in Frames /\ f.pc = "rsWake" /\ f.arg = m /\ Become(t, f)
      BY SMTT(30), <1>1, <1>6, <2>1, TopType DEF Frames, ReceiveReady, Goto
    <3> HIDE DEF f
    <3>2. Top(t)' = f
      BY SMTT(30), <1>1, <3>1, TopAfter
    <3>3. \E u \in LoopThreads : Top(u)'.pc = "rsWake" /\ Top(u)'.arg = m
      BY <2>1, <3>1, <3>2
    <3> QED
      BY <3>3 DEF Finisher, At
  <2>4. Moves(t)
    <3>1. \A k \in Msgs : k \in ready' => k \in ready \/ k = m
      BY SMTT(30), <1>6, <2>1 DEF ReceiveReady
    <3> QED
      BY ZenonT(30), <1>1, <1>6, <2>1, <2>2, <2>3, <3>1
         DEF ReceiveReady, Moves, Touches, TypeOK
  <2>5. ThreadWakes(t)'
    BY <1>1, <1>2, <1>6, <2>1, <2>4, MovesEnv, GotoWakes DEF ReceiveReady
  <2>6. HintOK'
    BY Zenon, <1>1, <1>6 DEF HintOK, ReceiveReady
  <2> QED
    BY SMTT(30), <1>2, <2>4, <2>5, <2>6, MovesWake
<1>7. CASE ReceiveWake(t)
  <2>1. Top(t).pc = "rsWake" /\ t \in LoopThreads /\ ReceiveNext(t)
    BY SMTT(30), <1>1, <1>7 DEF ReceiveWake, At, FrameOK
  <2>2. \A u \in Threads : u # t => stack'[u] = stack[u]
    BY SMTT(30), <1>1, <2>1 DEF ReceiveNext, Push, Return, TypeOK
  <2>3. \A u \in LoopThreads : sendlist_[u] = <<>> => sendlist_'[u] = <<>>
    BY <1>1, <2>1 DEF ReceiveNext, TypeOK
  <2>4. Moves(t)
    BY Zenon, <1>1, <1>7, <2>1, <2>2, <2>3 DEF ReceiveWake, Moves, Touches, TypeOK
  <2> QED
    BY SMTT(30), <1>2, <2>1, <2>4, ReceiveNextWake, MovesWake
<1> QED
  BY SMTT(30), <1>4, <1>5, <1>6, <1>7

\* The start of a Send or a Post.
LEMMA BeginWake ==
  ASSUME WakeInv, NEW t \in Threads, NEW m \in Msgs, Send(t, m) \/ Post(t, m)
  PROVE  WakeInv'
<1> USE DEF Pcs, GetPcs, RecvPcs, SendPcs, PostPcs, UserPcs, StopPcs
<1>1. TypeOK /\ TypeInv /\ ThreadWakes(t)
  BY TopFacts
<1>2. PICK k \in {"sendStop", "postStop"} : BeginCall(t, m, k)
  BY DEF Send, Post
<1>3. PICK l \in {"handler", "native"} : l = Top(t).pc
  BY SMTT(30), <1>2 DEF BeginCall
<1>4. Call(t, l, Frame(k, m)) /\ fWait_' = fWait_
  BY SMTT(30), <1>2, <1>3 DEF BeginCall
<1>5. \A u \in Threads : u # t => stack'[u] = stack[u]
  BY <1>1, <1>4 DEF Call, Push, TypeOK
<1>6. Moves(t) /\ HintOK'
  BY ZenonT(30), <1>1, <1>2, <1>3, <1>5
     DEF BeginCall, Moves, Touches, TypeOK, HintOK, WakeInv
<1>7. ThreadWakes(t)'
  BY <1>1, <1>3, <1>4, <1>6, MovesEnv, CallWakes
<1> QED
  BY <1>1, <1>4, <1>6, <1>7, BeginType, MovesWake

\* A native thread at the start of Send has no wait loop below it: it can not
\* have been called from ReceiveSends.
LEMMA NativeCalm ==
  ASSUME TypeInv, NEW t \in Threads \ LoopThreads, Top(t).pc = "sendStop",
         NEW i \in 1..Len(stack[t])
  PROVE  stack[t][i].pc \notin {"select", "sendEnter", "sendWait"}
<1> DEFINE n == Len(stack[t])
<1>1. StackOK /\ n \in Nat \ {0} /\ Top(t) = stack[t][n]
  BY SMTT(30), TopType DEF TypeInv, Top
<1>2. \A j \in 1..n : FrameOK(t, stack[t][j], from) /\ ShapeOK(stack[t], j)
  BY <1>1 DEF StackOK
<1> HIDE DEF n
<1>3. CASE i = n
  BY SMTT(30), <1>1, <1>3
<1>4. CASE i # n
  <2>1. i \in 1..n /\ i < n /\ i + 1 \in 1..n
    BY SMTT(30), <1>1, <1>4 DEF n
  <2>2. /\ stack[t][i].pc \in UnderPcs
        /\ stack[t][i].pc = "sendEnter" => stack[t][i + 1].pc \in RecvPcs
    BY SMTT(30), <1>2, <2>1 DEF ShapeOK, n
  <2>3. stack[t][i + 1].pc \notin RecvPcs
    <3>1. i + 1 < n => stack[t][i + 1].pc \in UnderPcs
      BY SMTT(30), <1>2, <2>1 DEF ShapeOK, n
    <3>2. stack[t][i + 1].pc \notin {"rsPop", "rsRun", "rsWake"}
      BY <1>2, <2>1 DEF FrameOK
    <3>3. i + 1 = n \/ i + 1 < n
      BY SMTT(30), <1>1, <2>1
    <3> QED
      BY SMTT(30), <1>1, <3>1, <3>2, <3>3 DEF UnderPcs, RecvPcs
  <2>4. stack[t][i].pc # "select"
    BY <1>2, <2>1 DEF FrameOK, GetPcs
  <2> QED
    BY <2>2, <2>3, <2>4 DEF UnderPcs
<1> QED
  BY <1>3, <1>4

\* Send, up to its wait loop.
LEMMA SendWakeInv ==
  ASSUME WakeInv, NEW t \in Threads,
         SendStopCheck(t) \/ SendPush(t) \/ SendWake(t)
  PROVE  WakeInv'
<1> USE DEF Pcs, BasePcs, UnderPcs, GetPcs, RecvPcs, SendPcs, PostPcs,
            UserPcs, StopPcs
<1>1. /\ TypeOK /\ TypeInv /\ FrameOK(t, Top(t), from) /\ ThreadWakes(t) /\ HintOK
  BY ZenonT(30), TopFacts DEF WakeInv
<1>2. TypeInv' /\ fWait_' = fWait_
  BY <1>1, SendType DEF SendStopCheck, SendPush, SendWake
<1>3. Top(t).arg \in Msgs /\ Dest(Top(t).arg) \in LoopThreads
  BY ZenonT(30), <1>1, ThreadAssumption
     DEF SendStopCheck, SendPush, SendWake, FrameOK, At, Dest
<1>4. \A u \in Threads : u # t => stack'[u] = stack[u]
  BY <1>1 DEF SendStopCheck, SendPush, SendWake, Goto, Become, Return, TypeOK
<1>5. CASE SendStopCheck(t)
  <2>1. Top(t).pc = "sendStop" /\ ~Nested(Top(t))
    BY ZenonT(30), <1>1, <1>5 DEF SendStopCheck, At, Nested, FrameOK
  <2>2. Return(t) \/ (Dest(Top(t).arg) = t /\ Goto(t, "handler"))
        \/ Goto(t, "sendPush")
    BY <1>5 DEF SendStopCheck
  <2>3. HintOK'
    BY Zenon, <1>1, <1>5 DEF SendStopCheck, HintOK
  <2>4. CASE t \in LoopThreads
    <3>1. Moves(t)
      BY Zenon, <1>1, <1>4, <1>5, <2>1, <2>4 DEF SendStopCheck, Moves, Touches, TypeOK
    <3>2. ThreadWakes(t)'
      BY Zenon, <1>1, <1>2, <2>1, <2>2, <3>1, MovesEnv, GotoWakes, ReturnWakesTop
    <3> QED
      BY <1>2, <2>3, <3>1, <3>2, MovesWake
  <2>5. CASE t \notin LoopThreads
    <3>1. Touches(t)
      BY Zenon, <1>1, <1>4, <1>5, <2>1, <2>5 DEF SendStopCheck, Touches, TypeOK
    <3>2. Return(t) \/ Goto(t, "sendPush")
      BY SMTT(30), <1>3, <2>2, <2>5
    <3>3. \A i \in 1..Len(stack'[t]) :
            stack'[t][i].pc \notin {"select", "sendEnter", "sendWait"}
      <4>1. \A i \in 1..Len(stack[t]) :
              stack[t][i].pc \notin {"select", "sendEnter", "sendWait"}
        BY Zenon, <1>1, <2>1, <2>5, NativeCalm
      <4>2. CASE Return(t)
        <5>1. Len(stack[t]) # 1 /\ Len(stack[t]) \in Nat \ {0}
          BY SMTT(30), <1>1, <2>1, Inner, TopType
        <5>2. /\ Len(stack'[t]) = Len(stack[t]) - 1
              /\ \A i \in 1..Len(stack[t]) - 1 : stack'[t][i] = stack[t][i]
          BY <1>1, <4>2, <5>1, ReturnStack
        <5>3. \A i \in 1..Len(stack[t]) - 1 : i \in 1..Len(stack[t])
          BY <5>1
        <5> QED
          BY ZenonT(30), <4>1, <5>2, <5>3
      <4>3. CASE Goto(t, "sendPush")
        <5> DEFINE f == [Top(t) EXCEPT !.pc = "sendPush"]
        <5>1. f \in Frames /\ f.pc = "sendPush" /\ Become(t, f)
          BY <1>1, <4>3, TopType DEF Frames, Goto
        <5> HIDE DEF f
        <5>2. /\ Len(stack'[t]) = Len(stack[t])
              /\ \A i \in 1..Len(stack[t]) :
                   stack'[t][i] = IF i = Len(stack[t]) THEN f ELSE stack[t][i]
          BY Zenon, <1>1, <5>1, BecomeStack
        <5>3. f.pc \notin {"select", "sendEnter", "sendWait"}
          BY <5>1
        <5> QED
          BY Zenon, <4>1, <5>2, <5>3
      <4> QED
        BY <3>2, <4>2, <4>3
    <3>4. ThreadWakes(t)'
      BY Zenon, <2>5, <3>3 DEF ThreadWakes, TopWakes, FrameWakes
    <3> QED
      BY <1>2, <2>3, <3>1, <3>4, MovesWake
  <2> QED
    BY <2>4, <2>5
<1>6. CASE SendPush(t)
  <2>1. Top(t).pc = "sendPush" /\ Goto(t, "sendWake")
    BY <1>6 DEF SendPush, At
  <2>2. PICK d \in LoopThreads : d = Dest(Top(t).arg)
    BY <1>3
  <2>3. Waker(d)'
    <3> DEFINE f == [Top(t) EXCEPT !.pc = "sendWake"]
    <3>1. f \in Frames /\ f.pc = "sendWake" /\ f.arg = Top(t).arg /\ Become(t, f)
      BY <1>1, <2>1, TopType DEF Frames, Goto
    <3> HIDE DEF f
    <3>2. Top(t)' = f
      BY ZenonT(30), <1>1, <3>1, TopAfter
    <3> QED
      BY Zenon, <2>2, <3>1, <3>2 DEF Waker, At, Dest
  <2>4. /\ HintOK'
        /\ \A u \in LoopThreads : u # d => sendlist_'[u] = sendlist_[u]
    BY <1>1, <1>6, <2>2 DEF SendPush, HintOK, TypeOK
  <2>5. Moves(t)
    BY ZenonT(30), <1>1, <1>4, <1>6, <2>1, <2>3, <2>4 DEF SendPush, Moves, Touches, TypeOK
  <2>6. ThreadWakes(t)'
    BY <1>1, <1>2, <2>1, <2>5, MovesEnv, GotoWakes
  <2> QED
    BY ZenonT(30), <1>2, <2>4, <2>5, <2>6, MovesWake
<1>7. CASE SendWake(t)
  <2>1. Top(t).pc = "sendWake" /\ Goto(t, "sendTest")
    BY <1>7 DEF SendWake, At
  <2>2. Moves(t) /\ HintOK'
    BY ZenonT(30), <1>1, <1>3, <1>4, <1>7, <2>1
       DEF SendWake, Moves, Touches, TypeOK, HintOK, Threads
  <2>3. ThreadWakes(t)'
    BY <1>1, <1>2, <2>1, <2>2, MovesEnv, GotoWakes
  <2> QED
    BY SMTT(30), <1>2, <2>2, <2>3, MovesWake
<1> QED
  BY <1>5, <1>6, <1>7

\* The wait loop of Send.
LEMMA SendWaitWake ==
  ASSUME WakeInv, NEW t \in Threads,
         SendTest(t) \/ SendEnterWait(t) \/ SendWaitReturn(t)
  PROVE  WakeInv'
<1> USE DEF Pcs, BasePcs, UnderPcs, GetPcs, RecvPcs, SendPcs, PostPcs,
            UserPcs, StopPcs
<1> DEFINE n == Len(stack[t])
<1>1. /\ TypeOK /\ TypeInv /\ FrameOK(t, Top(t), from)
      /\ TopWakes(t) /\ ThreadWakes(t) /\ Top(t) \in Frames
      /\ n \in 1..n /\ Top(t) = stack[t][n] /\ ~Rewakes(t, n)
  BY Zenon, TopFacts, TopOK
<1>2. TypeInv' /\ HintOK'
  BY Zenon, <1>1, SendWaitType
     DEF SendTest, SendEnterWait, SendWaitReturn, WakeInv, HintOK
<1>3. \A u \in Threads : u # t => stack'[u] = stack[u] /\ fWait_'[u] = fWait_[u]
  BY <1>1 DEF SendTest, SendEnterWait, SendWaitReturn, Call, Push, Goto, Become,
              Return, TypeOK
<1>4. CASE SendTest(t)
  <2>1. Top(t).pc = "sendTest" /\ fWait_' = fWait_ /\ ready' = ready
    BY <1>4 DEF SendTest, At
  <2>2. Moves(t)
    BY Zenon, <1>1, <1>3, <1>4, <2>1 DEF SendTest, Moves, Touches, TypeOK
  <2>3. CASE Top(t).arg \in ready
    <3>1. Return(t) /\ (Nested(Top(t)) => signaled'[t])
      BY <1>1, <1>4, <2>1, <2>3 DEF SendTest, Nested, TypeOK
    <3>2. ThreadWakes(t)'
      BY Zenon, <1>1, <2>1, <2>2, <3>1, MovesEnv, ReturnWakesTop
    <3> QED
      BY ZenonT(30), <1>2, <1>3, <2>2, <3>2, MovesWake
  <2>4. CASE Top(t).arg \notin ready
    <3>1. Call(t, "sendEnter", Frame("rsCheck", None))
      BY <1>4, <2>4 DEF SendTest
    <3>2. \A i \in 1..n : i = n => FrameWakes(t, i)'
      <4> DEFINE f == [Top(t) EXCEPT !.pc = "sendEnter"]
                 g == Frame("rsCheck", None)
      <4>1. /\ f \in Frames /\ f.pc = "sendEnter" /\ f.arg = Top(t).arg
            /\ g \in Frames /\ Push(t, f, g)
        BY <1>1, <3>1 DEF Frames, Frame, Call
      <4> HIDE DEF f, g
      <4>2. \A i \in 1..n : i = n => stack'[t][i] = f
        BY ZenonT(30), <1>1, <4>1, CallerAfter
      <4> QED
        BY Zenon, <2>1, <2>4, <4>1, <4>2 DEF FrameWakes
    <3>3. ThreadWakes(t)'
      BY Zenon, <1>1, <2>1, <2>2, <3>1, <3>2, MovesEnv, CallWakes
    <3> QED
      BY Zenon, <1>2, <1>3, <2>2, <3>3, MovesWake
  <2> QED
    BY SMTT(30), <2>3, <2>4
<1>5. CASE SendEnterWait(t)
  <2>1. Top(t).pc = "sendEnter" /\ Goto(t, "sendWait")
        /\ UNCHANGED <<sendlist_, ready, signaled>>
    BY <1>5 DEF SendEnterWait, At
  <2>2. Moves(t)
    BY Zenon, <1>1, <1>3, <1>5, <2>1 DEF SendEnterWait, Moves, Touches, TypeOK
  <2>3. Env(t) /\ FrameWakes(t, n)
    BY <1>1, <2>2, MovesEnv DEF ThreadWakes
  <2> DEFINE f == [Top(t) EXCEPT !.pc = "sendWait"]
  <2>4. f \in Frames /\ f.pc = "sendWait" /\ f.arg = Top(t).arg /\ Become(t, f)
    BY <1>1, <2>1 DEF Frames, Goto
  <2> HIDE DEF f
  <2>5. Top(t)' = f /\ \A i \in 1..n : i = n => stack'[t][i] = f
    BY Zenon, <1>1, <2>4, TopAfter, BecomeStack
  <2>6. TopWakes(t)'
    BY Zenon, <1>1, <2>1, <2>3, <2>4, <2>5 DEF TopWakes, Env
  <2>7. \A i \in 1..n : i = n => FrameWakes(t, i)'
    <3>1. \A m \in ready' : f.arg = m => signaled'[t] \/ Finisher(m)'
      <4> SUFFICES ASSUME NEW m \in ready', f.arg = m
                   PROVE  signaled'[t] \/ Finisher(m)'
        OBVIOUS
      <4>1. m \in ready /\ m \in Msgs /\ from[m] = t
        BY Zenon, <1>1, <2>1, <2>4 DEF FrameOK
      <4>2. signaled[t] \/ Finisher(m)
        BY Zenon, <1>1, <2>1, <2>3, <2>4, <4>1 DEF FrameWakes
      <4> QED
        BY Zenon, <2>3, <4>1, <4>2 DEF Env
    <3> QED
      BY ZenonT(30), <2>4, <2>5, <3>1 DEF FrameWakes
  <2>8. ThreadWakes(t)'
    BY Zenon, <1>1, <2>1, <2>3, <2>6, <2>7, GotoWakes
  <2> QED
    BY Zenon, <1>2, <1>3, <2>2, <2>8, MovesWake
<1>6. CASE SendWaitReturn(t)
  <2> DEFINE f == [Top(t) EXCEPT !.pc = "sendTest", !.waited = TRUE]
  <2>1. Top(t).pc = "sendWait" /\ Become(t, f)
    BY <1>6 DEF SendWaitReturn, At
  <2>2. f \in Frames /\ f.pc = "sendTest" /\ f.waited
    BY Zenon, <1>1 DEF Frames
  <2> HIDE DEF f
  <2>3. Touches(t)
    BY <1>1, <1>3, <1>6, <2>1 DEF SendWaitReturn, Touches, TypeOK
  <2>4. /\ Len(stack'[t]) = n /\ Top(t)' = f /\ n \in 1..n
        /\ stack'[t] \in Seq(Frames)
        /\ \A i \in 1..n : i = n => stack'[t][i] = f
    BY ZenonT(30), <1>1, <2>1, <2>2, TopAfter, BecomeStack
  <2>5. TopWakes(t)'
    BY ZenonT(30), <2>2, <2>4 DEF TopWakes
  <2>6. ASSUME NEW i \in 1..n PROVE FrameWakes(t, i)'
    <3>1. CASE i = n
      <4>1. stack'[t][i].pc = "sendTest"
        BY Zenon, <2>2, <2>4, <3>1
      <4> QED
        BY ZenonT(30), <4>1 DEF FrameWakes
    <3>2. CASE i # n
      <4>1. n > i /\ n \in DOMAIN stack'[t] /\ stack'[t][n].waited
        BY SMTT(30), <2>2, <2>4, <3>2
      <4>2. Rewakes(t, i)'
        BY SMTT(30), <4>1 DEF Rewakes
      <4> QED
        BY ZenonT(30), <4>2 DEF FrameWakes
    <3> QED
      BY SMTT(30), <3>1, <3>2
  <2>7. ThreadWakes(t)'
    BY <2>4, <2>5, <2>6 DEF ThreadWakes
  <2> QED
    BY Zenon, <1>2, <1>3, <2>3, <2>7, MovesWake
<1> QED
  BY <1>4, <1>5, <1>6

\* Post, and the return of a handler.
LEMMA PostWake ==
  ASSUME WakeInv, NEW t \in Threads,
         PostStopCheck(t) \/ PostPush(t) \/ HandlerReturn(t)
  PROVE  WakeInv'
<1> USE DEF Pcs, BasePcs, UnderPcs, GetPcs, RecvPcs, SendPcs, PostPcs,
            UserPcs, StopPcs
<1>1. TypeOK /\ TypeInv /\ FrameOK(t, Top(t), from) /\ ThreadWakes(t)
  BY TopFacts
<1>2. /\ TypeInv' /\ HintOK' /\ fWait_' = fWait_
      /\ Top(t).pc \in PostPcs \cup {"handler"} /\ ~Nested(Top(t))
  BY ZenonT(30), <1>1, PostType DEF PostStopCheck, PostPush, HandlerReturn, WakeInv, HintOK,
                        Nested, At, FrameOK
<1>3. \A u \in Threads : u # t => stack'[u] = stack[u]
  BY SMTT(30), <1>1 DEF PostStopCheck, PostPush, HandlerReturn, Goto, Become, Return, TypeOK
<1>4. Goto(t, "postPush") \/ Return(t)
  BY DEF PostStopCheck, PostPush, HandlerReturn
<1>5. Moves(t)
  <2>1. CASE PostStopCheck(t) \/ HandlerReturn(t)
    BY Zenon, <1>1, <1>2, <1>3, <2>1
       DEF PostStopCheck, HandlerReturn, Moves, Touches, TypeOK
  <2>2. CASE PostPush(t)
    <3>1. Dest(Top(t).arg) \in LoopThreads
      BY Zenon, <1>1, <2>2, ThreadAssumption DEF PostPush, At, FrameOK, Dest
    <3> QED
      BY Zenon, <1>1, <1>2, <1>3, <2>2, <3>1 DEF PostPush, Moves, Touches, TypeOK, Threads
  <2> QED
    BY <2>1, <2>2
<1>6. ThreadWakes(t)'
  BY ZenonT(30), <1>1, <1>2, <1>4, <1>5, MovesEnv, GotoWakes, ReturnWakesTop
<1> QED
  BY SMTT(30), <1>2, <1>5, <1>6, MovesWake

\* Clear takes messages off the lists and wakes the senders it releases up.
LEMMA ClearMoves ==
  ASSUME TypeOK, NEW d \in LoopThreads, NEW ms \in SUBSET Msgs, Clear(d, ms)
  PROVE  /\ \A u \in Threads : signaled[u] => signaled'[u]
         /\ \A u \in LoopThreads : sendlist_[u] = <<>> => sendlist_'[u] = <<>>
         /\ \A u \in LoopThreads : msgq_[u] = <<>> => msgq_'[u] = <<>>
         /\ \A m \in Msgs : m \in ready' =>
              m \in ready \/ (from[m] \in Threads => signaled'[from[m]])
<1>1. sendlist_[d] \in Seq(Msgs) /\ msgq_[d] \in Seq(Msgs)
  BY SMTT(30) DEF TypeOK
<1>2. \A u \in LoopThreads : sendlist_[u] = <<>> => sendlist_'[u] = <<>>
  BY SMTT(30), <1>1, RemainderProperties DEF Clear, Erase, TypeOK
<1>3. \A u \in LoopThreads : msgq_[u] = <<>> => msgq_'[u] = <<>>
  BY <1>1, RemainderProperties DEF Clear, Erase, TypeOK
<1>4. \A u \in Threads : signaled[u] => signaled'[u]
  BY Zenon DEF Clear, Release
<1>5. \A m \in Msgs : m \in ready' =>
        m \in ready \/ (from[m] \in Threads => signaled'[from[m]])
  BY ZenonT(30) DEF Clear, Release
<1> QED
  BY <1>2, <1>3, <1>4, <1>5

\* The destructor of a handler.
LEMMA DestroyWake ==
  ASSUME WakeInv, NEW t \in Threads, NEW h \in Handlers, DestroyHandler(t, h)
  PROVE  WakeInv'
<1>1. TypeOK /\ TypeInv /\ FrameOK(t, Top(t), from) /\ ThreadWakes(t) /\ HintOK
  BY TopFacts DEF WakeInv
<1>2. Top(t).pc = "handler" /\ t \in LoopThreads
  BY Zenon, <1>1 DEF DestroyHandler, At, FrameOK
<1>3. /\ Clear(t, {m \in Msgs : HandlerOf[m] = h})
      /\ UNCHANGED <<fStop_, has_sends_, fWait_, stack, from>>
  BY Zenon DEF DestroyHandler
<1>4. Moves(t) /\ HintOK'
  BY Zenon, <1>1, <1>2, <1>3, ClearMoves DEF Moves, Touches, HintOK
<1>5. Env(t) /\ Lists(t)
  BY Zenon, <1>1, <1>4, TouchesEnv DEF Moves
<1>6. ThreadWakes(t)'
  BY ZenonT(30), <1>1, <1>3, <1>5, ThreadKept
<1> QED
  BY <1>1, <1>3, <1>4, <1>6, DestroyType, MovesWake

\* Stop, Join and the destructor of a thread.
LEMMA StopWake ==
  ASSUME WakeInv, NEW t \in Threads,
         (\E u \in LoopThreads : StopThread(t, u)) \/ Join(t) \/ DtorClear(t)
  PROVE  WakeInv'
<1> USE DEF Pcs, BasePcs, UnderPcs, GetPcs, RecvPcs, SendPcs, PostPcs,
            UserPcs, StopPcs
<1>1. TypeOK /\ TypeInv /\ FrameOK(t, Top(t), from) /\ ThreadWakes(t) /\ HintOK
  BY TopFacts DEF WakeInv
<1>2. TypeInv'
  BY SMTT(30), <1>1, StopType
<1>3. ASSUME NEW u \in LoopThreads, StopThread(t, u) PROVE WakeInv'
  <2>1. Top(t).pc = "native" /\ Call(t, "native", Frame("join", u))
        /\ UNCHANGED <<fWait_, sendlist_, has_sends_, msgq_>>
    BY ZenonT(30), <1>3 DEF StopThread, At
  <2>2. \A v \in Threads : v # t => stack'[v] = stack[v]
    BY <1>1, <2>1 DEF Call, Push, TypeOK
  <2>3. Moves(t) /\ HintOK'
    BY ZenonT(30), <1>1, <1>3, <2>1, <2>2
       DEF StopThread, Moves, Touches, TypeOK, HintOK, Threads
  <2>4. ThreadWakes(t)'
    BY <1>1, <2>1, <2>3, MovesEnv, CallWakes
  <2> QED
    BY <1>2, <2>1, <2>3, <2>4, MovesWake
<1>4. CASE Join(t)
  <2>1. Top(t).pc = "join" /\ Goto(t, "dtorClear") /\ fWait_' = fWait_
    BY <1>4 DEF Join, At
  <2>2. \A v \in Threads : v # t => stack'[v] = stack[v]
    BY <1>1, <2>1 DEF Goto, Become, TypeOK
  <2>3. Moves(t) /\ HintOK'
    BY ZenonT(30), <1>1, <1>4, <2>1, <2>2 DEF Join, Moves, Touches, TypeOK, HintOK
  <2>4. ThreadWakes(t)'
    BY <1>1, <2>1, <2>3, MovesEnv, GotoWakes
  <2> QED
    BY SMTT(30), <1>2, <2>1, <2>3, <2>4, MovesWake
<1>5. CASE DtorClear(t)
  <2>1. /\ Top(t).pc = "dtorClear" /\ Top(t).arg \in LoopThreads
        /\ ~Nested(Top(t))
    BY Zenon, <1>1, <1>5 DEF DtorClear, At, FrameOK, Nested
  <2>2. Clear(Top(t).arg, Msgs) /\ Return(t)
        /\ UNCHANGED <<fStop_, has_sends_, fWait_, from>>
    BY <1>5 DEF DtorClear
  <2>3. \A v \in Threads : v # t => stack'[v] = stack[v]
    BY <1>1, <2>2 DEF Return, TypeOK
  <2>4. Moves(t) /\ HintOK'
    BY Zenon, <1>1, <2>1, <2>2, <2>3, ClearMoves DEF Moves, Touches, HintOK
  <2>5. ThreadWakes(t)'
    BY Zenon, <1>1, <2>1, <2>2, <2>4, MovesEnv, ReturnWakesTop
  <2> QED
    BY <1>2, <2>2, <2>4, <2>5, MovesWake
<1> QED
  BY SMTT(30), <1>3, <1>4, <1>5

\* At the start every queue is empty.
LEMMA InitWake == Init => WakeInv
<1> SUFFICES ASSUME Init PROVE WakeInv
  OBVIOUS
<1>1. TypeInv
  BY InitType
<1>2. HintOK
  BY DEF Init, HintOK
<1>3. ASSUME NEW t \in Threads PROVE ThreadWakes(t)
  <2>1. \A i \in 1..Len(stack[t]) : FrameWakes(t, i)
    BY SMTT(30) DEF Init, FrameWakes, Work
  <2>2. TopWakes(t)
    BY SMTT(30) DEF Init, TopWakes
  <2> QED
    BY SMTT(30), <2>1, <2>2 DEF ThreadWakes
<1> QED
  BY <1>1, <1>2, <1>3 DEF WakeInv

\* Every step keeps WakeInv.
LEMMA NextWake == WakeInv /\ [Next]_vars => WakeInv'
<1> SUFFICES ASSUME WakeInv, [Next]_vars PROVE WakeInv'
  OBVIOUS
<1>1. CASE UNCHANGED vars
  <2>1. TypeInv' /\ HintOK'
    BY <1>1, NextType DEF WakeInv, HintOK, vars
  <2>2. ASSUME NEW t \in Threads PROVE ThreadWakes(t)'
    <3>1. ThreadWakes(t)
      BY DEF WakeInv
    <3> QED
      BY Zenon, <1>1, <3>1
         DEF ThreadWakes, TopWakes, FrameWakes, Work, Waker, Finisher, Rewakes, At,
             Top, vars
  <2> QED
    BY SMTT(30), <2>1, <2>2 DEF WakeInv
<1>2. ASSUME NEW t \in Threads, Step(t) PROVE WakeInv'
  BY <1>2, GetWake, SelectWake, ReceiveWakes, SendWakeInv, SendWaitWake, PostWake,
     StopWake DEF Step
<1> QED
  BY <1>1, <1>2, SelectWake, BeginWake, DestroyWake, StopWake DEF Next

\* WakeInv is what the two properties say, and more.
LEMMA WakeInvWakes == WakeInv => GetWakes /\ SendWakes
<1> SUFFICES ASSUME WakeInv PROVE GetWakes /\ SendWakes
  OBVIOUS
<1>1. TypeOK /\ StackOK
  BY DEF WakeInv, TypeInv
<1>2. \A t \in Threads : DOMAIN stack[t] = 1..Len(stack[t])
  BY <1>1 DEF TypeOK
<1>3. \A t \in Threads : \A i \in 1..Len(stack[t]) : FrameWakes(t, i)
  BY DEF WakeInv, ThreadWakes
<1>4. GetWakes
  BY Zenon, <1>2, <1>3 DEF GetWakes, FrameWakes, Work, Threads
<1>5. ASSUME NEW t \in Threads, NEW i \in 1..Len(stack[t]),
             stack[t][i].pc = "sendWait", t \in LoopThreads, sendlist_[t] # <<>>
      PROVE  signaled[t] \/ Waker(t)
  <2>1. Len(stack[t]) \in Nat
    BY SMTT(30), <1>1, TopType
  <2>2. ~(i < Len(stack[t]))
    BY SMTT(30), <1>1, <1>5 DEF StackOK, ShapeOK, UnderPcs
  <2>3. Top(t).pc = "sendWait" /\ TopWakes(t)
    BY SMTT(30), <1>5, <2>1, <2>2 DEF Top, WakeInv, ThreadWakes
  <2> QED
    BY Zenon, <1>5, <2>3 DEF TopWakes
<1>6. SendWakes
  BY <1>2, <1>3, <1>5 DEF SendWakes, FrameWakes
<1> QED
  BY <1>4, <1>6

\* For any number of threads, handlers and messages, and any nesting of Sends
\* in handlers: Get never sleeps while it has a message to dispatch, a send to
\* receive or a Quit to obey, because every WakeUp that a nested wait consumes
\* is given back.
THEOREM NoLostPost == Spec => []GetWakes
<1>1. WakeInv => GetWakes
  BY WakeInvWakes
<1> QED
  BY <1>1, InitWake, NextWake, PTL DEF Spec

\* In the same generality: the wait loop of Send never sleeps after its message
\* was handled or cleared, nor while another thread waits for it to receive a
\* send, which is what keeps two threads that Send to each other from
\* deadlocking.
THEOREM NoLostSend == Spec => []SendWakes
<1>1. WakeInv => SendWakes
  BY WakeInvWakes
<1> QED
  BY <1>1, InitWake, NextWake, PTL DEF Spec
=============================================================================
