---------------------------- MODULE ThreadProofs ----------------------------
(***************************************************************************)
(* Proofs about module Thread, for any threads, handlers and messages: the *)
(* types, and the shape of the call stacks that they rest on.              *)
(***************************************************************************)
EXTENDS Thread, SequenceTheorems, TLAPS

Pcs      == GetPcs \cup RecvPcs \cup SendPcs \cup PostPcs \cup UserPcs
              \cup StopPcs
BasePcs  == GetPcs \cup {"native"}
UnderPcs == {"get", "queue", "select", "rsRun", "handler", "native",
             "sendEnter"}

\* What the argument of a frame is, and where the wait loop of Send has been.
FrameOK(t, f, fr) ==
  /\ f.pc \in SendPcs \cup PostPcs \cup {"rsRun", "rsWake"} => f.arg \in Msgs
  /\ f.pc \in SendPcs => fr[f.arg] = t
  /\ f.pc \in StopPcs => f.arg \in LoopThreads
  /\ f.waited => f.pc \in {"sendTest", "sendEnter", "sendWait"}
  /\ f.pc \in GetPcs \cup {"rsPop", "rsRun", "rsWake", "handler"}
       => t \in LoopThreads

\* Which frames are at the bottom of a stack, and which are below another.
ShapeOK(s, i) ==
  /\ i = 1 <=> s[i].pc \in BasePcs
  /\ i < Len(s) => /\ s[i].pc \in UnderPcs
                   /\ s[i].pc \in {"queue", "sendEnter"}
                        => s[i + 1].pc \in RecvPcs

StackOK ==
  \A t \in Threads : \A i \in 1..Len(stack[t]) :
    FrameOK(t, stack[t][i], from) /\ ShapeOK(stack[t], i)

TypeInv == TypeOK /\ StackOK

-----------------------------------------------------------------------------
(***************************************************************************)
(* The three ways the code changes a call stack.                           *)
(***************************************************************************)
\* A thread is inside of some call.
LEMMA TopType ==
  ASSUME TypeOK, NEW t \in Threads
  PROVE  /\ stack[t] \in Seq(Frames) /\ Len(stack[t]) \in Nat \ {0}
         /\ Top(t) \in Frames
  BY DEF TypeOK, Top

\* The elements of a sequence over S are in S.
LEMMA ElemsType ==
  ASSUME NEW S, NEW q \in Seq(S)
  PROVE  Elems(q) \subseteq S
  BY ElementOfSeq, LenProperties DEF Elems

\* A statement of the call on top: only that frame changes.
LEMMA BecomeStack ==
  ASSUME TypeOK, NEW t \in Threads, NEW f \in Frames, Become(t, f)
  PROVE  /\ stack' \in [Threads -> Seq(Frames) \ {<<>>}]
         /\ \A u \in Threads : u # t => stack'[u] = stack[u]
         /\ Len(stack'[t]) = Len(stack[t])
         /\ \A i \in 1..Len(stack[t]) :
              stack'[t][i] = IF i = Len(stack[t]) THEN f ELSE stack[t][i]
  BY TopType DEF TypeOK, Become

\* A call: the frame on top changes and a frame is added.
LEMMA PushStack ==
  ASSUME TypeOK, NEW t \in Threads, NEW f \in Frames, NEW g \in Frames,
         Push(t, f, g)
  PROVE  /\ stack' \in [Threads -> Seq(Frames) \ {<<>>}]
         /\ \A u \in Threads : u # t => stack'[u] = stack[u]
         /\ Len(stack'[t]) = Len(stack[t]) + 1
         /\ \A i \in 1..Len(stack[t]) + 1 :
              stack'[t][i] = IF i = Len(stack[t]) + 1 THEN g
                             ELSE IF i = Len(stack[t]) THEN f ELSE stack[t][i]
<1>1. stack[t] \in Seq(Frames) /\ Len(stack[t]) \in Nat \ {0}
  BY TopType
<1> DEFINE s == [stack[t] EXCEPT ![Len(stack[t])] = f]
<1>2. /\ s \in Seq(Frames) /\ Len(s) = Len(stack[t])
      /\ \A i \in 1..Len(stack[t]) :
           s[i] = IF i = Len(stack[t]) THEN f ELSE stack[t][i]
  BY <1>1
<1>3. stack' = [stack EXCEPT ![t] = Append(s, g)]
  BY DEF Push
<1> HIDE DEF s
<1>4. /\ Append(s, g) \in Seq(Frames) /\ Append(s, g) # <<>>
      /\ Len(Append(s, g)) = Len(s) + 1
      /\ \A i \in 1..Len(s) + 1 :
           Append(s, g)[i] = IF i = Len(s) + 1 THEN g ELSE s[i]
  BY <1>1, <1>2
<1>5. stack'[t] = Append(s, g)
  BY <1>3 DEF TypeOK
<1>6. stack' \in [Threads -> Seq(Frames) \ {<<>>}]
  BY <1>3, <1>4 DEF TypeOK
<1>7. \A u \in Threads : u # t => stack'[u] = stack[u]
  BY <1>3 DEF TypeOK
<1>8. \A i \in 1..Len(stack[t]) + 1 :
        stack'[t][i] = IF i = Len(stack[t]) + 1 THEN g
                       ELSE IF i = Len(stack[t]) THEN f ELSE stack[t][i]
  BY <1>1, <1>2, <1>4, <1>5
<1> QED
  BY <1>2, <1>4, <1>5, <1>6, <1>7, <1>8

\* SubSeq without the last element.
LEMMA FrontProperties ==
  ASSUME NEW S, NEW q \in Seq(S), Len(q) # 0, Len(q) # 1
  PROVE  LET s == SubSeq(q, 1, Len(q) - 1)
         IN  /\ s \in Seq(S) /\ Len(s) = Len(q) - 1 /\ s # <<>>
             /\ \A i \in 1..Len(q) - 1 : s[i] = q[i]
<1> DEFINE n == Len(q) - 1
           s == SubSeq(q, 1, n)
<1>1. Len(q) \in Nat
  BY LenProperties
<1>2. n \in Nat \ {0}
  BY <1>1
<1>3. \A i \in 1..n : i \in 1..Len(q)
  BY <1>1
<1>4. \A i \in 1..n : q[i] \in S
  BY <1>3, ElementOfSeq
<1> HIDE DEF n
<1>5. /\ s \in Seq(S) /\ Len(s) = n
      /\ \A i \in 1..n : s[i] = q[1 + i - 1]
  BY <1>2, <1>4, SubSeqProperties
<1>6. \A i \in 1..n : s[i] = q[i]
  BY <1>2, <1>5
<1>7. s # <<>>
  BY <1>2, <1>5
<1> QED
  BY <1>5, <1>6, <1>7 DEF n

\* A return: the frame on top is gone.
LEMMA ReturnStack ==
  ASSUME TypeOK, NEW t \in Threads, Len(stack[t]) # 1, Return(t)
  PROVE  /\ stack' \in [Threads -> Seq(Frames) \ {<<>>}]
         /\ \A u \in Threads : u # t => stack'[u] = stack[u]
         /\ Len(stack'[t]) = Len(stack[t]) - 1
         /\ \A i \in 1..Len(stack[t]) - 1 : stack'[t][i] = stack[t][i]
<1>1. stack[t] \in Seq(Frames) /\ Len(stack[t]) \in Nat \ {0}
  BY TopType
<1> DEFINE s == SubSeq(stack[t], 1, Len(stack[t]) - 1)
<1>2. /\ s \in Seq(Frames) /\ Len(s) = Len(stack[t]) - 1 /\ s # <<>>
      /\ \A i \in 1..Len(stack[t]) - 1 : s[i] = stack[t][i]
  BY <1>1, FrontProperties
<1>3. stack' = [stack EXCEPT ![t] = s]
  BY DEF Return
<1> HIDE DEF s
<1>4. stack'[t] = s /\ stack' \in [Threads -> Seq(Frames) \ {<<>>}]
  BY <1>2, <1>3 DEF TypeOK
<1>5. \A u \in Threads : u # t => stack'[u] = stack[u]
  BY <1>3 DEF TypeOK
<1> QED
  BY <1>2, <1>4, <1>5

(***************************************************************************)
(* What they do to StackOK.                                                *)
(***************************************************************************)
\* The sender of a message does not change once the message was sent.
FromKept == \A m \in Msgs : from[m] # None => from'[m] = from[m]

\* A statement keeps the stacks well formed.
LEMMA BecomeOK ==
  ASSUME TypeInv, NEW t \in Threads, NEW f \in Frames, Become(t, f), FromKept,
         FrameOK(t, f, from'), f.pc \in BasePcs <=> Top(t).pc \in BasePcs,
         Top(t).pc \in RecvPcs => f.pc \in RecvPcs
  PROVE  StackOK'
<1>1. TypeOK /\ StackOK
  BY DEF TypeInv
<1>2. SUFFICES ASSUME NEW u \in Threads, NEW i \in 1..Len(stack'[u])
               PROVE  FrameOK(u, stack'[u][i], from') /\ ShapeOK(stack'[u], i)
  BY DEF StackOK
<1>3. CASE u # t
  <2>1. stack'[u] = stack[u]
    BY <1>1, <1>3, BecomeStack
  <2>2. FrameOK(u, stack[u][i], from) /\ ShapeOK(stack[u], i)
    BY SMTT(30), <1>1, <1>2, <2>1 DEF StackOK
  <2>3. FrameOK(u, stack'[u][i], from')
    BY <2>1, <2>2, ThreadAssumption DEF FrameOK, FromKept
  <2>4. ShapeOK(stack'[u], i)
    BY <2>1, <2>2 DEF ShapeOK
  <2> QED
    BY <2>3, <2>4
<1>4. CASE u = t
  <2>1. /\ Len(stack'[t]) = Len(stack[t]) /\ Len(stack[t]) \in Nat \ {0}
        /\ \A k \in 1..Len(stack[t]) :
             stack'[t][k] = IF k = Len(stack[t]) THEN f ELSE stack[t][k]
    BY <1>1, BecomeStack, TopType
  <2>2. \A k \in 1..Len(stack[t]) :
          FrameOK(t, stack[t][k], from) /\ ShapeOK(stack[t], k)
    BY SMTT(30), <1>1 DEF StackOK
  <2>3. FrameOK(t, stack'[t][i], from')
    BY SMTT(30), <1>2, <1>4, <2>1, <2>2, ThreadAssumption DEF FrameOK, FromKept
  <2>4. i = 1 <=> stack'[t][i].pc \in BasePcs
    BY <1>2, <1>4, <2>1, <2>2 DEF ShapeOK, Top
  <2>5. ASSUME i < Len(stack[t])
        PROVE  /\ stack'[t][i].pc \in UnderPcs
               /\ stack'[t][i].pc \in {"queue", "sendEnter"}
                    => stack'[t][i + 1].pc \in RecvPcs
    <3>1. stack'[t][i] = stack[t][i] /\ i + 1 \in 1..Len(stack[t])
      BY <1>2, <1>4, <2>1, <2>5
    <3>2. CASE i + 1 = Len(stack[t])
      BY <1>2, <1>4, <2>1, <2>2, <2>5, <3>1, <3>2 DEF ShapeOK, Top
    <3>3. CASE i + 1 # Len(stack[t])
      BY <1>2, <1>4, <2>1, <2>2, <2>5, <3>1, <3>3 DEF ShapeOK
    <3> QED
      BY <3>2, <3>3
  <2>6. ShapeOK(stack'[t], i)
    BY <2>1, <2>4, <2>5 DEF ShapeOK
  <2> QED
    BY <1>4, <2>3, <2>6
<1> QED
  BY <1>3, <1>4

\* A call keeps the stacks well formed.
LEMMA PushOK ==
  ASSUME TypeInv, NEW t \in Threads, NEW f \in Frames, NEW g \in Frames,
         Push(t, f, g), FromKept, FrameOK(t, f, from'), FrameOK(t, g, from'),
         f.pc \in BasePcs <=> Top(t).pc \in BasePcs,
         Top(t).pc \in RecvPcs => f.pc \in RecvPcs,
         f.pc \in UnderPcs, g.pc \notin BasePcs,
         f.pc \in {"queue", "sendEnter"} => g.pc \in RecvPcs
  PROVE  StackOK'
<1>1. TypeOK /\ StackOK
  BY DEF TypeInv
<1>2. SUFFICES ASSUME NEW u \in Threads, NEW i \in 1..Len(stack'[u])
               PROVE  FrameOK(u, stack'[u][i], from') /\ ShapeOK(stack'[u], i)
  BY DEF StackOK
<1>3. CASE u # t
  <2>1. stack'[u] = stack[u]
    BY <1>1, <1>3, PushStack
  <2>2. FrameOK(u, stack[u][i], from) /\ ShapeOK(stack[u], i)
    BY SMTT(30), <1>1, <1>2, <2>1 DEF StackOK
  <2>3. FrameOK(u, stack'[u][i], from')
    BY <2>1, <2>2, ThreadAssumption DEF FrameOK, FromKept
  <2>4. ShapeOK(stack'[u], i)
    BY <2>1, <2>2 DEF ShapeOK
  <2> QED
    BY <2>3, <2>4
<1>4. CASE u = t
  <2> DEFINE n == Len(stack[t])
  <2>1. /\ Len(stack'[t]) = n + 1 /\ n \in Nat \ {0}
        /\ \A k \in 1..n + 1 : stack'[t][k] = IF k = n + 1 THEN g
                                 ELSE IF k = n THEN f ELSE stack[t][k]
    BY <1>1, PushStack, TopType
  <2>2. \A k \in 1..n : FrameOK(t, stack[t][k], from) /\ ShapeOK(stack[t], k)
    BY <1>1 DEF StackOK
  <2>3. Top(t) = stack[t][n]
    BY DEF Top
  <2>4. i \in 1..n + 1
    BY <1>2, <1>4, <2>1
  <2> HIDE DEF n
  <2>5. CASE i = n + 1
    <3>1. stack'[t][i] = g
      BY <2>1, <2>4, <2>5
    <3>2. ShapeOK(stack'[t], i)
      BY <2>1, <2>5, <3>1 DEF ShapeOK
    <3> QED
      BY <1>4, <3>1, <3>2 DEF FrameOK
  <2>6. CASE i = n
    <3>1. stack'[t][i] = f /\ stack'[t][i + 1] = g
      BY SMTT(30), <2>1, <2>4, <2>6
    <3>2. ShapeOK(stack[t], n)
      BY <2>1, <2>2
    <3>3. ShapeOK(stack'[t], i)
      BY <2>1, <2>3, <2>6, <3>1, <3>2 DEF ShapeOK
    <3> QED
      BY <1>4, <3>1, <3>3 DEF FrameOK
  <2>7. CASE i # n /\ i # n + 1
    <3>1. i \in 1..n /\ i < n /\ i + 1 \in 1..n
      BY <2>1, <2>4, <2>7
    <3>2. /\ stack'[t][i] = stack[t][i]
          /\ stack'[t][i + 1] = IF i + 1 = n THEN f ELSE stack[t][i + 1]
      BY <2>1, <2>4, <2>7, <3>1
    <3>3. FrameOK(t, stack[t][i], from) /\ ShapeOK(stack[t], i)
      BY SMTT(30), <2>2, <3>1
    <3>4. FrameOK(t, stack'[t][i], from')
      BY SMTT(30), <3>2, <3>3, ThreadAssumption DEF FrameOK, FromKept
    <3>5. ShapeOK(stack'[t], i)
      BY <2>1, <2>3, <3>1, <3>2, <3>3 DEF ShapeOK, n
    <3> QED
      BY SMTT(30), <1>4, <3>4, <3>5
  <2> QED
    BY <2>5, <2>6, <2>7
<1> QED
  BY <1>3, <1>4

\* A call that is not the outermost one may return.
LEMMA Inner ==
  ASSUME TypeInv, NEW t \in Threads, Top(t).pc \notin BasePcs
  PROVE  Len(stack[t]) # 1
<1>1. /\ StackOK /\ Len(stack[t]) \in Nat \ {0}
  BY TopType DEF TypeInv
<1>2. Len(stack[t]) \in 1..Len(stack[t])
  BY <1>1
<1>3. ShapeOK(stack[t], Len(stack[t]))
  BY <1>1, <1>2 DEF StackOK
<1> QED
  BY <1>1, <1>3 DEF ShapeOK, Top

\* A return keeps the stacks well formed.
LEMMA ReturnOK ==
  ASSUME TypeInv, NEW t \in Threads, Top(t).pc \notin BasePcs, Return(t),
         FromKept
  PROVE  StackOK'
<1>1. TypeOK /\ StackOK /\ Len(stack[t]) # 1
  BY Inner DEF TypeInv
<1>2. SUFFICES ASSUME NEW u \in Threads, NEW i \in 1..Len(stack'[u])
               PROVE  FrameOK(u, stack'[u][i], from') /\ ShapeOK(stack'[u], i)
  BY DEF StackOK
<1>3. i \in 1..Len(stack[u]) /\ stack'[u][i] = stack[u][i]
  BY SMTT(30), <1>1, <1>2, ReturnStack, TopType
<1>4. FrameOK(u, stack[u][i], from) /\ ShapeOK(stack[u], i)
  BY <1>1, <1>3 DEF StackOK
<1>5. FrameOK(u, stack'[u][i], from')
  BY <1>3, <1>4, ThreadAssumption DEF FrameOK, FromKept
<1>6. i < Len(stack'[u]) =>
        i < Len(stack[u]) /\ stack'[u][i + 1] = stack[u][i + 1]
  BY <1>1, <1>2, ReturnStack, TopType
<1>7. ShapeOK(stack'[u], i)
  BY SMTT(30), <1>3, <1>4, <1>6 DEF ShapeOK
<1> QED
  BY <1>5, <1>7

\* A frame of thread t at p may go on at l.
Keeps(t, p, l) ==
  /\ l \in SendPcs => p \in SendPcs
  /\ l \in PostPcs => p \in PostPcs
  /\ l \in StopPcs => p \in StopPcs
  /\ l \in {"rsRun", "rsWake"} => p \in {"rsRun", "rsWake"}
  /\ p \in {"sendTest", "sendEnter", "sendWait"}
       => l \in {"sendTest", "sendEnter", "sendWait"}
  /\ l \in GetPcs \cup {"rsPop", "rsRun", "rsWake", "handler"}
       => t \in LoopThreads
  /\ l \in BasePcs <=> p \in BasePcs
  /\ p \in RecvPcs => l \in RecvPcs

\* A call of thread t may start at k with argument x.
Fits(t, k, x, fr) ==
  /\ k \in SendPcs \cup PostPcs \cup {"rsRun", "rsWake"} => x \in Msgs
  /\ k \in SendPcs => fr[x] = t
  /\ k \in StopPcs => x \in LoopThreads
  /\ k \in {"rsPop", "rsRun", "rsWake", "handler"} => t \in LoopThreads
  /\ k \notin BasePcs

\* The frame on top of a stack is well formed.
LEMMA TopOK ==
  ASSUME TypeInv, NEW t \in Threads
  PROVE  /\ FrameOK(t, Top(t), from) /\ Top(t) \in Frames
         /\ Top(t).pc \in Pcs /\ Top(t).arg \in Msgs \cup LoopThreads \cup {None}
         /\ Top(t).waited \in BOOLEAN
<1>1. /\ TypeOK /\ StackOK /\ Len(stack[t]) \in Nat \ {0} /\ Top(t) \in Frames
  BY TopType DEF TypeInv
<1>2. FrameOK(t, Top(t), from)
  BY <1>1 DEF StackOK, Top
<1> QED
  BY <1>1, <1>2 DEF Frames, Pcs

\* The frame on top after a statement.
LEMMA KeepsOK ==
  ASSUME TypeInv, NEW t \in Threads, NEW l \in Pcs, FromKept,
         Keeps(t, Top(t).pc, l)
  PROVE  /\ [Top(t) EXCEPT !.pc = l] \in Frames
         /\ FrameOK(t, [Top(t) EXCEPT !.pc = l], from')
<1>1. /\ FrameOK(t, Top(t), from) /\ Top(t) \in Frames
      /\ Top(t).waited \in BOOLEAN
  BY TopOK
<1> DEFINE f == [Top(t) EXCEPT !.pc = l]
<1>2. f \in Frames /\ f.pc = l /\ f.arg = Top(t).arg /\ f.waited = Top(t).waited
  BY SMTT(30), <1>1 DEF Frames, Pcs
<1> HIDE DEF f
<1>3. f.pc \in SendPcs => from'[f.arg] = t
  BY <1>1, <1>2, ThreadAssumption DEF FrameOK, FromKept, Keeps
<1>4. /\ f.pc \in SendPcs \cup PostPcs \cup {"rsRun", "rsWake"} => f.arg \in Msgs
      /\ f.pc \in StopPcs => f.arg \in LoopThreads
  BY SMTT(30), <1>1, <1>2 DEF FrameOK, Keeps
<1>5. f.waited => f.pc \in {"sendTest", "sendEnter", "sendWait"}
  BY <1>1, <1>2 DEF FrameOK, Keeps
<1>6. FrameOK(t, f, from')
  BY <1>2, <1>3, <1>4, <1>5 DEF FrameOK, Keeps
<1> QED
  BY <1>2, <1>6 DEF f

\* Goto keeps the types and the shape of the stacks.
LEMMA GotoOK ==
  ASSUME TypeInv, NEW t \in Threads, NEW l \in Pcs, Goto(t, l), FromKept,
         Keeps(t, Top(t).pc, l)
  PROVE  StackOK' /\ stack' \in [Threads -> Seq(Frames) \ {<<>>}]
<1> DEFINE f == [Top(t) EXCEPT !.pc = l]
<1>1. TypeOK /\ Top(t) \in Frames
  BY TopType DEF TypeInv
<1>2. f \in Frames /\ f.pc = l /\ FrameOK(t, f, from')
  BY <1>1, KeepsOK DEF Frames
<1>3. Become(t, f)
  BY SMTT(30) DEF Goto
<1> HIDE DEF f
<1> QED
  BY <1>1, <1>2, <1>3, BecomeOK, BecomeStack DEF Keeps

\* Call keeps the types and the shape of the stacks.
LEMMA CallOK ==
  ASSUME TypeInv, NEW t \in Threads, NEW l \in UnderPcs, NEW k \in Pcs,
         NEW x \in Msgs \cup LoopThreads \cup {None},
         Call(t, l, Frame(k, x)), FromKept,
         Keeps(t, Top(t).pc, l), Fits(t, k, x, from'),
         l \in {"queue", "sendEnter"} => k \in RecvPcs
  PROVE  StackOK' /\ stack' \in [Threads -> Seq(Frames) \ {<<>>}]
<1> DEFINE f == [Top(t) EXCEPT !.pc = l]
           g == Frame(k, x)
<1>1. TypeOK /\ Top(t) \in Frames /\ l \in Pcs
  BY TopType
     DEF TypeInv, UnderPcs, Pcs, GetPcs, RecvPcs, UserPcs, SendPcs
<1>2. f \in Frames /\ f.pc = l /\ FrameOK(t, f, from')
  BY <1>1, KeepsOK DEF Frames
<1>3. g \in Frames /\ g.pc = k /\ g.arg = x /\ ~g.waited
  BY DEF Frame, Frames, Pcs
<1>4. Push(t, f, g)
  BY DEF Call
<1> HIDE DEF f, g
<1>5. FrameOK(t, g, from')
  BY <1>3 DEF FrameOK, Fits, BasePcs
<1> QED
  BY <1>1, <1>2, <1>3, <1>4, <1>5, PushOK, PushStack DEF Keeps, Fits

\* Return, from a call that is not the outermost one.
LEMMA ReturnTypeOK ==
  ASSUME TypeInv, NEW t \in Threads, Top(t).pc \notin BasePcs, Return(t),
         FromKept
  PROVE  StackOK' /\ stack' \in [Threads -> Seq(Frames) \ {<<>>}]
  BY ReturnOK, ReturnStack, Inner DEF TypeInv

-----------------------------------------------------------------------------
(***************************************************************************)
(* Every action keeps the types and the shape of the stacks.               *)
(***************************************************************************)
\* Get, up to its wait.
LEMMA GetType ==
  ASSUME TypeInv, NEW t \in Threads,
         GetReceiveSends(t) \/ GetQueue(t) \/ GetStopCheck(t)
  PROVE  TypeInv'
<1> USE DEF Pcs, BasePcs, UnderPcs, GetPcs, RecvPcs, SendPcs, PostPcs,
            UserPcs, StopPcs
<1>1. TypeOK /\ FrameOK(t, Top(t), from)
  BY TopOK DEF TypeInv
<1>2. FromKept
  BY DEF GetReceiveSends, GetQueue, GetStopCheck, FromKept
<1>3. CASE GetReceiveSends(t)
  <2>1. Top(t).pc = "get" /\ t \in LoopThreads
    BY <1>1, <1>3 DEF GetReceiveSends, At, FrameOK
  <2>2. Keeps(t, "get", "queue") /\ Fits(t, "rsCheck", None, from')
    BY SMTT(30), <2>1 DEF Keeps, Fits
  <2>3. StackOK' /\ stack' \in [Threads -> Seq(Frames) \ {<<>>}]
    BY <1>2, <1>3, <2>1, <2>2, CallOK DEF GetReceiveSends
  <2> QED
    BY <1>1, <1>3, <2>3 DEF TypeInv, TypeOK, GetReceiveSends
<1>4. CASE GetQueue(t)
  <2>1. Top(t).pc = "queue" /\ t \in LoopThreads
    BY SMTT(30), <1>1, <1>4 DEF GetQueue, At, FrameOK
  <2>2. CASE msgq_[t] # <<>>
    <3>1. Head(msgq_[t]) \in Msgs /\ Tail(msgq_[t]) \in Seq(Msgs)
      BY <1>1, <2>1, <2>2 DEF TypeOK
    <3>2. Keeps(t, "queue", "get") /\ Fits(t, "handler", Head(msgq_[t]), from')
      BY <2>1 DEF Keeps, Fits
    <3>3. Call(t, "get", Frame("handler", Head(msgq_[t])))
      BY SMTT(30), <1>4, <2>2 DEF GetQueue
    <3>4. StackOK' /\ stack' \in [Threads -> Seq(Frames) \ {<<>>}]
      BY <1>2, <2>1, <3>1, <3>2, <3>3, CallOK
    <3>5. msgq_' \in [LoopThreads -> Seq(Msgs)]
      BY ZenonT(30), <1>1, <1>4, <2>2, <3>1 DEF GetQueue, TypeOK
    <3> QED
      BY <1>1, <1>4, <3>4, <3>5 DEF TypeInv, TypeOK, GetQueue
  <2>3. CASE msgq_[t] = <<>>
    <3>1. Keeps(t, "queue", "stopCheck")
      BY SMTT(30), <2>1 DEF Keeps
    <3>2. StackOK' /\ stack' \in [Threads -> Seq(Frames) \ {<<>>}]
      BY <1>2, <1>4, <2>1, <2>3, <3>1, GotoOK DEF GetQueue
    <3> QED
      BY <1>1, <1>4, <2>3, <3>2 DEF TypeInv, TypeOK, GetQueue
  <2> QED
    BY SMTT(30), <2>2, <2>3
<1>5. CASE GetStopCheck(t)
  <2>1. Top(t).pc = "stopCheck" /\ t \in LoopThreads
    BY <1>1, <1>5 DEF GetStopCheck, At, FrameOK
  <2>2. Keeps(t, "stopCheck", "exited") /\ Keeps(t, "stopCheck", "select")
    BY <2>1 DEF Keeps
  <2>3. StackOK' /\ stack' \in [Threads -> Seq(Frames) \ {<<>>}]
    BY <1>2, <1>5, <2>1, <2>2, GotoOK DEF GetStopCheck
  <2> QED
    BY ZenonT(30), <1>1, <1>5, <2>3 DEF TypeInv, TypeOK, GetStopCheck
<1> QED
  BY <1>3, <1>4, <1>5

\* The wait of Get.
LEMMA SelectType ==
  ASSUME TypeInv, NEW t \in Threads,
         SelectSignaled(t) \/ SelectIo(t) \/ SelectReturn(t)
  PROVE  TypeInv'
<1> USE DEF Pcs, BasePcs, UnderPcs, GetPcs, RecvPcs, SendPcs, PostPcs,
            UserPcs, StopPcs
<1>1. TypeOK /\ StackOK /\ FrameOK(t, Top(t), from)
  BY SMTT(30), TopOK DEF TypeInv
<1>2. FromKept /\ Top(t).pc = "select" /\ t \in LoopThreads
  BY <1>1 DEF SelectSignaled, SelectIo, SelectReturn, FromKept, At, FrameOK
<1>3. CASE SelectSignaled(t)
  <2>1. TypeOK'
    BY <1>1, <1>3 DEF TypeOK, SelectSignaled
  <2>2. StackOK'
    BY ZenonT(30), <1>1, <1>3 DEF StackOK, SelectSignaled
  <2> QED
    BY <2>1, <2>2 DEF TypeInv
<1>4. CASE SelectIo(t)
  <2>1. Keeps(t, "select", "select") /\ Fits(t, "handler", None, from')
    BY SMTT(30), <1>2 DEF Keeps, Fits
  <2>2. StackOK' /\ stack' \in [Threads -> Seq(Frames) \ {<<>>}]
    BY <1>2, <1>4, <2>1, CallOK DEF SelectIo
  <2>3. io' \in 0..MaxIo
    BY SMTT(30), <1>1, <1>4, ThreadAssumption DEF SelectIo, TypeOK
  <2> QED
    BY SMTT(30), <1>1, <1>4, <2>2, <2>3 DEF TypeInv, TypeOK, SelectIo
<1>5. CASE SelectReturn(t)
  <2>1. Keeps(t, "select", "get")
    BY <1>2 DEF Keeps
  <2>2. StackOK' /\ stack' \in [Threads -> Seq(Frames) \ {<<>>}]
    BY SMTT(30), <1>2, <1>5, <2>1, GotoOK DEF SelectReturn
  <2> QED
    BY <1>1, <1>5, <2>2 DEF TypeInv, TypeOK, SelectReturn
<1> QED
  BY <1>3, <1>4, <1>5

\* One turn of the loop of ReceiveSends.
LEMMA ReceiveNextType ==
  ASSUME TypeInv, NEW t \in LoopThreads, Top(t).pc \in {"rsPop", "rsWake"},
         ReceiveNext(t), UNCHANGED from
  PROVE  /\ StackOK' /\ stack' \in [Threads -> Seq(Frames) \ {<<>>}]
         /\ sendlist_' \in [LoopThreads -> Seq(Msgs)]
         /\ has_sends_' \in [LoopThreads -> BOOLEAN]
<1> USE DEF Pcs, BasePcs, UnderPcs, GetPcs, RecvPcs, SendPcs, PostPcs,
            UserPcs, StopPcs
<1>1. TypeOK /\ FromKept /\ t \in Threads
  BY DEF TypeInv, FromKept, Threads
<1>2. CASE sendlist_[t] # <<>>
  <2> DEFINE m == Head(sendlist_[t])
             f == Frame("rsRun", m)
             g == Frame("handler", m)
  <2>1. m \in Msgs /\ Tail(sendlist_[t]) \in Seq(Msgs)
    BY <1>1, <1>2 DEF TypeOK
  <2>2. Push(t, f, g) /\ UNCHANGED has_sends_
        /\ sendlist_' = [sendlist_ EXCEPT ![t] = Tail(@)]
    BY SMTT(30), <1>2 DEF ReceiveNext
  <2> HIDE DEF m
  <2>3. /\ f \in Frames /\ f.pc = "rsRun" /\ FrameOK(t, f, from')
        /\ g \in Frames /\ g.pc = "handler" /\ FrameOK(t, g, from')
    BY SMTT(30), <2>1 DEF Frame, Frames, FrameOK
  <2> HIDE DEF f, g
  <2>4. StackOK' /\ stack' \in [Threads -> Seq(Frames) \ {<<>>}]
    BY <1>1, <2>2, <2>3, PushOK, PushStack
  <2> QED
    BY <1>1, <2>1, <2>2, <2>4 DEF TypeOK
<1>3. CASE sendlist_[t] = <<>>
  <2>1. Return(t) /\ UNCHANGED sendlist_
        /\ has_sends_' = [has_sends_ EXCEPT ![t] = FALSE]
    BY <1>3 DEF ReceiveNext
  <2>2. StackOK' /\ stack' \in [Threads -> Seq(Frames) \ {<<>>}]
    BY <1>1, <2>1, ReturnTypeOK
  <2> QED
    BY <1>1, <2>1, <2>2 DEF TypeOK
<1> QED
  BY <1>2, <1>3

\* ReceiveSends.
LEMMA ReceiveType ==
  ASSUME TypeInv, NEW t \in Threads,
         ReceiveCheck(t) \/ ReceivePop(t) \/ ReceiveReady(t) \/ ReceiveWake(t)
  PROVE  TypeInv'
<1> USE DEF Pcs, BasePcs, UnderPcs, GetPcs, RecvPcs, SendPcs, PostPcs,
            UserPcs, StopPcs
<1>1. TypeOK /\ FrameOK(t, Top(t), from)
  BY SMTT(30), TopOK DEF TypeInv
<1>2. FromKept /\ UNCHANGED from
  BY DEF ReceiveCheck, ReceivePop, ReceiveReady, ReceiveWake, FromKept
<1>3. CASE ReceiveCheck(t)
  <2>1. Top(t).pc = "rsCheck"
    BY SMTT(30), <1>3 DEF ReceiveCheck, At
  <2>2. CASE t \in LoopThreads /\ has_sends_[t]
    <3>1. Keeps(t, "rsCheck", "rsPop")
      BY <2>2 DEF Keeps
    <3>2. StackOK' /\ stack' \in [Threads -> Seq(Frames) \ {<<>>}]
      BY <1>2, <1>3, <2>1, <2>2, <3>1, GotoOK DEF ReceiveCheck
    <3> QED
      BY <1>1, <1>3, <3>2 DEF TypeInv, TypeOK, ReceiveCheck
  <2>3. CASE ~(t \in LoopThreads /\ has_sends_[t])
    <3>1. StackOK' /\ stack' \in [Threads -> Seq(Frames) \ {<<>>}]
      BY SMTT(30), <1>2, <1>3, <2>1, <2>3, ReturnTypeOK DEF ReceiveCheck
    <3> QED
      BY <1>1, <1>3, <3>1 DEF TypeInv, TypeOK, ReceiveCheck
  <2> QED
    BY <2>2, <2>3
<1>4. CASE ReceivePop(t)
  <2>1. Top(t).pc = "rsPop" /\ t \in LoopThreads /\ ReceiveNext(t)
    BY SMTT(30), <1>1, <1>4 DEF ReceivePop, At, FrameOK
  <2> QED
    BY SMTT(30), <1>1, <1>2, <1>4, <2>1, ReceiveNextType DEF TypeInv, TypeOK, ReceivePop
<1>5. CASE ReceiveReady(t)
  <2>1. Top(t).pc = "rsRun" /\ t \in LoopThreads /\ Top(t).arg \in Msgs
    BY <1>1, <1>5 DEF ReceiveReady, At, FrameOK
  <2>2. Keeps(t, "rsRun", "rsWake")
    BY SMTT(30), <2>1 DEF Keeps
  <2>3. StackOK' /\ stack' \in [Threads -> Seq(Frames) \ {<<>>}]
    BY SMTT(30), <1>2, <1>5, <2>1, <2>2, GotoOK DEF ReceiveReady
  <2> QED
    BY SMTT(30), <1>1, <1>5, <2>1, <2>3 DEF TypeInv, TypeOK, ReceiveReady
<1>6. CASE ReceiveWake(t)
  <2>1. Top(t).pc = "rsWake" /\ t \in LoopThreads /\ ReceiveNext(t)
    BY <1>1, <1>6 DEF ReceiveWake, At, FrameOK
  <2>2. signaled' \in [Threads -> BOOLEAN]
    BY ZenonT(30), <1>1, <1>6 DEF TypeOK, ReceiveWake
  <2> QED
    BY SMTT(30), <1>1, <1>2, <1>6, <2>1, <2>2, ReceiveNextType
       DEF TypeInv, TypeOK, ReceiveWake
<1> QED
  BY <1>3, <1>4, <1>5, <1>6

\* The start of a Send or a Post.
LEMMA BeginType ==
  ASSUME TypeInv, NEW t \in Threads, NEW m \in Msgs, Send(t, m) \/ Post(t, m)
  PROVE  TypeInv'
<1> USE DEF Pcs, BasePcs, UnderPcs, GetPcs, RecvPcs, SendPcs, PostPcs,
            UserPcs, StopPcs
<1>1. TypeOK /\ FrameOK(t, Top(t), from)
  BY TopOK DEF TypeInv
<1>2. PICK l \in {"sendStop", "postStop"} : BeginCall(t, m, l)
  BY DEF Send, Post
<1>3. /\ Top(t).pc \in {"handler", "native"} /\ from[m] = None
      /\ from' = [from EXCEPT ![m] = t] /\ Call(t, Top(t).pc, Frame(l, m))
  BY <1>2 DEF BeginCall
<1>4. FromKept /\ from'[m] = t /\ from' \in [Msgs -> Threads \cup {None}]
  BY SMTT(30), <1>1, <1>3 DEF FromKept, TypeOK
<1>5. Keeps(t, Top(t).pc, Top(t).pc) /\ Fits(t, l, m, from')
  BY <1>1, <1>3, <1>4 DEF Keeps, Fits, FrameOK
<1>6. StackOK' /\ stack' \in [Threads -> Seq(Frames) \ {<<>>}]
  BY ZenonT(30), <1>3, <1>4, <1>5, CallOK
<1> QED
  BY <1>1, <1>2, <1>4, <1>6 DEF TypeInv, TypeOK, BeginCall

\* Send, up to its wait loop.
LEMMA SendType ==
  ASSUME TypeInv, NEW t \in Threads,
         SendStopCheck(t) \/ SendPush(t) \/ SendWake(t)
  PROVE  TypeInv'
<1> USE DEF Pcs, BasePcs, UnderPcs, GetPcs, RecvPcs, SendPcs, PostPcs,
            UserPcs, StopPcs
<1>1. TypeOK /\ FrameOK(t, Top(t), from)
  BY TopOK DEF TypeInv
<1>2. FromKept
  BY SMTT(30) DEF SendStopCheck, SendPush, SendWake, FromKept
<1> DEFINE m == Top(t).arg
<1>3. m \in Msgs /\ Dest(m) \in LoopThreads
  BY Zenon, <1>1, ThreadAssumption
     DEF SendStopCheck, SendPush, SendWake, FrameOK, At, Dest
<1>4. CASE SendStopCheck(t)
  <2>1. Top(t).pc = "sendStop"
    BY SMTT(30), <1>4 DEF SendStopCheck, At
  <2>2. signaled' \in [Threads -> BOOLEAN]
    BY SMTT(30), <1>1, <1>4 DEF SendStopCheck, TypeOK
  <2>3. Return(t) \/ (Dest(m) = t /\ Goto(t, "handler")) \/ Goto(t, "sendPush")
    BY <1>4 DEF SendStopCheck
  <2>4. StackOK' /\ stack' \in [Threads -> Seq(Frames) \ {<<>>}]
    <3>1. CASE Return(t)
      BY SMTT(30), <1>2, <2>1, <3>1, ReturnTypeOK
    <3>2. CASE Dest(m) = t /\ Goto(t, "handler")
      <4>1. Keeps(t, "sendStop", "handler")
        BY <1>3, <3>2 DEF Keeps
      <4> QED
        BY SMTT(30), <1>2, <2>1, <3>2, <4>1, GotoOK
    <3>3. CASE Goto(t, "sendPush")
      <4>1. Keeps(t, "sendStop", "sendPush")
        BY SMTT(30) DEF Keeps
      <4> QED
        BY <1>2, <2>1, <3>3, <4>1, GotoOK
    <3> QED
      BY <2>3, <3>1, <3>2, <3>3
  <2> QED
    BY SMTT(30), <1>1, <1>4, <2>2, <2>4 DEF TypeInv, TypeOK, SendStopCheck
<1>5. CASE SendPush(t)
  <2>1. Top(t).pc = "sendPush" /\ Keeps(t, "sendPush", "sendWake")
    BY SMTT(30), <1>5 DEF SendPush, At, Keeps
  <2>2. StackOK' /\ stack' \in [Threads -> Seq(Frames) \ {<<>>}]
    BY <1>2, <1>5, <2>1, GotoOK DEF SendPush
  <2>3. sendlist_' \in [LoopThreads -> Seq(Msgs)]
    <3>1. Append(sendlist_[Dest(m)], m) \in Seq(Msgs)
      BY <1>1, <1>3 DEF TypeOK
    <3> QED
      BY Zenon, <1>1, <1>5, <3>1 DEF TypeOK, SendPush
  <2>4. has_sends_' \in [LoopThreads -> BOOLEAN]
    BY ZenonT(30), <1>1, <1>5 DEF TypeOK, SendPush
  <2> QED
    BY SMTT(30), <1>1, <1>5, <2>2, <2>3, <2>4 DEF TypeInv, TypeOK, SendPush
<1>6. CASE SendWake(t)
  <2>1. Top(t).pc = "sendWake" /\ Keeps(t, "sendWake", "sendTest")
    BY SMTT(30), <1>6 DEF SendWake, At, Keeps
  <2>2. StackOK' /\ stack' \in [Threads -> Seq(Frames) \ {<<>>}]
    BY <1>2, <1>6, <2>1, GotoOK DEF SendWake
  <2>3. signaled' \in [Threads -> BOOLEAN]
    BY Zenon, <1>1, <1>6 DEF TypeOK, SendWake
  <2> QED
    BY <1>1, <1>6, <2>2, <2>3 DEF TypeInv, TypeOK, SendWake
<1> QED
  BY <1>4, <1>5, <1>6

\* The wait loop of Send.
LEMMA SendWaitType ==
  ASSUME TypeInv, NEW t \in Threads,
         SendTest(t) \/ SendEnterWait(t) \/ SendWaitReturn(t)
  PROVE  TypeInv'
<1> USE DEF Pcs, BasePcs, UnderPcs, GetPcs, RecvPcs, SendPcs, PostPcs,
            UserPcs, StopPcs
<1>1. TypeOK /\ FrameOK(t, Top(t), from) /\ Top(t) \in Frames
  BY TopOK DEF TypeInv
<1>2. FromKept
  BY SMTT(30) DEF SendTest, SendEnterWait, SendWaitReturn, FromKept
<1>3. CASE SendTest(t)
  <2>1. Top(t).pc = "sendTest"
    BY <1>3 DEF SendTest, At
  <2>2. Return(t) \/ Call(t, "sendEnter", Frame("rsCheck", None))
    BY SMTT(30), <1>3 DEF SendTest
  <2>3. Keeps(t, "sendTest", "sendEnter") /\ Fits(t, "rsCheck", None, from')
    BY SMTT(30) DEF Keeps, Fits
  <2>4. StackOK' /\ stack' \in [Threads -> Seq(Frames) \ {<<>>}]
    BY <1>2, <2>1, <2>2, <2>3, CallOK, ReturnTypeOK
  <2>5. signaled' \in [Threads -> BOOLEAN]
    BY Zenon, <1>1, <1>3 DEF TypeOK, SendTest
  <2> QED
    BY SMTT(30), <1>1, <1>3, <2>4, <2>5 DEF TypeInv, TypeOK, SendTest
<1>4. CASE SendEnterWait(t)
  <2>1. Top(t).pc = "sendEnter" /\ Keeps(t, "sendEnter", "sendWait")
    BY SMTT(30), <1>4 DEF SendEnterWait, At, Keeps
  <2>2. StackOK' /\ stack' \in [Threads -> Seq(Frames) \ {<<>>}]
    BY <1>2, <1>4, <2>1, GotoOK DEF SendEnterWait
  <2> QED
    BY Zenon, <1>1, <1>4, <2>2 DEF TypeInv, TypeOK, SendEnterWait
<1>5. CASE SendWaitReturn(t)
  <2> DEFINE f == [Top(t) EXCEPT !.pc = "sendTest", !.waited = TRUE]
  <2>1. Top(t).pc = "sendWait" /\ Become(t, f)
    BY <1>5 DEF SendWaitReturn, At
  <2>2. f \in Frames /\ f.pc = "sendTest" /\ f.arg = Top(t).arg
    BY ZenonT(30), <1>1 DEF Frames
  <2> HIDE DEF f
  <2>3. FrameOK(t, f, from')
    BY SMTT(30), <1>1, <1>2, <2>1, <2>2, ThreadAssumption DEF FrameOK, FromKept
  <2>4. StackOK' /\ stack' \in [Threads -> Seq(Frames) \ {<<>>}]
    BY SMTT(30), <1>1, <1>2, <2>1, <2>2, <2>3, BecomeOK, BecomeStack
  <2> QED
    BY Zenon, <1>1, <1>5, <2>4 DEF TypeInv, TypeOK, SendWaitReturn
<1> QED
  BY <1>3, <1>4, <1>5

\* Post, and the return of a handler.
LEMMA PostType ==
  ASSUME TypeInv, NEW t \in Threads,
         PostStopCheck(t) \/ PostPush(t) \/ HandlerReturn(t)
  PROVE  TypeInv'
<1> USE DEF Pcs, BasePcs, UnderPcs, GetPcs, RecvPcs, SendPcs, PostPcs,
            UserPcs, StopPcs
<1>1. TypeOK /\ FrameOK(t, Top(t), from)
  BY TopOK DEF TypeInv
<1>2. FromKept
  BY SMTT(30) DEF PostStopCheck, PostPush, HandlerReturn, FromKept
<1>3. CASE PostStopCheck(t)
  <2>1. Top(t).pc = "postStop" /\ Keeps(t, "postStop", "postPush")
    BY SMTT(30), <1>3 DEF PostStopCheck, At, Keeps
  <2>2. StackOK' /\ stack' \in [Threads -> Seq(Frames) \ {<<>>}]
    BY SMTT(30), <1>2, <1>3, <2>1, GotoOK, ReturnTypeOK DEF PostStopCheck
  <2> QED
    BY SMTT(30), <1>1, <1>3, <2>2 DEF TypeInv, TypeOK, PostStopCheck
<1>4. CASE PostPush(t)
  <2> DEFINE m == Top(t).arg
  <2>1. Top(t).pc = "postPush" /\ m \in Msgs /\ Dest(m) \in LoopThreads
    BY ZenonT(30), <1>1, <1>4, ThreadAssumption DEF PostPush, At, FrameOK, Dest
  <2>2. StackOK' /\ stack' \in [Threads -> Seq(Frames) \ {<<>>}]
    BY <1>2, <1>4, <2>1, ReturnTypeOK DEF PostPush
  <2>3. msgq_' \in [LoopThreads -> Seq(Msgs)]
    <3>1. Append(msgq_[Dest(m)], m) \in Seq(Msgs)
      BY <1>1, <2>1 DEF TypeOK
    <3> QED
      BY Zenon, <1>1, <1>4, <3>1 DEF TypeOK, PostPush
  <2>4. signaled' \in [Threads -> BOOLEAN]
    BY ZenonT(30), <1>1, <1>4 DEF TypeOK, PostPush
  <2> QED
    BY <1>1, <1>4, <2>2, <2>3, <2>4 DEF TypeInv, TypeOK, PostPush
<1>5. CASE HandlerReturn(t)
  <2>1. StackOK' /\ stack' \in [Threads -> Seq(Frames) \ {<<>>}]
    BY <1>2, <1>5, ReturnTypeOK DEF HandlerReturn, At
  <2> QED
    BY SMTT(30), <1>1, <1>5, <2>1 DEF TypeInv, TypeOK, HandlerReturn
<1> QED
  BY <1>3, <1>4, <1>5

\* What Clear leaves of a list.
LEMMA RemainderProperties ==
  ASSUME NEW S, NEW q \in Seq(S), NEW ms, NEW r \in Remainders(q, ms)
  PROVE  /\ r \in Seq(S)
         /\ q = <<>> => r = <<>>
         /\ \A m \in Elems(r) : m \in Elems(q) /\ m \notin ms
         /\ \A m \in Elems(q) : m \notin ms => m \in Elems(r)
<1>1. Len(q) \in Nat /\ Elems(q) \subseteq S /\ DOMAIN q = 1..Len(q)
  BY LenProperties, ElementOfSeq DEF Elems
<1>2. PICK k \in 0..Len(q) : r \in [1..k -> Elems(q)]
  BY Zenon DEF Remainders
<1>3. PICK at \in [DOMAIN r -> DOMAIN q] :
        /\ \A i \in DOMAIN r : r[i] = q[at[i]]
        /\ {at[i] : i \in DOMAIN r} = {i \in DOMAIN q : q[i] \notin ms}
  BY DEF Remainders
<1>4. r \in Seq(S)
  BY <1>1, <1>2
<1>5. q = <<>> => r = <<>>
  BY <1>1, <1>2, <1>4, EmptySeq
<1>6. \A m \in Elems(r) : m \in Elems(q) /\ m \notin ms
  BY <1>3 DEF Elems
<1>7. \A m \in Elems(q) : m \notin ms => m \in Elems(r)
  BY <1>3 DEF Elems
<1> QED
  BY SMTT(30), <1>4, <1>5, <1>6, <1>7

\* Clear keeps the types.
LEMMA ClearType ==
  ASSUME TypeOK, NEW d \in LoopThreads, NEW ms \in SUBSET Msgs, Clear(d, ms)
  PROVE  /\ sendlist_' \in [LoopThreads -> Seq(Msgs)]
         /\ msgq_' \in [LoopThreads -> Seq(Msgs)]
         /\ signaled' \in [Threads -> BOOLEAN]
         /\ ready' \subseteq Msgs
<1>1. sendlist_[d] \in Seq(Msgs) /\ msgq_[d] \in Seq(Msgs)
  BY SMTT(30) DEF TypeOK
<1>2. sendlist_' \in [LoopThreads -> Seq(Msgs)]
  BY SMTT(30), <1>1, RemainderProperties DEF Clear, Erase, TypeOK
<1>3. msgq_' \in [LoopThreads -> Seq(Msgs)]
  BY <1>1, RemainderProperties DEF Clear, Erase, TypeOK
<1>4. signaled' \in [Threads -> BOOLEAN] /\ ready' \subseteq Msgs
  BY DEF Clear, Release, TypeOK
<1> QED
  BY <1>2, <1>3, <1>4

\* The destructor of a handler.
LEMMA DestroyType ==
  ASSUME TypeInv, NEW t \in Threads, NEW h \in Handlers, DestroyHandler(t, h)
  PROVE  TypeInv'
<1>1. TypeOK /\ StackOK /\ FrameOK(t, Top(t), from)
  BY SMTT(30), TopOK DEF TypeInv
<1>2. t \in LoopThreads
  BY <1>1 DEF DestroyHandler, At, FrameOK
<1>3. /\ Clear(t, {m \in Msgs : HandlerOf[m] = h})
      /\ dead' = dead \cup {h}
      /\ UNCHANGED <<fStop_, has_sends_, fWait_, stack, from, io, owed>>
  BY ZenonT(30) DEF DestroyHandler
<1>4. TypeOK'
  BY <1>1, <1>2, <1>3, ClearType DEF TypeOK
<1>5. StackOK'
  BY Zenon, <1>1, <1>3 DEF StackOK
<1> QED
  BY <1>4, <1>5 DEF TypeInv

\* Stop, Join and the destructor of a thread.
LEMMA StopType ==
  ASSUME TypeInv, NEW t \in Threads,
         (\E u \in LoopThreads : StopThread(t, u)) \/ Join(t) \/ DtorClear(t)
  PROVE  TypeInv'
<1> USE DEF Pcs, BasePcs, UnderPcs, GetPcs, RecvPcs, SendPcs, PostPcs,
            UserPcs, StopPcs
<1>1. TypeOK /\ FrameOK(t, Top(t), from)
  BY TopOK DEF TypeInv
<1>2. FromKept
  BY Zenon DEF StopThread, Join, DtorClear, FromKept
<1>3. ASSUME NEW u \in LoopThreads, StopThread(t, u) PROVE TypeInv'
  <2>1. Top(t).pc = "native" /\ Call(t, "native", Frame("join", u))
    BY ZenonT(30), <1>3 DEF StopThread, At
  <2>2. Keeps(t, "native", "native") /\ Fits(t, "join", u, from')
    BY SMTT(30) DEF Keeps, Fits
  <2>3. StackOK' /\ stack' \in [Threads -> Seq(Frames) \ {<<>>}]
    BY SMTT(30), <1>2, <2>1, <2>2, CallOK
  <2>4. Elems(msgq_[u]) \cup Elems(sendlist_[u]) \subseteq Msgs
    <3>1. msgq_[u] \in Seq(Msgs) /\ sendlist_[u] \in Seq(Msgs)
      BY SMTT(30), <1>1 DEF TypeOK
    <3> QED
      BY SMTT(30), <3>1, ElemsType
  <2>5. owed' \in [LoopThreads -> SUBSET Msgs]
    BY SMTT(30), <1>1, <1>3, <2>4 DEF TypeOK, StopThread
  <2> QED
    BY Zenon, <1>1, <1>3, <2>3, <2>5 DEF TypeInv, TypeOK, StopThread
<1>4. CASE Join(t)
  <2>1. Top(t).pc = "join" /\ Keeps(t, "join", "dtorClear")
    BY SMTT(30), <1>4 DEF Join, At, Keeps
  <2>2. StackOK' /\ stack' \in [Threads -> Seq(Frames) \ {<<>>}]
    BY SMTT(30), <1>2, <1>4, <2>1, GotoOK DEF Join
  <2> QED
    BY SMTT(30), <1>1, <1>4, <2>2 DEF TypeInv, TypeOK, Join
<1>5. CASE DtorClear(t)
  <2>1. Top(t).pc = "dtorClear" /\ Top(t).arg \in LoopThreads
    BY <1>1, <1>5 DEF DtorClear, At, FrameOK
  <2>2. Clear(Top(t).arg, Msgs) /\ Return(t)
        /\ UNCHANGED <<fStop_, has_sends_, fWait_, from, dead, io, owed>>
    BY SMTT(30), <1>5 DEF DtorClear
  <2>3. StackOK' /\ stack' \in [Threads -> Seq(Frames) \ {<<>>}]
    BY <1>2, <2>1, <2>2, ReturnTypeOK
  <2> QED
    BY SMTT(30), <1>1, <2>1, <2>2, <2>3, ClearType DEF TypeInv, TypeOK
<1> QED
  BY <1>3, <1>4, <1>5

\* The threads start inside of Run, or of the application's code.
LEMMA InitType == Init => TypeInv
<1> SUFFICES ASSUME Init PROVE TypeInv
  BY SMTT(30)
<1> USE DEF GetPcs, RecvPcs, SendPcs, PostPcs, UserPcs, StopPcs, Threads
<1> DEFINE l(t) == IF t \in LoopThreads THEN "get" ELSE "native"
<1>1. \A t \in Threads :
        /\ Frame(l(t), None) \in Frames
        /\ Frame(l(t), None).pc = l(t) /\ ~Frame(l(t), None).waited
  BY DEF Frame, Frames
<1>2. \A t \in Threads : stack[t] = <<Frame(l(t), None)>>
  BY SMTT(30) DEF Init
<1>3. \A t \in Threads : Len(stack[t]) = 1
  BY <1>2
<1>4. \A t \in Threads : stack[t][1] = Frame(l(t), None)
  BY <1>2
<1>5. stack \in [Threads -> Seq(Frames) \ {<<>>}]
  <2>1. \A t \in Threads : <<Frame(l(t), None)>> \in Seq(Frames) \ {<<>>}
    BY SMTT(30), <1>1
  <2> QED
    BY <2>1 DEF Init
<1>6. TypeOK
  BY <1>5, ThreadAssumption DEF Init, TypeOK
<1>7. StackOK
  <2> SUFFICES ASSUME NEW t \in Threads, NEW i \in 1..Len(stack[t])
               PROVE  FrameOK(t, stack[t][i], from) /\ ShapeOK(stack[t], i)
    BY Zenon DEF StackOK
  <2>1. stack[t][1] = Frame(l(t), None)
    BY Zenon, <1>4
  <2>2. i = 1 /\ Len(stack[t]) = 1
    <3>1. Len(stack[t]) = 1
      BY Zenon, <1>3
    <3>2. i \in 1..1
      BY ZenonT(30), <3>1
    <3> QED
      BY SMTT(30), <3>1, <3>2
  <2>3. FrameOK(t, Frame(l(t), None), from)
    BY <1>1 DEF FrameOK
  <2>4. Frame(l(t), None).pc \in BasePcs
    BY SMTT(30), <1>1 DEF BasePcs
  <2>5. ShapeOK(stack[t], 1)
    BY SMTT(30), <2>1, <2>2, <2>4 DEF ShapeOK
  <2> QED
    BY Zenon, <2>1, <2>2, <2>3, <2>5
<1> QED
  BY <1>6, <1>7 DEF TypeInv

\* Every step keeps the types and the shape of the stacks.
LEMMA NextType == TypeInv /\ [Next]_vars => TypeInv'
<1> SUFFICES ASSUME TypeInv, [Next]_vars PROVE TypeInv'
  OBVIOUS
<1>1. CASE UNCHANGED vars
  <2>1. TypeOK'
    BY <1>1 DEF TypeInv, TypeOK, vars
  <2>2. StackOK'
    BY ZenonT(30), <1>1 DEF TypeInv, StackOK, vars
  <2> QED
    BY SMTT(30), <2>1, <2>2 DEF TypeInv
<1>2. ASSUME NEW t \in Threads, Step(t) PROVE TypeInv'
  BY <1>2, GetType, SelectType, ReceiveType, SendType, SendWaitType, PostType,
     StopType DEF Step
<1> QED
  BY <1>1, <1>2, SelectType, BeginType, DestroyType, StopType DEF Next

\* For any threads, handlers and messages: the queues hold messages, and no
\* thread returns from its outermost call.
THEOREM TypeCorrect == Spec => []TypeOK
<1>1. TypeInv => TypeOK
  BY DEF TypeInv
<1> QED
  BY <1>1, InitType, NextType, PTL DEF Spec
=============================================================================
