------------------------- MODULE MessageQueueProofs -------------------------
(***************************************************************************)
(* MessageQueue for time stamps of any width and any number of messages:   *)
(* no delayed message is handed out before its time.                       *)
(***************************************************************************)
EXTENDS MessageQueue, FiniteSetTheorems, SequenceTheorems, TLAPS

-----------------------------------------------------------------------------
(* Time stamps. *)

\* A remainder is determined by its range and the quotient it leaves.
LEMMA ModUnique ==
  ASSUME NEW n \in Nat \ {0}, NEW q \in Int, NEW r \in 0 .. n - 1
  PROVE  (q * n + r) % n = r
OBVIOUS

\* Every number is a multiple of n and its remainder.
LEMMA ModSplit ==
  ASSUME NEW n \in Nat \ {0}, NEW a \in Int
  PROVE  /\ a % n \in 0 .. n - 1
         /\ a = (a \div n) * n + (a % n)
         /\ a \div n \in Int
OBVIOUS

\* The difference of two time stamps is that of the times they stand for, if
\* these are less than half the range apart (TimeDiff, timeutils.cc).
LEMMA DiffOfStamps ==
  ASSUME NEW a \in Int, NEW b \in Int, a - b \in -HALF .. HALF - 1
  PROVE  TimeDiff(Stamp(a), Stamp(b)) = a - b
<1> DEFINE n == LAST + 1
           j == a \div n
           k == b \div n
<1>1. HALF \in Nat \ {0} /\ n = 2 * HALF /\ n \in Nat \ {0}
  BY QueueAssumption DEF LAST
<1>2. /\ Stamp(a) = a % n /\ Stamp(b) = b % n
      /\ TimeDiff(Stamp(a), Stamp(b)) = ((Stamp(a) - Stamp(b) + HALF) % n) - HALF
  BY DEF Stamp, TimeDiff
<1> HIDE DEF n
<1>3. /\ a % n \in 0 .. n - 1 /\ a = j * n + (a % n) /\ j \in Int
      /\ b % n \in 0 .. n - 1 /\ b = k * n + (b % n) /\ k \in Int
  BY Zenon, <1>1, ModSplit
<1>4. (k - j) * n = k * n - j * n /\ k * n \in Int /\ j * n \in Int
  <2> HIDE DEF j, k
  <2> QED
    BY <1>1, <1>3
<1>5. k - j \in Int /\ a - b + HALF \in 0 .. n - 1
  BY <1>1, <1>3
<1>6. Stamp(a) - Stamp(b) + HALF = (k - j) * n + (a - b + HALF)
  <2> DEFINE x == j * n
             y == k * n
             z == (k - j) * n
  <2>1. z = y - x /\ x \in Int /\ y \in Int
    BY <1>4
  <2>2. a = x + Stamp(a) /\ b = y + Stamp(b) /\ Stamp(a) \in Int /\ Stamp(b) \in Int
    BY <1>2, <1>3
  <2> HIDE DEF x, y, z
  <2>3. Stamp(a) - Stamp(b) + HALF = z + (a - b + HALF)
    BY <1>1, <2>1, <2>2
  <2> QED
    BY <2>3 DEF z
<1>7. ((k - j) * n + (a - b + HALF)) % n = a - b + HALF
  BY Zenon, <1>1, <1>5, ModUnique
<1>8. (Stamp(a) - Stamp(b) + HALF) % n = a - b + HALF
  BY Zenon, <1>6, <1>7
<1>9. (a - b + HALF) - HALF = a - b
  BY <1>1
<1> QED
  BY Zenon, <1>2, <1>8, <1>9

-----------------------------------------------------------------------------
(* The invariant. *)

\* The messages whose time has come.
Old == {m \in Message : m.due <= clock}

\* get is a record of the locals of Get.
IsCall ==
  get = [msStart |-> get.msStart, msCurrent |-> get.msCurrent,
         cmsWait |-> get.cmsWait, cmsDelayNext |-> get.cmsDelayNext,
         peek |-> get.peek, msg |-> get.msg, straight |-> get.straight,
         until |-> get.until, lag |-> get.lag]

\* A time stamp in the priority queue is that of its message, the time Get has
\* read has passed, and what is ready or was taken out is due.
QueueInv ==
  /\ clock \in Start..Horizon
  /\ msgq_ \in Seq(Old)
  /\ IsFiniteSet(dmsgq_)
  /\ \A d \in dmsgq_ : d.msg \in Message /\ d.msTrigger_ = Stamp(d.msg.due)
  /\ \A p \in posting : p.msg \in Message /\ (p.delayed \/ p.msg \in Old)
  /\ msgPeek_ \in Old \cup {None}
  /\ get.msg \in Old \cup {None}
  /\ IsCall
  /\ pc = "queue" => get.msCurrent \in Start..clock

\* A new queue satisfies the invariant.
LEMMA InitQueueInv == Init => QueueInv
<1> SUFFICES ASSUME Init PROVE QueueInv
  OBVIOUS
<1>1. clock \in Start..Horizon /\ msgq_ \in Seq(Old)
  BY QueueAssumption DEF Init
<1>2. IsFiniteSet(dmsgq_)
  BY FS_EmptySet DEF Init
<1> QED
  BY <1>1, <1>2 DEF Init, QueueInv, IsCall, NoCall

\* What is due stays due.
LEMMA OldGrows ==
  ASSUME QueueInv, clock' \in Int, clock' >= clock
  PROVE  Old \subseteq Old' /\ msgq_ \in Seq(Old')
<1>1. \A m \in Message : m.due \in Int
  BY QueueAssumption DEF Message
<1>2. Old \subseteq Old'
  BY <1>1, QueueAssumption DEF Old, QueueInv
<1> QED
  BY <1>2, SeqMonotonic DEF QueueInv

\* A message of the priority queue that Get finds triggered is due: its time stamp
\* is not later than the one Get has read, although either may have wrapped around.
LEMMA TriggeredIsDue ==
  ASSUME QueueInv, pc = "queue", NEW d \in Triggered(Stamp(get.msCurrent))
  PROVE  d.msg \in Old
<1> DEFINE a == d.msg.due
           b == get.msCurrent
<1>1. d \in dmsgq_ /\ ~TimeIsLater(Stamp(b), d.msTrigger_)
  BY DEF Triggered
<1>2. d.msg \in Message /\ d.msTrigger_ = Stamp(a) /\ a \in Start..Horizon
  BY <1>1 DEF QueueInv, Message
<1>3. b \in Start..clock /\ clock \in Start..Horizon
  BY DEF QueueInv
<1>4. a \in Int /\ b \in Int /\ a - b \in -HALF .. HALF - 1
  BY <1>2, <1>3, QueueAssumption
<1>5. TimeDiff(Stamp(a), Stamp(b)) = a - b
  BY <1>4, DiffOfStamps
<1>6. a <= b
  BY <1>1, <1>2, <1>4, <1>5 DEF TimeIsLater
<1> QED
  BY <1>2, <1>3, <1>4, <1>6, QueueAssumption DEF Old

\* Posting keeps the invariant, on both sides of the test of fStop_.
LEMMA PostKeeps ==
  ASSUME QueueInv,
         \/ \E m \in Now : BeginNow(m)
         \/ \E m \in Later : BeginLater(m)
         \/ PostSteps
  PROVE  QueueInv'
<1>1. /\ clock' = clock /\ Old' = Old /\ msgPeek_' = msgPeek_ /\ pc' = pc /\ get' = get
  BY DEF BeginNow, BeginLater, BeginPost, PostSteps, Post, DoDelayPost, Old
<1>2. CASE \E m \in Now : BeginNow(m)
  <2>1. PICK m \in Now, dispose \in BOOLEAN :
          BeginPost([id |-> m, dispose |-> dispose, due |-> clock], FALSE)
    BY ZenonT(30), <1>2 DEF BeginNow
  <2> DEFINE x == [id |-> m, dispose |-> dispose, due |-> clock]
  <2>2. x \in Old
    BY QueueAssumption DEF QueueInv, Old, Message
  <2>3. \A p \in posting' : p \in posting \/ p = [msg |-> x, delayed |-> FALSE]
    BY <2>1 DEF BeginPost
  <2>4. \A p \in posting' : p.msg \in Message /\ (p.delayed \/ p.msg \in Old)
    BY <2>2, <2>3 DEF QueueInv, Old
  <2> QED
    BY <1>1, <2>1, <2>4 DEF QueueInv, IsCall, BeginPost
<1>3. CASE \E m \in Later : BeginLater(m)
  <2>1. PICK m \in Later, d \in Delays :
          /\ clock + d \in Start..LastDue
          /\ BeginPost([id |-> m, dispose |-> FALSE, due |-> clock + d], TRUE)
    BY ZenonT(30), <1>3 DEF BeginLater
  <2> DEFINE x == [id |-> m, dispose |-> FALSE, due |-> clock + d]
  <2>2. x \in Message
    BY <2>1, QueueAssumption DEF Message
  <2>3. \A p \in posting' : p \in posting \/ p = [msg |-> x, delayed |-> TRUE]
    BY <2>1 DEF BeginPost
  <2>4. \A p \in posting' : p.msg \in Message /\ (p.delayed \/ p.msg \in Old)
    <3> DEFINE r == [msg |-> x, delayed |-> TRUE]
    <3>1. r.msg = x /\ r.delayed
      BY Zenon
    <3> HIDE DEF x, r
    <3> QED
      BY Zenon, <2>2, <2>3, <3>1 DEF QueueInv, r
  <2> QED
    BY <1>1, <2>1, <2>4 DEF QueueInv, IsCall, BeginPost
<1>4. CASE PostSteps
  <2>1. PICK p \in posting : Post(p) \/ DoDelayPost(p)
    BY <1>4 DEF PostSteps
  <2>2. \A r \in posting' : r \in posting
    BY <2>1 DEF Post, DoDelayPost
  <2>3. CASE Post(p)
    <3>1. p.msg \in Old /\ msgq_' = Append(msgq_, p.msg) /\ dmsgq_' = dmsgq_
      BY <2>3 DEF QueueInv, Post
    <3>2. msgq_' \in Seq(Old)
      BY SMTT(30), <3>1 DEF QueueInv
    <3> QED
      BY <1>1, <2>2, <3>1, <3>2 DEF QueueInv, IsCall
  <2>4. CASE DoDelayPost(p)
    <3> DEFINE d == [msg |-> p.msg, msTrigger_ |-> Stamp(p.msg.due),
                     num_ |-> dmsgq_next_num_]
    <3>1. p.msg \in Message /\ msgq_' = msgq_ /\ dmsgq_' = dmsgq_ \cup {d}
      BY ZenonT(30), <2>4 DEF QueueInv, DoDelayPost
    <3>2. IsFiniteSet(dmsgq_')
      BY ZenonT(30), <3>1, FS_AddElement DEF QueueInv
    <3>3. \A e \in dmsgq_' : e.msg \in Message /\ e.msTrigger_ = Stamp(e.msg.due)
      BY SMTT(30), <3>1 DEF QueueInv
    <3> QED
      BY <1>1, <2>2, <3>1, <3>2, <3>3 DEF QueueInv, IsCall, Stamp
  <2> QED
    BY <2>1, <2>3, <2>4
<1> QED
  BY <1>2, <1>3, <1>4

\* The critical section of Get keeps it: what joins the ready messages is due.
LEMMA CheckQueuesKeeps ==
  ASSUME QueueInv, CheckQueues
  PROVE  QueueInv'
<1> DEFINE now == Stamp(get.msCurrent)
           T == Triggered(now)
           Ready(l) == msgq_ \o [i \in DOMAIN l |-> l[i].msg]
<1>1. /\ pc = "queue" /\ clock' = clock /\ Old' = Old /\ posting' = posting
      /\ msgPeek_' = msgPeek_ /\ dmsgq_' = dmsgq_ \ T
  BY ZenonT(30) DEF CheckQueues, Old
<1>2. PICK q \in Listings(T, Before) : \E n \in 0 .. Len(Ready(q)) :
        /\ msgq_' = SubSeq(Ready(q), n + 2, Len(Ready(q)))
        /\ \/ /\ pc' = "stop"
              /\ get' = [get EXCEPT !.cmsDelayNext = NextDelay(dmsgq_ \ T, now),
                                    !.straight = SamePeriod(dmsgq_ \ T)]
           \/ pc' = "idle" /\ get' = NoCall
           \/ /\ n < Len(Ready(q)) /\ pc' = "keep"
              /\ get' = [NoCall EXCEPT !.msg = Ready(q)[n + 1]]
  BY ZenonT(30) DEF CheckQueues, Return
<1>3. /\ T \subseteq dmsgq_ /\ IsFiniteSet(dmsgq_) /\ IsFiniteSet(T)
      /\ IsFiniteSet(dmsgq_ \ T)
  BY FS_Subset DEF QueueInv, Triggered
<1>4. Cardinality(T) \in Nat
  BY <1>3, FS_CardinalityType
<1>5. Ready(q) \in Seq(Old)
  <2> DEFINE s == [i \in DOMAIN q |-> q[i].msg]
  <2>1. q \in [1..Cardinality(T) -> T]
    BY DEF Listings
  <2>2. \A d \in T : d.msg \in Old
    BY <1>1, TriggeredIsDue
  <2>3. s \in Seq(Old)
    <3> HIDE DEF T
    <3> QED
      BY <1>4, <2>1, <2>2
  <2> QED
    BY <2>3, ConcatProperties DEF QueueInv
<1> DEFINE r == Ready(q)
<1>6. PICK n \in 0 .. Len(r) :
        /\ msgq_' = SubSeq(r, n + 2, Len(r))
        /\ \/ /\ pc' = "stop"
              /\ get' = [get EXCEPT !.cmsDelayNext = NextDelay(dmsgq_ \ T, now),
                                    !.straight = SamePeriod(dmsgq_ \ T)]
           \/ pc' = "idle" /\ get' = NoCall
           \/ /\ n < Len(r) /\ pc' = "keep"
              /\ get' = [NoCall EXCEPT !.msg = r[n + 1]]
  BY ZenonT(30), <1>2
<1>7. Len(r) \in Nat /\ \A i \in 1..Len(r) : r[i] \in Old
  BY <1>5, LenProperties, ElementOfSeq
<1> HIDE DEF r, T, now
<1>8. msgq_' \in Seq(Old)
  <2>1. \A i \in n + 2 .. Len(r) : r[i] \in Old
    BY <1>7
  <2> QED
    BY <1>7, <1>6, <2>1, SubSeqProperties
<1>9. get'.msg \in Old \cup {None} /\ IsCall'
  <2>1. CASE get' = [get EXCEPT !.cmsDelayNext = NextDelay(dmsgq_ \ T, now),
                                !.straight = SamePeriod(dmsgq_ \ T)]
    BY ZenonT(30), <2>1 DEF QueueInv, IsCall
  <2>2. CASE get' = NoCall
    BY <2>2 DEF IsCall, NoCall
  <2>3. CASE n < Len(r) /\ get' = [NoCall EXCEPT !.msg = r[n + 1]]
    <3>1. r[n + 1] \in Old
      BY <1>7, <2>3
    <3> QED
      BY ZenonT(30), <2>3, <3>1 DEF IsCall, NoCall
  <2> QED
    BY <1>6, <2>1, <2>2, <2>3
<1>10. \A d \in dmsgq_' : d \in dmsgq_
  BY <1>1
<1>11. pc' # "queue"
  BY <1>6
<1> QED
  BY <1>1, <1>3, <1>8, <1>9, <1>10, <1>11 DEF QueueInv

\* The other steps of Get and Peek keep it; the clock is read again after Wait.
LEMMA GetKeeps ==
  ASSUME QueueInv,
         \/ Calls \/ GetKept \/ Keep \/ CheckStop \/ Woken \/ TimedOut \/ WaitFails
  PROVE  QueueInv'
<1> USE DEF Return, AfterWait
<1>1. /\ clock' = clock /\ Old' = Old /\ msgq_' = msgq_ /\ dmsgq_' = dmsgq_
      /\ posting' = posting
  BY ZenonT(30) DEF Calls, Get, GetKept, Keep, CheckStop, Woken, TimedOut, WaitFails, Old
<1>2. msgPeek_' \in Old \cup {None}
  BY ZenonT(30) DEF QueueInv, Calls, Get, GetKept, Keep, CheckStop, Woken,
                    TimedOut, WaitFails
<1>3. /\ get'.msg \in Old \cup {None} /\ IsCall'
      /\ pc' = "queue" => get'.msCurrent \in Start..clock
  <2>1. CASE UNCHANGED <<get, pc>>
    BY <2>1 DEF QueueInv, IsCall
  <2>2. CASE pc' = "idle" /\ get' = NoCall
    BY <2>2 DEF IsCall, NoCall
  <2>3. CASE CheckStop /\ pc' = "wait"
    <3>1. PICK x, y : get' = [get EXCEPT !.until = x, !.lag = y]
      BY ZenonT(30), <2>3 DEF CheckStop
    <3> QED
      BY ZenonT(30), <2>3, <3>1 DEF QueueInv, IsCall
  <2>4. CASE get' = [get EXCEPT !.msCurrent = clock, !.cmsDelayNext = 0,
                                !.straight = TRUE, !.until = 0, !.lag = 0]
    <3>1. get'.msg = get.msg /\ get'.msCurrent = clock /\ IsCall'
      BY ZenonT(30), <2>4 DEF QueueInv, IsCall
    <3> QED
      BY <3>1, QueueAssumption DEF QueueInv
  <2>5. CASE Calls
    <3>1. PICK w, peek : get' = [NoCall EXCEPT !.msStart = clock, !.msCurrent = clock,
                                               !.cmsWait = w, !.peek = peek]
      BY ZenonT(30), <2>5 DEF Calls, Get
    <3>2. get'.msg = None /\ get'.msCurrent = clock /\ IsCall'
      BY ZenonT(30), <3>1 DEF IsCall, NoCall
    <3> QED
      BY <3>2, QueueAssumption DEF QueueInv
  <2> QED
    BY <2>1, <2>2, <2>3, <2>4, <2>5
       DEF GetKept, Keep, CheckStop, Woken, TimedOut, WaitFails
<1> QED
  BY <1>1, <1>2, <1>3 DEF QueueInv

\* Clear keeps it: what stays is part of what was there.
LEMMA ClearKeeps ==
  ASSUME QueueInv, NEW h, Clear(h)
  PROVE  QueueInv'
<1> DEFINE Match(m) == h = None \/ (~m.dispose /\ HandlerOf[m.id] = h)
           stay == {i \in DOMAIN msgq_ : ~Match(msgq_[i])}
<1>1. /\ clock' = clock /\ Old' = Old /\ posting' = posting /\ pc' = pc /\ get' = get
      /\ dmsgq_' \subseteq dmsgq_
      /\ msgPeek_' \in {msgPeek_, None}
      /\ \E f \in Listings(stay, <) : msgq_' = [i \in DOMAIN f |-> msgq_[f[i]]]
  BY ZenonT(30) DEF Clear, Old
<1>2. stay \subseteq 1..Len(msgq_) /\ Len(msgq_) \in Nat
      /\ \A i \in 1..Len(msgq_) : msgq_[i] \in Old
  BY LenProperties, ElementOfSeq DEF QueueInv
<1> HIDE DEF stay
<1>3. Cardinality(stay) \in Nat
  <2>1. IsFiniteSet(1..Len(msgq_))
    BY <1>2, FS_Interval
  <2>2. IsFiniteSet(stay)
    BY ZenonT(30), <1>2, <2>1, FS_Subset
  <2> QED
    BY <2>2, FS_CardinalityType
<1>4. msgq_' \in Seq(Old)
  <2>1. PICK f : /\ f \in [1..Cardinality(stay) -> stay]
                 /\ msgq_' = [i \in DOMAIN f |-> msgq_[f[i]]]
    BY ZenonT(30), <1>1 DEF Listings
  <2> DEFINE c == Cardinality(stay)
  <2>2. DOMAIN f = 1..c /\ c \in Nat /\ \A i \in 1..c : msgq_[f[i]] \in Old
    BY ZenonT(30), <1>2, <1>3, <2>1
  <2> HIDE DEF c
  <2> QED
    BY <2>1, <2>2
<1>5. IsFiniteSet(dmsgq_')
  BY ZenonT(30), <1>1, FS_Subset DEF QueueInv
<1> QED
  BY ZenonT(30), <1>1, <1>4, <1>5 DEF QueueInv, IsCall

\* Every step keeps the invariant.
LEMMA NextQueueInv == QueueInv /\ [Next]_vars => QueueInv'
<1> SUFFICES ASSUME QueueInv, [Next]_vars PROVE QueueInv'
  OBVIOUS
<1>1. CASE Tick
  <2>1. /\ clock' = clock + 1 /\ clock < Horizon /\ clock \in Int
        /\ Start \in Int /\ Horizon \in Int
    BY <1>1, QueueAssumption DEF Tick, QueueInv
  <2>2. Old \subseteq Old' /\ msgq_ \in Seq(Old')
    BY <2>1, OldGrows
  <2>3. clock' \in Start..Horizon /\ (pc = "queue" => get.msCurrent \in Start..clock')
    BY SMTT(30), <2>1 DEF QueueInv
  <2> QED
    BY <1>1, <2>2, <2>3 DEF Tick, QueueInv, IsCall, Stamp, Message
<1>2. CASE Quit \/ Restart \/ UNCHANGED vars
  BY <1>2 DEF Quit, Restart, vars, QueueInv, IsCall, Old
<1> QED
  BY <1>1, <1>2, PostKeeps, CheckQueuesKeeps, GetKeeps, ClearKeeps DEF Next, GetSteps

-----------------------------------------------------------------------------
\* For time stamps of any width, any number of messages, delays and threads that
\* post: no delayed message becomes ready, is kept by Peek or is returned by Get
\* before it is due, although the stamps wrap around, in a period shorter than
\* half their range (QueueAssumption).
THEOREM NoneIsEarly == Spec => []NeverEarly
<1>1. QueueInv => NeverEarly
  <2> SUFFICES ASSUME QueueInv, NEW m \in Elems(msgq_) \cup ({msgPeek_, get.msg} \ {None})
               PROVE  m \in Old
    BY DEF NeverEarly, Old
  <2>1. \A i \in DOMAIN msgq_ : msgq_[i] \in Old
    BY LenProperties, ElementOfSeq DEF QueueInv
  <2> QED
    BY <2>1 DEF Elems, QueueInv
<1> QED
  BY <1>1, InitQueueInv, NextQueueInv, PTL DEF Spec

=============================================================================
