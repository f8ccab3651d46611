---------------------------- MODULE MessageQueue ----------------------------
(***************************************************************************)
(* talk_base::MessageQueue with delayed messages (messagequeue.cc): Get    *)
(* with a timeout, Peek, Post, PostDelayed and PostAt, Dispose, Clear,     *)
(* Quit and Restart.  Time() is a counter that wraps (timeutils.cc);       *)
(* clock is the time it stands for, which no code can see.                 *)
(*                                                                         *)
(* One thread calls Get and Peek.  Any thread posts: the test of fStop_    *)
(* comes first, without the lock, then the critical section, and the       *)
(* trigger time is computed before both.  Sends are in module Thread.      *)
(***************************************************************************)
EXTENDS Integers, Sequences, FiniteSets

CONSTANTS HALF,       \* half the range of a time stamp: 2^31 in the code
          Start,      \* the time at which the queue is created
          Horizon,    \* bound: the clock stops
          LastDue,    \* bound: no message is due later
          MaxLag,     \* bound: from reading the clock to waiting
          Msgs,       \* messages, each posted at most once
          HandlerOf,  \* Message::phandler
          Now, Later, \* messages posted at once, and with a delay
          Delays,     \* delays of PostDelayed, and of PostAt's time stamps
          Waits,      \* cmsWait given to Get
          PeekWaits,  \* cmsWait given to Peek
          None

kForever == -1
LAST == 2 * HALF - 1

ASSUME QueueAssumption ==
  /\ HALF \in Nat \ {0}
  /\ Start \in Nat /\ LastDue \in Nat /\ Horizon \in Nat /\ MaxLag \in Nat
  /\ Start <= LastDue /\ LastDue <= Horizon /\ Horizon - Start < HALF
  /\ Now \cup Later \subseteq Msgs
  /\ Delays \subseteq -HALF .. HALF - 1
  /\ Waits \cup PeekWaits \subseteq Nat \cup {kForever}
  /\ None \notin Msgs

VARIABLES clock,
          fStop_,
          msgq_,            \* messages that are ready
          dmsgq_,           \* the priority queue: records of DelayedMessage
          dmsgq_next_num_,
          msgPeek_,         \* the message fPeekKeep_ keeps, or None
          posting,          \* calls of Post and DoDelayPost past the test
          issued,           \* messages posted so far
          gone,             \* messages returned, disposed of, cleared, dropped
          pc,               \* what the thread of Get does
          get,              \* the locals of Get
          signaled          \* WakeUp was called since the last Wait

vars == <<clock, fStop_, msgq_, dmsgq_, dmsgq_next_num_, msgPeek_, posting,
          issued, gone, pc, get, signaled>>

-----------------------------------------------------------------------------
(* Time stamps. *)

Stamp(t) == t % (LAST + 1)
Time == Stamp(clock)

\* later - earlier, read as a signed integer of the same width.
TimeDiff(later, earlier) == ((later - earlier + HALF) % (LAST + 1)) - HALF
TimeIsLater_Raw(earlier, later) == later > earlier
TimeIsLater(earlier, later) == TimeDiff(later, earlier) > 0

-----------------------------------------------------------------------------
(* The priority queue. *)

Before_LastIn(d, e) ==
  \/ d.msTrigger_ < e.msTrigger_
  \/ d.msTrigger_ = e.msTrigger_ /\ d.num_ > e.num_

\* DelayedMessage::operator<, turned around: d comes out before e.
Before(d, e) ==
  \/ d.msTrigger_ < e.msTrigger_
  \/ d.msTrigger_ = e.msTrigger_ /\ d.num_ < e.num_

IsTop(d, D) == d \in D /\ \A e \in D \ {d} : Before(d, e)

\* What Get's first loop takes out: from the top down to the first message
\* whose time has not come.
Triggered(now) ==
  {d \in dmsgq_ : \A e \in dmsgq_ : e = d \/ Before(e, d)
                    => ~TimeIsLater(now, e.msTrigger_)}

\* The time until the top of D, or kForever.
NextDelay(D, now) ==
  IF D = {} THEN kForever
  ELSE TimeDiff((CHOOSE d \in D : IsTop(d, D)).msTrigger_, now)

\* The messages of D trigger in the same period of the clock.
SamePeriod(D) ==
  \A d, e \in D : d.msg.due \div (LAST + 1) = e.msg.due \div (LAST + 1)

\* The lists of the elements of D in which none comes after one it precedes.
Listings(D, _ \prec _) ==
  {q \in [1..Cardinality(D) -> D] :
     /\ \A d \in D : \E i \in DOMAIN q : q[i] = d
     /\ \A i, j \in DOMAIN q : i < j => ~(q[j] \prec q[i])}

Elems(s) == {s[i] : i \in DOMAIN s}
Ids(M) == {m.id : m \in M}
Delayed == {d.msg : d \in dmsgq_}

\* A message: which one, whether it is MQID_DISPOSE, and the time it is due at,
\* which no code sees.
Message == [id : Msgs, dispose : BOOLEAN, due : Start..Horizon]

-----------------------------------------------------------------------------
\* A call of Get: its arguments and locals.  The stamps msStart and msCurrent are
\* kept as the times they stand for.  No code sees the last three: whether the
\* clock wraps around among the delayed messages, when Wait times out, and the
\* time from msCurrent to the call of Wait.
Locals == [msStart : Nat, msCurrent : Nat, cmsWait : Nat \cup {kForever},
           cmsDelayNext : Int, peek : BOOLEAN, msg : Message \cup {None},
           straight : BOOLEAN, until : Nat \cup {kForever}, lag : Nat]

NoCall == [msStart |-> 0, msCurrent |-> 0, cmsWait |-> 0, cmsDelayNext |-> 0,
           peek |-> FALSE, msg |-> None, straight |-> TRUE, until |-> 0,
           lag |-> 0]

Init ==
  /\ clock = Start
  /\ fStop_ = FALSE
  /\ msgq_ = <<>>
  /\ dmsgq_ = {}
  /\ dmsgq_next_num_ = 0
  /\ msgPeek_ = None
  /\ posting = {}
  /\ issued = {}
  /\ gone = {}
  /\ pc = "idle"
  /\ get = NoCall
  /\ signaled = FALSE

Tick ==
  /\ clock < Horizon
  /\ pc \in {"queue", "stop"} => clock - get.msCurrent < MaxLag
  /\ clock' = clock + 1
  /\ UNCHANGED <<fStop_, msgq_, dmsgq_, dmsgq_next_num_, msgPeek_, posting,
                 issued, gone, pc, get, signaled>>

-----------------------------------------------------------------------------
(* Posting. *)

WakeUp == signaled' = TRUE

\* The caller has computed the trigger time, if there is one; fStop_ is tested.
BeginPost(m, delayed) ==
  /\ m.id \notin issued
  /\ issued' = issued \cup {m.id}
  /\ \/ fStop_ /\ gone' = gone \cup {m.id} /\ UNCHANGED posting
     \/ /\ ~fStop_
        /\ posting' = posting \cup {[msg |-> m, delayed |-> delayed]}
        /\ UNCHANGED gone
  /\ UNCHANGED <<clock, fStop_, msgq_, dmsgq_, dmsgq_next_num_, msgPeek_, pc,
                 get, signaled>>

\* Post, or Dispose.
BeginNow(m) ==
  \E dispose \in BOOLEAN :
    BeginPost([id |-> m, dispose |-> dispose, due |-> clock], FALSE)

\* PostDelayed, or PostAt with a time stamp that may have passed.
BeginLater(m) ==
  \E d \in Delays :
    /\ clock + d \in Start..LastDue
    /\ BeginPost([id |-> m, dispose |-> FALSE, due |-> clock + d], TRUE)

Post(p) ==
  /\ p \in posting
  /\ ~p.delayed
  /\ msgq_' = Append(msgq_, p.msg)
  /\ posting' = posting \ {p}
  /\ WakeUp
  /\ UNCHANGED <<clock, fStop_, dmsgq_, dmsgq_next_num_, msgPeek_, issued, gone,
                 pc, get>>

DoDelayPost(p) ==
  /\ p \in posting
  /\ p.delayed
  /\ dmsgq_' = dmsgq_ \cup {[msg |-> p.msg, msTrigger_ |-> Stamp(p.msg.due),
                             num_ |-> dmsgq_next_num_]}
  /\ dmsgq_next_num_' = dmsgq_next_num_ + 1
  /\ posting' = posting \ {p}
  /\ WakeUp
  /\ UNCHANGED <<clock, fStop_, msgq_, msgPeek_, issued, gone, pc, get>>

-----------------------------------------------------------------------------
(* Get and Peek. *)

\* A message that Peek kept: Peek returns it again, Get gives it away.
GetKept_Stays ==
  /\ pc = "idle"
  /\ msgPeek_ # None
  /\ gone' = gone \cup {msgPeek_.id}
  /\ UNCHANGED <<clock, fStop_, msgq_, dmsgq_, dmsgq_next_num_, msgPeek_,
                 posting, issued, pc, get, signaled>>

GetKept ==
  /\ pc = "idle"
  /\ msgPeek_ # None
  /\ gone' = gone \cup {msgPeek_.id}
  /\ msgPeek_' = None
  /\ UNCHANGED <<clock, fStop_, msgq_, dmsgq_, dmsgq_next_num_, posting, issued,
                 pc, get, signaled>>

Get(wait, peek) ==
  /\ pc = "idle"
  /\ msgPeek_ = None
  /\ get' = [NoCall EXCEPT !.msStart = clock, !.msCurrent = clock,
                           !.cmsWait = wait, !.peek = peek]
  /\ pc' = "queue"
  /\ UNCHANGED <<clock, fStop_, msgq_, dmsgq_, dmsgq_next_num_, msgPeek_,
                 posting, issued, gone, signaled>>

Return == pc' = "idle" /\ get' = NoCall

\* The critical section: triggered messages join the ready ones, the first n
\* are disposed of, and the next one, if there is one, is returned.
CheckQueues ==
  /\ pc = "queue"
  /\ LET now == Stamp(get.msCurrent)
         T == Triggered(now) IN
     \E q \in Listings(T, Before) :
       LET ready == msgq_ \o [i \in DOMAIN q |-> q[i].msg] IN
       \E n \in 0..Len(ready) :
         /\ \A i \in 1..n : ready[i].dispose
         /\ dmsgq_' = dmsgq_ \ T
         /\ msgq_' = SubSeq(ready, n + 2, Len(ready))
         /\ \/ /\ n = Len(ready)
               /\ gone' = gone \cup Ids(Elems(ready))
               /\ get' = [get EXCEPT !.cmsDelayNext = NextDelay(dmsgq_ \ T, now),
                                     !.straight = SamePeriod(dmsgq_ \ T)]
               /\ pc' = "stop"
            \/ /\ n < Len(ready) /\ ~ready[n + 1].dispose
               /\ \/ /\ ~get.peek
                     /\ gone' = gone \cup {ready[i].id : i \in 1..n+1}
                     /\ Return
                  \/ /\ get.peek
                     /\ gone' = gone \cup {ready[i].id : i \in 1..n}
                     /\ get' = [NoCall EXCEPT !.msg = ready[n + 1]]
                     /\ pc' = "keep"
  /\ UNCHANGED <<clock, fStop_, dmsgq_next_num_, msgPeek_, posting, issued,
                 signaled>>

\* Peek's Get has returned a message.
Keep ==
  /\ pc = "keep"
  /\ msgPeek_' = get.msg
  /\ Return
  /\ UNCHANGED <<clock, fStop_, msgq_, dmsgq_, dmsgq_next_num_, posting, issued,
                 gone, signaled>>

CmsNext_NoDelay(wait, elapsed, delay) ==
  IF wait = kForever THEN delay ELSE IF wait > elapsed THEN wait - elapsed ELSE 0

\* cmsNext: how long to wait, given that elapsed has passed since msStart.
CmsNext(wait, elapsed, delay) ==
  LET rest == IF wait > elapsed THEN wait - elapsed ELSE 0 IN
  IF wait = kForever \/ (delay # kForever /\ delay < rest) THEN delay ELSE rest

\* The test of fStop_, outside of the lock, and the call of Wait.
CheckStop ==
  /\ pc = "stop"
  /\ \/ fStop_ /\ Return
     \/ /\ ~fStop_
        /\ pc' = "wait"
        /\ LET elapsed == TimeDiff(Stamp(get.msCurrent), Stamp(get.msStart))
               next == CmsNext(get.cmsWait, elapsed, get.cmsDelayNext)
           IN get' = [get EXCEPT !.until = IF next = kForever THEN kForever
                                           ELSE clock + next,
                                 !.lag = clock - get.msCurrent]
  /\ UNCHANGED <<clock, fStop_, msgq_, dmsgq_, dmsgq_next_num_, msgPeek_,
                 posting, issued, gone, signaled>>

TimeExpired ==
  get.cmsWait # kForever /\ TimeDiff(Time, Stamp(get.msStart)) >= get.cmsWait

AfterWait_StaleClock ==
  /\ \/ TimeExpired /\ Return
     \/ ~TimeExpired /\ UNCHANGED get /\ pc' = "queue"
  /\ UNCHANGED <<clock, fStop_, msgq_, dmsgq_, dmsgq_next_num_, msgPeek_,
                 posting, issued, gone>>

\* What follows Wait: the clock is read again.
AfterWait ==
  /\ \/ TimeExpired /\ Return
     \/ /\ ~TimeExpired
        /\ get' = [get EXCEPT !.msCurrent = clock, !.cmsDelayNext = 0,
                               !.straight = TRUE, !.until = 0, !.lag = 0]
        /\ pc' = "queue"
  /\ UNCHANGED <<clock, fStop_, msgq_, dmsgq_, dmsgq_next_num_, msgPeek_,
                 posting, issued, gone>>

Woken == pc = "wait" /\ signaled /\ signaled' = FALSE /\ AfterWait

TimedOut == /\ pc = "wait"
            /\ get.until # kForever /\ clock >= get.until
            /\ UNCHANGED signaled
            /\ AfterWait

\* select failed: Wait and Get return false.
WaitFails ==
  /\ pc = "wait"
  /\ Return
  /\ UNCHANGED <<clock, fStop_, msgq_, dmsgq_, dmsgq_next_num_, msgPeek_,
                 posting, issued, gone, signaled>>

-----------------------------------------------------------------------------
(* What other threads do. *)

GetDelay_OnlyDelayed ==
  IF dmsgq_ = {} THEN kForever
  ELSE LET delay == NextDelay(dmsgq_, Time) IN IF delay < 0 THEN 0 ELSE delay

\* The time until a message can be retrieved.
GetDelay ==
  IF msgq_ # <<>> THEN 0
  ELSE IF dmsgq_ = {} THEN kForever
  ELSE LET delay == NextDelay(dmsgq_, Time) IN IF delay < 0 THEN 0 ELSE delay

\* Clear(h), or everything if h is None.
Clear(h) ==
  LET Match(m) == h = None \/ (~m.dispose /\ HandlerOf[m.id] = h)
      stay == {i \in DOMAIN msgq_ : ~Match(msgq_[i])}
      out == {m \in ({msgPeek_} \ {None}) \cup Elems(msgq_) \cup Delayed :
                Match(m)}
  IN /\ out # {}
     /\ gone' = gone \cup Ids(out)
     /\ msgPeek_' = IF msgPeek_ \in out THEN None ELSE msgPeek_
     /\ \E f \in Listings(stay, <) :
          msgq_' = [i \in DOMAIN f |-> msgq_[f[i]]]
     /\ dmsgq_' = {d \in dmsgq_ : ~Match(d.msg)}
     /\ UNCHANGED <<clock, fStop_, dmsgq_next_num_, posting, issued, pc, get,
                    signaled>>

Quit ==
  /\ ~fStop_
  /\ fStop_' = TRUE
  /\ WakeUp
  /\ UNCHANGED <<clock, msgq_, dmsgq_, dmsgq_next_num_, msgPeek_, posting, issued,
                 gone, pc, get>>

\* Only between two calls of Get: the next one must not find the old value.
Restart ==
  /\ pc = "idle"
  /\ fStop_
  /\ fStop_' = FALSE
  /\ UNCHANGED <<clock, msgq_, dmsgq_, dmsgq_next_num_, msgPeek_, posting, issued,
                 gone, pc, get, signaled>>

-----------------------------------------------------------------------------
\* The steps of a call that has begun, and of the loop that calls Get.
Calls == \/ \E w \in Waits : Get(w, FALSE)
         \/ \E w \in PeekWaits : Get(w, TRUE)
GetSteps == GetKept \/ CheckQueues \/ Keep \/ CheckStop \/ Woken \/ TimedOut
PostSteps == \E p \in posting : Post(p) \/ DoDelayPost(p)

Next ==
  \/ Tick
  \/ \E m \in Now : BeginNow(m)
  \/ \E m \in Later : BeginLater(m)
  \/ PostSteps
  \/ Calls
  \/ GetSteps
  \/ WaitFails
  \/ \E h \in {HandlerOf[m] : m \in Msgs} \cup {None} : Clear(h)
  \/ Quit
  \/ Restart

Spec == Init /\ [][Next]_vars

\* Time passes, a call that has begun goes on (no operation holds the lock while
\* it waits), and the thread calls Get again whenever Get has returned, as
\* Thread::Run does.
FairSpec ==
  Spec /\ WF_vars(Tick) /\ WF_vars(PostSteps) /\ WF_vars(Calls)
       /\ WF_vars(GetSteps)

-----------------------------------------------------------------------------
TypeOK ==
  /\ clock \in Start..Horizon
  /\ fStop_ \in BOOLEAN
  /\ msgq_ \in Seq(Message)
  /\ dmsgq_ \subseteq [msg : Message, msTrigger_ : 0..LAST, num_ : Nat]
  /\ dmsgq_next_num_ \in Nat
  /\ msgPeek_ \in Message \cup {None}
  /\ posting \subseteq [msg : Message, delayed : BOOLEAN]
  /\ issued \subseteq Msgs
  /\ gone \subseteq Msgs
  /\ pc \in {"idle", "queue", "keep", "stop", "wait"}
  /\ get \in Locals
  /\ signaled \in BOOLEAN

\* No delayed message is returned, kept or made ready before its trigger time,
\* also when the time stamps wrap around between now and then (TimeIsLater,
\* Get's first loop).
NeverEarly ==
  \A m \in Elems(msgq_) \cup ({msgPeek_, get.msg} \ {None}) : m.due <= clock

\* Every message posted is in exactly one place: with its Post, in one of the
\* queues, kept by Peek, or out.  None is lost or delivered twice, whatever Get,
\* Peek and Clear do meanwhile.
OnePlace ==
  \A m \in Msgs :
    Cardinality({p \in posting : p.msg.id = m})
      + Cardinality({i \in DOMAIN msgq_ : msgq_[i].id = m})
      + Cardinality({d \in dmsgq_ : d.msg.id = m})
      + Cardinality({x \in {"peek"} : msgPeek_ # None /\ msgPeek_.id = m})
      + Cardinality({x \in {"get"} : get.msg # None /\ get.msg.id = m})
      + Cardinality({m} \cap gone)
    = Cardinality({m} \cap issued)

\* The thread that waits is going to be woken by WakeUp, or its wait ends no later
\* than the first delayed message is due and no later than the time Get was given,
\* but for the time that passed between reading the clock and waiting.
WokenInTime ==
  pc = "wait" /\ ~signaled =>
    /\ msgq_ = <<>>
    /\ \A m \in Delayed : get.until \in 0 .. m.due + get.lag
    /\ get.cmsWait # kForever =>
         get.until \in 0 .. get.msStart + get.cmsWait + get.lag

\* The same, when the time stamps Get saw in the queue do not wrap around.
NotOverslept == get.straight => WokenInTime

\* A socket server that sleeps for GetDelay (Win32SocketServer::Pump) does not
\* sleep past the next message; one that Peek kept is not counted.
GetDelayInTime ==
  SamePeriod(dmsgq_) =>
    /\ msgq_ # <<>> => GetDelay = 0
    /\ \A m \in Delayed : GetDelay # kForever
                            /\ (GetDelay = 0 \/ clock + GetDelay <= m.due)

\* Delayed messages become ready soonest first, and first in first out when they
\* trigger at the same time (the comment of DelayedMessage).
SoonestFirst ==
  [][\A d, e \in dmsgq_ :
       /\ SamePeriod(dmsgq_)
       /\ d \notin dmsgq_' /\ pc = "queue" /\ pc' # "queue"
       /\ \/ e.msg.due < d.msg.due
          \/ e.msg.due = d.msg.due /\ e.num_ < d.num_
       => /\ e \notin dmsgq_'
          /\ \A i \in DOMAIN msgq_' : msgq_'[i] = e.msg =>
               \E j \in DOMAIN msgq_' : msgq_'[j] = d.msg /\ i < j
    ]_vars

\* A message in a queue is handed out or cleared, unless the queue is stopped.
Delivered ==
  \A m \in Msgs : m \in Ids(Delayed \cup Elems(msgq_)) ~> m \in gone \/ fStop_
=============================================================================
