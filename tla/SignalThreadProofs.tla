------------------------- MODULE SignalThreadProofs -------------------------
(***************************************************************************)
(* SignalThread for any number of runs: its reference count is exact, and  *)
(* it is deleted once, by the main thread, when nothing uses it any more.  *)
(* The owner does not destroy a running worker inside SignalWorkDone.      *)
(***************************************************************************)
EXTENDS SignalThread, FiniteSetTheorems, TLAPS

Frames == [at : {"OnMessage.Stop", "SignalWorkDone", "Destroy.Stop"},
           do_delete : BOOLEAN]

\* Methods of the main thread that block do not nest.
OneFrame == stack = <<>> \/ \E f \in Frames : stack = <<f>>

frame == IF stack = <<>> THEN "none" ELSE stack[1].at
do_delete == stack # <<>> /\ stack[1].do_delete
Running == {"kRunning", "kReleasing", "kStopping"}
InOnMessage == {"OnMessage.Stop", "SignalWorkDone"}

\* Who holds cs_.
Locks ==
  /\ held[Main] = IF frame \in InOnMessage THEN 1 ELSE 0
  /\ held[Worker] = IF worker = "Posted" THEN 1 ELSE 0
  /\ frame \in InOnMessage => worker # "Posted"

Refs ==
  deleted = "no" =>
    refcount_ = held[Main] + held[Worker]
                  + (IF frame = "Destroy.Stop" THEN 1 ELSE 0)
                  + (IF owner = "gone" /\ state_ # "kStopping" THEN 0 ELSE 1)

Gone ==
  deleted # "no" => deleted = Main /\ frame = "none" /\ worker = "none" /\ posted = 0

\* The worker and its message follow the state.
Work ==
  /\ worker # "none" => state_ \in Running
  /\ posted > 0 => /\ posted = 1 /\ main_
                   /\ worker \in {"none", "Posted"}
                   /\ frame \notin InOnMessage
                   /\ state_ \in Running

\* The method that the main thread is in follows the state.
Method ==
  /\ frame = "OnMessage.Stop" => /\ worker = "none"
                                 /\ state_ \in {"kComplete", "kReleasing"}
                                 /\ do_delete = (state_ = "kReleasing")
  /\ frame = "SignalWorkDone" =>
       IF do_delete THEN state_ = "kReleasing" /\ worker = "none"
                    ELSE state_ \in {"kComplete", "kRunning", "kReleasing"}
  /\ frame = "Destroy.Stop" => state_ = "kStopping"

\* What the owner has done follows the state.
Owner ==
  deleted = "no" =>
    /\ owner = "owns" => state_ \in {"kInit", "kRunning", "kComplete"}
    /\ owner = "released" => state_ = "kReleasing"
    /\ owner = "gone" => \/ state_ = "kStopping"
                         \/ state_ = "kComplete" /\ frame = "SignalWorkDone"

IInv == TypeOK /\ OneFrame /\ Locks /\ Refs /\ Gone /\ Work /\ Method /\ Owner

-----------------------------------------------------------------------------
(* The stack. *)

\* A main thread whose stack has at most one frame is in the method of that frame.
LEMMA AtIsFrame ==
  ASSUME OneFrame
  PROVE  /\ \A a \in {"OnMessage.Stop", "SignalWorkDone", "Destroy.Stop"} :
              At(a) <=> frame = a
         /\ stack # <<>> => Top.do_delete = do_delete
         /\ frame = "none" <=> stack = <<>>
BY DEF OneFrame, Frames, At, Top, frame, do_delete

\* A blocking method that is called with an empty stack becomes its only frame.
LEMMA PushOne ==
  ASSUME stack = <<>>, NEW f \in Frames, Push(f)
  PROVE  OneFrame' /\ frame' = f.at /\ do_delete' = f.do_delete
BY DEF OneFrame, Frames, Push, frame, do_delete

\* When the only blocking method returns, the stack is empty.
LEMMA PopOne ==
  ASSUME OneFrame, stack # <<>>, Pop
  PROVE  stack' = <<>> /\ OneFrame' /\ frame' = "none" /\ ~do_delete'
<1>1. PICK f \in Frames : stack = <<f>>
  BY DEF OneFrame
<1>2. stack' = <<>>
  BY <1>1 DEF Pop
<1> QED
  BY <1>2 DEF OneFrame, frame, do_delete

\* OnMessage goes on from Stop to SignalWorkDone in the same frame.
LEMMA GotoOne ==
  ASSUME OneFrame, stack # <<>>, Goto("SignalWorkDone")
  PROVE  OneFrame' /\ frame' = "SignalWorkDone" /\ do_delete' = do_delete
<1>1. PICK f \in Frames : stack = <<f>>
  BY DEF OneFrame
<1>2. stack' = <<[f EXCEPT !.at = "SignalWorkDone"]>>
  BY <1>1 DEF Goto
<1>3. [f EXCEPT !.at = "SignalWorkDone"] \in Frames
  BY DEF Frames
<1> QED
  BY <1>1, <1>2, <1>3 DEF OneFrame, frame, do_delete, Frames

\* With one frame at most, Destroy keeps at most one EnterExit open without cs_.
LEMMA OpenDestroys ==
  ASSUME OneFrame
  PROVE  Cardinality({i \in DOMAIN stack : stack[i].at = "Destroy.Stop"})
           = IF frame = "Destroy.Stop" THEN 1 ELSE 0
<1> DEFINE S == {i \in DOMAIN stack : stack[i].at = "Destroy.Stop"}
<1>1. S = IF frame = "Destroy.Stop" THEN {1} ELSE {}
  BY DEF OneFrame, Frames, frame
<1>2. Cardinality({1}) = 1 /\ Cardinality({}) = 0
  BY ZenonT(30), FS_Singleton, FS_EmptySet
<1> QED
  BY <1>1, <1>2

-----------------------------------------------------------------------------
(* The invariant. *)

\* A new object, on which no method has been called, satisfies the invariant.
LEMMA InitIInv == Init => IInv
<1> SUFFICES ASSUME Init PROVE IInv
  OBVIOUS
<1>1. TypeOK
  <2>1. held \in [{Main, Worker} -> Nat] /\ stack \in Seq(Frames) /\ runs \in 0..MaxRuns
    BY SignalThreadAssumption DEF Init
  <2>2. refcount_ \in Int /\ posted \in Nat
    BY DEF Init
  <2> QED
    BY <2>1, <2>2, Zenon DEF Init, TypeOK, States, Frames
<1>2. OneFrame /\ frame = "none" /\ ~do_delete
  BY DEF Init, OneFrame, frame, do_delete
<1>3. held[Main] = 0 /\ held[Worker] = 0
  BY DEF Init, Main, Worker
<1> QED
  BY <1>1, <1>2, <1>3
     DEF Init, IInv, Locks, Refs, Gone, Work, Method, Owner, Running, InOnMessage

\* What the invariant says besides the shape of the stack.
Rest == Locks /\ Refs /\ Gone /\ Work /\ Method /\ Owner

\* The calls of the owner keep the invariant: Start, Release and Destroy of a
\* worker that does not run do not block.
LEMMA CallsKeep ==
  ASSUME IInv, Start \/ Release \/ DestroyIdle
  PROVE  IInv'
<1>1. /\ OneFrame' /\ frame' = frame /\ do_delete' = do_delete
      /\ held' = held /\ stack' = stack /\ main_' = main_ /\ quit' = quit
  BY DEF IInv, OneFrame, frame, do_delete, Start, Release, DestroyIdle
<1>2. /\ deleted = "no" /\ held[Worker] = 0
      /\ frame \in {"none", "SignalWorkDone"} /\ owner = "owns"
  BY AtIsFrame DEF IInv, InOwner, CanEnter, Main, Worker, Start, Release, DestroyIdle
<1>3. CASE Start
  <2>1. TypeOK'
    BY <1>1, <1>3, SignalThreadAssumption DEF IInv, TypeOK, States, Start
  <2>2. Rest'
    BY <1>1, <1>2, <1>3 DEF IInv, TypeOK, Start, Rest, Locks, Refs, Gone, Work,
                            Method, Owner, Running, InOnMessage
  <2> QED
    BY <1>1, <2>1, <2>2 DEF IInv, Rest
<1>4. CASE Release \/ DestroyIdle
  <2>1. TypeOK'
    BY <1>1, <1>4 DEF IInv, TypeOK, States, Main, Worker, Release, DestroyIdle, Drop
  <2>2. ASSUME state_' = "kReleasing" /\ state_ = "kRunning" PROVE Rest'
    BY <1>1, <1>2, <1>4, <2>2
       DEF IInv, TypeOK, Release, DestroyIdle, Rest, Locks, Refs, Gone, Work, Method,
           Owner, Running, InOnMessage
  <2>3. ASSUME state_ \in {"kInit", "kComplete"} PROVE Rest'
    <3>1. state_' = state_ /\ worker' = worker /\ owner' = "gone" /\ Drop(Main, 1)
      BY <1>4, <2>3 DEF Release, DestroyIdle
    <3>2. /\ worker = "none" /\ posted = 0
          /\ frame = "SignalWorkDone" => state_ = "kComplete"
      BY <2>3 DEF IInv, TypeOK, Work, Method, Running
    <3>3. refcount_ = IF frame = "none" THEN 1 ELSE 2
      BY <1>2, <2>3 DEF IInv, Refs, Locks, InOnMessage
    <3>4. CASE frame = "none"
      <4>1. refcount_' = 0 /\ deleted' = Main /\ posted' = 0
        BY <3>1, <3>3, <3>4 DEF Drop
      <4> QED
        BY <1>1, <1>2, <3>1, <3>2, <3>4, <4>1
           DEF IInv, Rest, Locks, Refs, Gone, Work, Method, Owner, InOnMessage, Main
    <3>5. CASE frame = "SignalWorkDone"
      <4>1. refcount_' = 1 /\ deleted' = "no" /\ posted' = 0
        BY <1>2, <3>1, <3>2, <3>3, <3>5 DEF Drop
      <4> QED
        BY <1>1, <1>2, <3>1, <3>2, <3>5, <4>1
           DEF IInv, Rest, Locks, Refs, Gone, Work, Method, Owner, InOnMessage
    <3> QED
      BY <1>2, <3>4, <3>5
  <2>4. Rest'
    BY <1>4, <2>2, <2>3 DEF Release, DestroyIdle
  <2> QED
    BY <1>1, <2>1, <2>4 DEF IInv, Rest
<1> QED
  BY <1>3, <1>4

\* Destroy of a running worker keeps it, whether it waits or not.
LEMMA DestroyKeeps ==
  ASSUME IInv, Reentrant = FALSE, NEW wait \in BOOLEAN, Destroy(wait)
  PROVE  IInv'
<1>1. /\ stack = <<>> /\ frame = "none" /\ deleted = "no"
      /\ held' = held /\ worker' = worker /\ posted' = posted /\ main_' = main_
      /\ deleted' = deleted /\ owner' = "gone" /\ state_' = "kStopping"
      /\ held[Main] = 0 /\ refcount_ = held[Main] + held[Worker] + 1
  BY DEF IInv, Destroy, InOwner, frame, Locks, Refs, InOnMessage
<1>2. CASE wait
  <2> DEFINE f == [at |-> "Destroy.Stop", do_delete |-> TRUE]
  <2>1. f \in Frames /\ Push(f) /\ refcount_' = refcount_ + 1 /\ quit' = TRUE
    BY <1>2 DEF Frames, Destroy
  <2>2. OneFrame' /\ frame' = "Destroy.Stop"
    BY <1>1, <2>1, PushOne
  <2>3. stack' \in Seq(Frames)
    BY <1>1, <2>1 DEF Push
  <2>4. TypeOK'
    BY <1>1, <2>1, <2>3 DEF IInv, TypeOK, States, Frames, Destroy
  <2> QED
    BY <1>1, <2>1, <2>2, <2>4
       DEF IInv, TypeOK, Locks, Refs, Gone, Work, Method, Owner, Running, InOnMessage
<1>3. CASE ~wait
  <2>1. UNCHANGED <<stack, refcount_>> /\ quit' = TRUE
    BY <1>3 DEF Destroy
  <2>2. OneFrame' /\ frame' = "none"
    BY <1>1, <2>1 DEF OneFrame, frame
  <2>3. TypeOK'
    BY <1>1, <2>1 DEF IInv, TypeOK, States, Destroy
  <2> QED
    BY <1>1, <2>1, <2>2, <2>3
       DEF IInv, TypeOK, Locks, Refs, Gone, Work, Method, Owner, Running, InOnMessage
<1> QED
  BY <1>2, <1>3

\* When Stop has joined the worker, Destroy deletes the object.
LEMMA DestroyStoppedKeeps ==
  ASSUME IInv, DestroyStopped
  PROVE  IInv'
<1>1. /\ stack # <<>> /\ frame = "Destroy.Stop" /\ worker = "none" /\ deleted = "no"
      /\ state_ = "kStopping" /\ held[Main] = 0 /\ held[Worker] = 0 /\ refcount_ = 2
  BY AtIsFrame DEF IInv, DestroyStopped, At, Locks, Refs, Gone, Method, InOnMessage
<1>2. /\ refcount_' = 0 /\ deleted' = Main /\ posted' = 0 /\ Pop
      /\ held' = held /\ worker' = worker /\ main_' = main_ /\ owner' = owner
      /\ state_' = state_ /\ quit' = quit /\ runs' = runs
  BY <1>1 DEF DestroyStopped, Drop
<1>3. stack' = <<>> /\ OneFrame' /\ frame' = "none"
  BY <1>1, <1>2, PopOne DEF IInv
<1>4. TypeOK'
  BY <1>2, <1>3 DEF IInv, TypeOK
<1> QED
  BY <1>1, <1>2, <1>3, <1>4
     DEF IInv, Locks, Refs, Gone, Work, Method, Owner, InOnMessage, Main

\* The steps of the worker keep it: it is done, posts and leaves cs_.
LEMMA WorkerKeeps ==
  ASSUME IInv, WorkerSteps
  PROVE  IInv'
<1>1. /\ OneFrame' /\ frame' = frame /\ do_delete' = do_delete /\ stack' = stack
      /\ state_' = state_ /\ main_' = main_ /\ owner' = owner /\ quit' = quit
      /\ runs' = runs
  BY DEF IInv, OneFrame, frame, do_delete, WorkerSteps, DoWork, RunPost, RunExit
<1>2. deleted = "no"
  BY DEF IInv, Gone, WorkerSteps, DoWork, RunPost, RunExit
<1>3. CASE DoWork
  <2>1. TypeOK'
    BY <1>1, <1>3 DEF IInv, TypeOK, DoWork
  <2> QED
    BY <1>1, <1>3, <2>1
       DEF IInv, DoWork, Locks, Refs, Gone, Work, Method, Owner
<1>4. CASE RunPost
  <2>1. /\ worker = "Run" /\ worker' = "Posted" /\ posted = 0 /\ held[Worker] = 0
        /\ held[Main] = 0 /\ frame \notin InOnMessage /\ deleted' = "no"
    BY <1>2, <1>4 DEF IInv, TypeOK, RunPost, Locks, Work, CanEnter, Main, Worker
  <2>2. posted' \in Nat /\ (posted' > 0 => posted' = 1 /\ main_)
    BY <1>4, <2>1 DEF IInv, RunPost, PostDone
  <2>3. /\ held' = [held EXCEPT ![Worker] = 1] /\ held'[Main] = 0 /\ held'[Worker] = 1
        /\ refcount_' = refcount_ + 1
    BY <1>4, <2>1 DEF IInv, TypeOK, RunPost, Main, Worker
  <2>4. TypeOK'
    BY <1>1, <2>1, <2>2, <2>3 DEF IInv, TypeOK
  <2> QED
    BY <1>1, <1>2, <2>1, <2>2, <2>3, <2>4
       DEF IInv, TypeOK, Locks, Refs, Gone, Work, Method, Owner
<1>5. CASE RunExit
  <2>1. /\ worker = "Posted" /\ worker' = "none" /\ held[Worker] = 1 /\ held[Main] = 0
        /\ frame \notin InOnMessage /\ refcount_' = refcount_ - 1
    BY <1>5 DEF IInv, TypeOK, RunExit, Exit, Drop, Locks
  <2>2. refcount_ >= 2
    BY <1>2, <2>1 DEF IInv, Refs, Owner, InOnMessage, Work, Running
  <2>3. UNCHANGED <<deleted, posted>>
    BY <1>5, <2>1, <2>2 DEF IInv, TypeOK, RunExit, Exit, Drop
  <2>4. held' = [held EXCEPT ![Worker] = 0] /\ held'[Main] = 0 /\ held'[Worker] = 0
    BY <1>5, <2>1 DEF IInv, TypeOK, RunExit, Exit, Main, Worker
  <2>5. TypeOK'
    BY <1>1, <2>1, <2>3, <2>4 DEF IInv, TypeOK
  <2> QED
    BY <1>1, <1>2, <2>1, <2>3, <2>4, <2>5
       DEF IInv, TypeOK, Locks, Refs, Gone, Work, Method, Owner
<1> QED
  BY <1>3, <1>4, <1>5 DEF WorkerSteps

\* The main thread takes ST_MSG_WORKER_DONE: for a destroyed object it only drops
\* the last reference, otherwise it enters cs_ and waits for the worker.
LEMMA OnMessageKeeps ==
  ASSUME IInv, OnMessage
  PROVE  IInv'
<1>1. /\ deleted = "no" /\ stack = <<>> /\ frame = "none" /\ posted = 1 /\ main_
      /\ held[Main] = 0 /\ held[Worker] = 0 /\ worker = "none"
      /\ state_ \in Running
      /\ main_' = main_ /\ owner' = owner /\ worker' = worker /\ quit' = quit
      /\ runs' = runs
  BY DEF IInv, OnMessage, CanEnter, Main, Worker, frame, Work, Locks, InOnMessage
<1>2. CASE Silent
  <2>1. state_ = "kStopping" /\ refcount_ = 1
    BY <1>1, <1>2 DEF IInv, Refs, Silent
  <2>2. /\ refcount_' = 0 /\ deleted' = Main /\ posted' = 0
        /\ state_' = state_ /\ held' = held /\ stack' = stack
    BY <1>2, <2>1 DEF OnMessage
  <2>3. OneFrame' /\ frame' = "none"
    BY <1>1, <2>2 DEF OneFrame, frame
  <2>4. TypeOK'
    BY <1>1, <2>2 DEF IInv, TypeOK
  <2> QED
    BY <1>1, <2>1, <2>2, <2>3, <2>4
       DEF IInv, Locks, Refs, Gone, Work, Method, Owner, InOnMessage, Main
<1>3. CASE ~Silent
  <2> DEFINE f == [at |-> "OnMessage.Stop", do_delete |-> state_ # "kRunning"]
  <2>1. /\ state_ \in {"kRunning", "kReleasing"}
        /\ state_' = IF state_ = "kRunning" THEN "kComplete" ELSE state_
        /\ refcount_' = refcount_ + 1 /\ posted' = 0 /\ deleted' = "no"
        /\ f \in Frames /\ Push(f)
    BY <1>1, <1>3 DEF OnMessage, Silent, Running, Frames
  <2>2. held' = [held EXCEPT ![Main] = 1] /\ held'[Main] = 1 /\ held'[Worker] = 0
    BY <1>1, <1>3 DEF IInv, TypeOK, OnMessage, Main, Worker
  <2>3. OneFrame' /\ frame' = "OnMessage.Stop" /\ do_delete' = (state_ # "kRunning")
    BY <1>1, <2>1, PushOne
  <2>4. stack' \in Seq(Frames)
    BY <1>1, <2>1 DEF Push
  <2>5. TypeOK'
    BY <1>1, <2>1, <2>2, <2>4 DEF IInv, TypeOK, States, Frames
  <2>6. owner # "gone"
    BY <1>1, <2>1 DEF IInv, Owner
  <2>7. Locks' /\ Gone' /\ Work' /\ Method'
    BY <1>1, <2>1, <2>2, <2>3 DEF Locks, Gone, Work, Method, InOnMessage
  <2>8. Refs' /\ Owner'
    BY <1>1, <2>1, <2>2, <2>3, <2>6 DEF IInv, TypeOK, Refs, Owner
  <2> QED
    BY <2>3, <2>5, <2>7, <2>8 DEF IInv
<1> QED
  BY <1>2, <1>3

\* Stop returns and the work is reported: only the frame changes.
LEMMA SignalWorkDoneKeeps ==
  ASSUME IInv, SignalWorkDone
  PROVE  IInv'
<1>1. stack # <<>> /\ frame = "OnMessage.Stop"
  BY AtIsFrame DEF IInv, SignalWorkDone, At
<1>2. OneFrame' /\ frame' = "SignalWorkDone" /\ do_delete' = do_delete
  BY <1>1, GotoOne DEF IInv, SignalWorkDone
<1>3. stack' \in Seq(Frames)
  <2>1. PICK f \in Frames : stack' = <<f>>
    BY <1>2 DEF OneFrame, frame
  <2> QED
    BY <2>1
<1>4. TypeOK'
  BY <1>3 DEF IInv, TypeOK, SignalWorkDone, Frames
<1> QED
  BY ZenonT(30), <1>1, <1>2, <1>4
     DEF IInv, SignalWorkDone, Locks, Refs, Gone, Work, Method, Owner, InOnMessage

\* OnMessage returns: it drops its own reference, and the one of an owner that had
\* released the object.
LEMMA OnMessageReturnsKeeps ==
  ASSUME IInv, OnMessageReturns
  PROVE  IInv'
<1>1. /\ stack # <<>> /\ frame = "SignalWorkDone" /\ Top.do_delete = do_delete
      /\ held[Main] = 1 /\ held[Worker] = 0 /\ deleted = "no" /\ posted = 0
      /\ worker # "Posted"
  BY AtIsFrame DEF IInv, TypeOK, OnMessageReturns, At, Locks, Gone, Work, InOnMessage
<1>2. /\ held' = [held EXCEPT ![Main] = 0] /\ held'[Main] = 0 /\ held'[Worker] = 0
      /\ state_' = state_ /\ main_' = main_ /\ owner' = owner /\ worker' = worker
      /\ quit' = quit /\ runs' = runs
  BY <1>1 DEF IInv, TypeOK, OnMessageReturns, Exit, Main, Worker
<1>3. stack' = <<>> /\ OneFrame' /\ frame' = "none"
  BY <1>1, PopOne DEF IInv, OnMessageReturns
<1>4. refcount_ = IF owner = "gone" THEN 1 ELSE 2
  BY <1>1 DEF IInv, Refs, Method
<1>5. CASE do_delete \/ owner = "gone"
  <2>1. /\ refcount_ = IF do_delete THEN 2 ELSE 1
        /\ worker = "none"
    BY <1>1, <1>4, <1>5 DEF IInv, Method, Owner, Work, Running
  <2>2. refcount_' = 0 /\ deleted' = Main /\ posted' = 0
    BY <1>1, <2>1 DEF OnMessageReturns, Exit, Drop
  <2>3. TypeOK'
    BY <1>2, <1>3, <2>2 DEF IInv, TypeOK
  <2> QED
    BY <1>2, <1>3, <2>1, <2>2, <2>3
       DEF IInv, Locks, Refs, Gone, Work, Method, Owner, InOnMessage, Main
<1>6. CASE ~do_delete /\ owner # "gone"
  <2>1. refcount_' = 1 /\ deleted' = "no" /\ posted' = 0
    BY <1>1, <1>4, <1>6 DEF OnMessageReturns, Exit, Drop
  <2>2. TypeOK'
    BY <1>2, <1>3, <2>1 DEF IInv, TypeOK
  <2> QED
    BY <1>1, <1>2, <1>3, <1>6, <2>1, <2>2
       DEF IInv, Locks, Refs, Gone, Work, Method, Owner, InOnMessage
<1> QED
  BY <1>5, <1>6

\* The main thread's queue goes away, with the message in it.
LEMMA MainDestroyedKeeps ==
  ASSUME IInv, OnMainThreadDestroyed
  PROVE  IInv'
<1>1. /\ OneFrame' /\ frame' = frame /\ do_delete' = do_delete
  BY DEF IInv, OneFrame, frame, do_delete, OnMainThreadDestroyed
<1>2. TypeOK'
  BY ZenonT(30) DEF IInv, TypeOK, OnMainThreadDestroyed
<1> QED
  BY <1>1, <1>2
     DEF IInv, OnMainThreadDestroyed, Locks, Refs, Gone, Work, Method, Owner

\* Every step keeps the invariant.
LEMMA NextIInv ==
  ASSUME Reentrant = FALSE
  PROVE  IInv /\ [Next]_vars => IInv'
<1> SUFFICES ASSUME IInv, [Next]_vars PROVE IInv'
  OBVIOUS
<1>1. CASE Calls
  BY ZenonT(30), <1>1, CallsKeep, DestroyKeeps DEF Calls
<1>2. CASE MainSteps
  BY <1>2, OnMessageKeeps, SignalWorkDoneKeeps, OnMessageReturnsKeeps,
     DestroyStoppedKeeps DEF MainSteps
<1>3. CASE UNCHANGED vars
  <2>1. OneFrame' /\ frame' = frame /\ do_delete' = do_delete
    BY <1>3 DEF IInv, OneFrame, frame, do_delete, vars
  <2>2. TypeOK'
    BY <1>3 DEF IInv, TypeOK, vars
  <2> QED
    BY <1>3, <2>1, <2>2 DEF IInv, vars, Locks, Refs, Gone, Work, Method, Owner
<1> QED
  BY <1>1, <1>2, <1>3, WorkerKeeps, MainDestroyedKeeps DEF Next, Done

-----------------------------------------------------------------------------
(* The theorems. *)

\* For any number of runs, the reference count of EnterExit, Start, Release and
\* Destroy is the number of open EnterExits and the owner's reference.
THEOREM CountIsExact == Reentrant = FALSE => (Spec => []RefsCounted)
<1> SUFFICES ASSUME Reentrant = FALSE PROVE Spec => []RefsCounted
  BY ZenonT(30)
<1>1. IInv => RefsCounted
  BY OpenDestroys DEF IInv, TypeOK, Refs, RefsCounted, OpenExits, Main, Worker
<1> QED
  BY <1>1, InitIInv, NextIInv, PTL DEF Spec

\* For any number of runs, the object is deleted by the main thread, with no
\* method, worker or message left.
THEOREM DeletedSafely == Reentrant = FALSE => (Spec => []SafeDelete)
<1> SUFFICES ASSUME Reentrant = FALSE PROVE Spec => []SafeDelete
  BY ZenonT(30)
<1>1. IInv => SafeDelete
  BY AtIsFrame DEF IInv, TypeOK, Locks, Gone, SafeDelete, InOnMessage, Main, Worker
<1> QED
  BY <1>1, InitIInv, NextIInv, PTL DEF Spec

\* For any number of runs, at most one ST_MSG_WORKER_DONE is queued, at a main
\* thread that exists.
THEOREM PostedOnce == Reentrant = FALSE => (Spec => []PostedToLiving)
<1> SUFFICES ASSUME Reentrant = FALSE PROVE Spec => []PostedToLiving
  BY ZenonT(30)
<1>1. IInv => PostedToLiving
  BY DEF IInv, TypeOK, Gone, Work, PostedToLiving
<1> QED
  BY <1>1, InitIInv, NextIInv, PTL DEF Spec

\* For any number of runs, OnMessage does not call SignalWorkDone once Destroy has
\* been called.
THEOREM DestroyedIsSilent == Reentrant = FALSE => (Spec => SilentAfterDestroy)
<1> SUFFICES ASSUME Reentrant = FALSE PROVE Spec => SilentAfterDestroy
  BY ZenonT(30)
<1>1. IInv => (At("OnMessage.Stop") /\ At("SignalWorkDone")' => state_ # "kStopping")
  BY AtIsFrame DEF IInv, Method
<1> QED
  BY <1>1, InitIInv, NextIInv, PTL DEF Spec, SilentAfterDestroy

=============================================================================
