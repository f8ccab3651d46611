---------------------------- MODULE SignalThread ----------------------------
(***************************************************************************)
(* talk_base::SignalThread (signalthread.cc): a worker thread in an object *)
(* that its owner, on the main thread, starts, releases and destroys, and  *)
(* that deletes itself when its reference count drops to zero.             *)
(*                                                                         *)
(* Every method holds cs_ through an EnterExit, which also counts as a     *)
(* reference; cs_ may be entered again by the thread that holds it.  A     *)
(* method that does not block while it holds cs_ is one step.  The methods *)
(* of the main thread that block are frames of its stack, which nest: the  *)
(* owner may call methods from inside SignalWorkDone.                      *)
(***************************************************************************)
EXTENDS Integers, Sequences, FiniteSets

CONSTANTS MaxRuns,    \* bound on the calls of Start
          Reentrant   \* may the owner destroy a running worker in SignalWorkDone

ASSUME SignalThreadAssumption == MaxRuns \in Nat /\ Reentrant \in BOOLEAN

VARIABLES state_,
          refcount_,
          main_,      \* is main_ not NULL
          owner,      \* what the owner has done with its reference
          held,       \* how often each thread has entered cs_
          worker,     \* what the worker thread does
          quit,       \* worker_.fStop_
          posted,     \* ST_MSG_WORKER_DONE messages in the queue of the main thread
          stack,      \* the methods that the main thread is in
          deleted,    \* the thread that deleted the object, or "no"
          runs

vars == <<state_, refcount_, main_, owner, held, worker, quit, posted, stack,
          deleted, runs>>

States == {"kInit", "kRunning", "kReleasing", "kComplete", "kStopping"}
Main == "main"
Worker == "worker"

Init ==
  /\ state_ = "kInit"
  /\ refcount_ = 1
  /\ main_ = TRUE
  /\ owner = "owns"
  /\ held = [t \in {Main, Worker} |-> 0]
  /\ worker = "none"
  /\ quit = FALSE
  /\ posted = 0
  /\ stack = <<>>
  /\ deleted = "no"
  /\ runs = 0

-----------------------------------------------------------------------------
(* EnterExit. *)

CanEnter(t) == \A u \in {Main, Worker} \ {t} : held[u] = 0

\* The references dropped by a method that returns: its own and n others.  The
\* destructor of MessageHandler clears the messages for the object.
Drop(t, n) ==
  /\ refcount_' = refcount_ - n
  /\ IF refcount_' = 0 THEN deleted' = t /\ posted' = 0
                       ELSE UNCHANGED <<deleted, posted>>

Exit_NoCount(t, n) ==
  held' = [held EXCEPT ![t] = @ - 1] /\ Drop(t, n)

Exit(t, n) ==
  /\ held' = [held EXCEPT ![t] = @ - 1]
  /\ Drop(t, n + 1)

Top == stack[Len(stack)]
At(f) == stack # <<>> /\ Top.at = f
Push(f) == stack' = Append(stack, f)
Pop == stack' = SubSeq(stack, 1, Len(stack) - 1)
Goto(f) == stack' = [stack EXCEPT ![Len(stack)].at = f]

\* Where the owner may call a method: outside of the object's methods, or in
\* SignalWorkDone.
InOwner ==
  /\ main_
  /\ deleted = "no"
  /\ stack = <<>> \/ At("SignalWorkDone")
  /\ CanEnter(Main)

-----------------------------------------------------------------------------
(* The owner's calls.  Those that the code refuses with ASSERT(false) are not *)
(* made.                                                                      *)

Start ==
  /\ InOwner
  /\ state_ \in {"kInit", "kComplete"}
  /\ owner = "owns" /\ runs < MaxRuns
  /\ runs' = runs + 1
  /\ state_' = "kRunning"
  /\ worker' = "DoWork"
  /\ UNCHANGED <<refcount_, main_, owner, held, quit, posted, stack, deleted>>

Release ==
  /\ InOwner
  /\ owner = "owns"
  /\ \/ /\ state_ = "kComplete"
        /\ owner' = "gone"
        /\ Drop(Main, 1)
        /\ UNCHANGED state_
     \/ /\ state_ = "kRunning"
        /\ owner' = "released"
        /\ state_' = "kReleasing"
        /\ UNCHANGED <<refcount_, deleted, posted>>
  /\ UNCHANGED <<main_, held, worker, quit, stack, runs>>

DestroyIdle ==
  /\ InOwner
  /\ owner = "owns" /\ owner' = "gone"
  /\ state_ \in {"kInit", "kComplete"}
  /\ Drop(Main, 1)
  /\ UNCHANGED <<state_, main_, held, worker, quit, stack, runs>>

\* Destroy(wait) of a worker that runs: if wait, cs_ is left for Stop.
Destroy(wait) ==
  /\ InOwner
  /\ state_ \in {"kRunning", "kReleasing"}
  /\ stack = <<>> \/ Reentrant
  /\ owner # "gone" /\ owner' = "gone"
  /\ state_' = "kStopping"
  /\ quit' = TRUE
  /\ IF wait THEN Push([at |-> "Destroy.Stop", do_delete |-> TRUE])
                  /\ refcount_' = refcount_ + 1
             ELSE UNCHANGED <<stack, refcount_>>
  /\ UNCHANGED <<main_, held, worker, posted, deleted, runs>>

DestroyStopped_NoJoin ==
  /\ At("Destroy.Stop")
  /\ CanEnter(Main)
  /\ Drop(Main, 2)
  /\ Pop
  /\ UNCHANGED <<state_, main_, owner, held, worker, quit, runs>>

\* Stop has joined the worker: cs_ is entered again.
DestroyStopped ==
  /\ At("Destroy.Stop")
  /\ worker = "none"
  /\ CanEnter(Main)
  /\ Drop(Main, 2)
  /\ Pop
  /\ UNCHANGED <<state_, main_, owner, held, worker, quit, runs>>

-----------------------------------------------------------------------------
(* The worker thread: SignalThread::Run. *)

\* ContinueWork reports that the worker is to stop, or DoWork is done.
DoWork ==
  /\ worker = "DoWork"
  /\ quit => CanEnter(Worker)
  /\ worker' = "Run"
  /\ UNCHANGED <<state_, refcount_, main_, owner, held, quit, posted, stack,
                 deleted, runs>>

\* The message is posted to a main thread that still exists, with cs_ entered.
PostDone_Anyway == posted' = posted + 1
PostDone_Once == posted' = IF main_ /\ runs = 1 THEN 1 ELSE posted
PostDone == posted' = IF main_ THEN posted + 1 ELSE posted

RunPost ==
  /\ worker = "Run"
  /\ CanEnter(Worker)
  /\ held' = [held EXCEPT ![Worker] = @ + 1]
  /\ refcount_' = refcount_ + 1
  /\ PostDone
  /\ worker' = "Posted"
  /\ UNCHANGED <<state_, main_, owner, quit, stack, deleted, runs>>

RunExit ==
  /\ worker = "Posted"
  /\ Exit(Worker, 0)
  /\ worker' = "none"
  /\ UNCHANGED <<state_, main_, owner, quit, stack, runs>>

-----------------------------------------------------------------------------
(* The main thread handles ST_MSG_WORKER_DONE. *)

\* Neither Stop nor SignalWorkDone is called.
Silent_Never == FALSE
Silent == state_ = "kStopping"

OnMessage ==
  /\ deleted = "no" /\ main_
  /\ posted > 0
  /\ stack = <<>>
  /\ CanEnter(Main)
  /\ IF Silent
     THEN /\ refcount_' = refcount_ - 1
          /\ IF refcount_' = 0 THEN deleted' = Main /\ posted' = 0
                               ELSE UNCHANGED deleted /\ posted' = posted - 1
          /\ UNCHANGED <<state_, held, stack>>
     ELSE /\ state_' = IF state_ = "kRunning" THEN "kComplete" ELSE state_
          /\ held' = [held EXCEPT ![Main] = @ + 1]
          /\ refcount_' = refcount_ + 1
          /\ posted' = posted - 1
          /\ Push([at |-> "OnMessage.Stop", do_delete |-> state_ # "kRunning"])
          /\ UNCHANGED deleted
  /\ UNCHANGED <<main_, owner, worker, quit, runs>>

\* worker_.Stop() returns once the worker is gone; cs_ is still held.
SignalWorkDone ==
  /\ At("OnMessage.Stop")
  /\ worker = "none"
  /\ quit' = TRUE
  /\ Goto("SignalWorkDone")
  /\ UNCHANGED <<state_, refcount_, main_, owner, held, worker, posted,
                 deleted, runs>>

OnMessageReturns_Keeps ==
  /\ At("SignalWorkDone")
  /\ Exit(Main, 0)
  /\ Pop
  /\ UNCHANGED <<state_, main_, owner, worker, quit, runs>>

OnMessageReturns ==
  /\ At("SignalWorkDone")
  /\ Exit(Main, IF Top.do_delete THEN 1 ELSE 0)
  /\ Pop
  /\ UNCHANGED <<state_, main_, owner, worker, quit, runs>>

\* The main thread's queue is destroyed, and the messages in it.
OnMainThreadDestroyed ==
  /\ main_ /\ deleted = "no"
  /\ stack = <<>>
  /\ CanEnter(Main)
  /\ main_' = FALSE
  /\ posted' = 0
  /\ UNCHANGED <<state_, refcount_, owner, held, worker, quit, stack, deleted,
                 runs>>

-----------------------------------------------------------------------------
Calls == Start \/ Release \/ DestroyIdle \/ \E wait \in BOOLEAN : Destroy(wait)
WorkerSteps == DoWork \/ RunPost \/ RunExit
MainSteps == OnMessage \/ SignalWorkDone \/ OnMessageReturns \/ DestroyStopped

Done == /\ deleted # "no" \/ ~main_
        /\ worker = "none" /\ stack = <<>>
        /\ UNCHANGED vars

Next == Calls \/ WorkerSteps \/ MainSteps \/ OnMainThreadDestroyed \/ Done

Spec == Init /\ [][Next]_vars

\* The main thread and the worker go on as long as they can: DoWork returns, and
\* the main thread handles its messages.
FairSpec == Spec /\ WF_vars(WorkerSteps) /\ WF_vars(MainSteps)

-----------------------------------------------------------------------------
TypeOK ==
  /\ state_ \in States
  /\ refcount_ \in Int
  /\ main_ \in BOOLEAN
  /\ owner \in {"owns", "released", "gone"}
  /\ held \in [{Main, Worker} -> Nat]
  /\ worker \in {"none", "DoWork", "Run", "Posted"}
  /\ quit \in BOOLEAN
  /\ posted \in Nat
  /\ stack \in Seq([at : {"OnMessage.Stop", "SignalWorkDone", "Destroy.Stop"},
                    do_delete : BOOLEAN])
  /\ deleted \in {"no", Main, Worker}
  /\ runs \in 0..MaxRuns

\* EnterExits that are open; Destroy has left cs_ but not its EnterExit.
OpenExits ==
  held[Main] + held[Worker]
    + Cardinality({i \in DOMAIN stack : stack[i].at = "Destroy.Stop"})

\* The references are those of the EnterExits that are open and, until the owner
\* has dropped it or the object deletes itself, the one it was created with.
\* The owner's reference is dropped once.
RefsCounted ==
  deleted = "no" =>
    refcount_ = OpenExits
                   + IF owner = "gone" /\ state_ # "kStopping" THEN 0 ELSE 1

\* The object is deleted by the main thread only, with no method of its own or of
\* the worker under way: a worker that deleted it would join itself (~Worker).
SafeDelete ==
  deleted # "no" => /\ deleted = Main
                    /\ stack = <<>> /\ held = [t \in {Main, Worker} |-> 0]
                    /\ worker = "none" /\ posted = 0

\* ST_MSG_WORKER_DONE is only queued at a main thread that exists (Run tests
\* main_ under cs_), and at most once.
PostedToLiving == posted > 0 => main_ /\ posted = 1 /\ deleted = "no"

\* An object whose owner has given it up is deleted, unless the main thread goes
\* away first.
GivenUpIsDeleted == owner # "owns" ~> deleted # "no" \/ ~main_

\* Work that is started is reported by SignalWorkDone, unless it is destroyed or
\* the main thread goes away.
WorkIsReported ==
  state_ = "kRunning" ~> At("SignalWorkDone") \/ state_ = "kStopping" \/ ~main_

\* SignalWorkDone is not signaled once the object is destroyed.
SilentAfterDestroy ==
  [][ At("OnMessage.Stop") /\ At("SignalWorkDone")' => state_ # "kStopping" ]_vars

\* Work is told to stop only if the owner destroys the object, also when it is
\* started again ("call Start() again to repeat the task").
ContinueWork == worker = "DoWork" /\ quit => state_ = "kStopping"
=============================================================================
