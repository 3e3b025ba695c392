--------------------------- MODULE BackgroundRun ---------------------------
(***************************************************************************)
(* A Background Run (src/logdata/include/backgroundrun.h): jobs run one at *)
(* a time on a thread of their own, started, interrupted and shut down by  *)
(* the owner thread, and reported back to it through a mailbox that the    *)
(* owner's event loop empties.  Indexing and searching both run on it.     *)
(*                                                                         *)
(* Three actors interleave: the owner thread (start, interrupt, the        *)
(* destructor, deliveries, and the event loops a delivery may run inside   *)
(* itself), the pool's only thread (a runnable: job, end, post), and any   *)
(* thread replacing the policy.                                            *)
(***************************************************************************)
EXTENDS Integers, Sequences

CONSTANTS
    Policies,     \* the values a Policy can have
    MaxRuns,      \* bound: how many runs the owner starts
    MaxPending,   \* bound: reports waiting in the mailbox before a job reports more progress
    MaxWakes,     \* bound: "deliver" calls queued before a job reports more progress
    MaxNesting    \* bound: deliveries on the owner's stack

ASSUME PoliciesAssumption == Policies # {}
ASSUME BoundsAssumption ==
    /\ MaxRuns \in Nat \ {0} /\ MaxPending \in Nat /\ MaxWakes \in Nat
    /\ MaxNesting \in Nat \ {0}

VARIABLES
    owner,        \* what the owner thread does: runs its own code, or is inside start() or the destructor
    lastRun,      \* lastRun_
    activeRun,    \* shared_->activeRun, 0 when no run is wanted
    policy,       \* policy_
    runPolicy,    \* the copy each runnable was handed
    attached,     \* how often the reader is attached
    undelivered,  \* undelivered_
    queued,       \* runnables the pool has not begun
    running,      \* the run on the pool's thread, 0 when it is idle
    begun,        \* the last run whose runnable released its semaphore
    end,          \* how the job on the pool's thread ended, its report not posted yet
    pending,      \* the mailbox
    open,         \* relay # nullptr
    wakes,        \* queued "deliver" calls in the owner's event queue
    stack,        \* the deliveries on the owner's stack, innermost last
    finishes      \* history: the runs whose finish report was delivered, in order

ownerVars == <<owner, lastRun, attached, undelivered>>
poolVars  == <<queued, running, begun, end>>
mailVars  == <<pending, open, wakes>>
vars == <<ownerVars, activeRun, policy, runPolicy, poolVars, mailVars, stack, finishes>>

Runs == 1..MaxRuns
Ends == {"returned", "superseded", "failed"}
NoEnd == "none"

Progress(run)    == [kind |-> "progress", run |-> run, end |-> NoEnd]
Finish(run, how) == [kind |-> "finish", run |-> run, end |-> how]
Report == [kind : {"progress", "finish"}, run : Runs, end : Ends \cup {NoEnd}]

\* A frame of the deliver() loop between two deliveries.
Between == [kind |-> "between", run |-> 0, end |-> NoEnd]
Frames == Report \cup {Between}

Top == stack[Len(stack)]
SetTop(frame) == [stack EXCEPT ![Len(stack)] = frame]
PopFrame == SubSeq(stack, 1, Len(stack) - 1)

\* The owner thread runs code of its own: its event loop, or a callback.
OwnerRuns ==
    /\ owner \in {"free", "closed", "abandoned"}
    /\ stack # <<>> => Top # Between

\* ... and the Background Run is there to be called.
OwnerFree == owner = "free" /\ OwnerRuns

IsSuperseded(run) == activeRun # run

\* A report whose delivery detaches the reader: deliverFinish().
HoldsReader_Any(report) == TRUE
HoldsReader(report) == report.kind = "finish"

TypeOK ==
    /\ owner \in {"free", "activated", "starting", "closing", "closed", "abandoned"}
    /\ lastRun \in 0..MaxRuns
    /\ activeRun \in 0..MaxRuns
    /\ policy \in Policies
    /\ runPolicy \in [Runs -> Policies]
    /\ attached \in Nat
    /\ undelivered \in Nat
    /\ queued \in Seq(Runs)
    /\ running \in 0..MaxRuns
    /\ begun \in 0..MaxRuns
    /\ end \in Ends \cup {NoEnd}
    /\ pending \in Seq(Report)
    /\ open \in BOOLEAN
    /\ wakes \in Nat
    /\ stack \in Seq(Frames)
    /\ finishes \in Seq(Runs)

Init ==
    /\ owner = "free"
    /\ lastRun = 0
    /\ activeRun = 0
    /\ policy \in Policies
    /\ runPolicy = [r \in Runs |-> policy]
    /\ attached = 0
    /\ undelivered = 0
    /\ queued = <<>>
    /\ running = 0
    /\ begun = 0
    /\ end = NoEnd
    /\ pending = <<>>
    /\ open = TRUE
    /\ wakes = 0
    /\ stack = <<>>
    /\ finishes = <<>>

-----------------------------------------------------------------------------
\* The mailbox.

\* wasEmpty in post(), read before the report is appended.
WasEmpty_ReadAfter(report) == Append(pending, report) = <<>>
WasEmpty(report) == pending = <<>>

\* post(): dropped once closed; wakes the relay only if nothing was pending.
Post_InFront(report) ==
    /\ pending' = IF open THEN <<report>> \o pending ELSE pending
    /\ wakes' = IF open /\ WasEmpty(report) THEN wakes + 1 ELSE wakes
    /\ UNCHANGED open
Post(report) ==
    IF open
    THEN /\ pending' = Append(pending, report)
         /\ wakes' = IF WasEmpty(report) THEN wakes + 1 ELSE wakes
         /\ UNCHANGED open
    ELSE UNCHANGED mailVars

\* close(), and the relay's dispose(): a relay that is delivering is deleted
\* later, so calls queued for it still arrive, and find nothing pending.
CloseMailbox_KeepsRelay ==
    /\ pending' = <<>>
    /\ UNCHANGED <<open, wakes>>
CloseMailbox ==
    /\ open' = FALSE
    /\ pending' = <<>>
    /\ wakes' = IF stack = <<>> THEN 0 ELSE wakes

-----------------------------------------------------------------------------
\* The owner thread.

\* start(), up to making the new run the active one.
Activate_KeepsOldRun ==
    /\ OwnerFree
    /\ lastRun < MaxRuns
    /\ lastRun' = lastRun + 1
    /\ activeRun' = IF running = 0 THEN lastRun + 1 ELSE activeRun
    /\ owner' = "activated"
    /\ UNCHANGED <<policy, runPolicy, attached, undelivered, poolVars, mailVars, stack, finishes>>
Activate ==
    /\ OwnerFree
    /\ lastRun < MaxRuns
    /\ lastRun' = lastRun + 1
    /\ activeRun' = lastRun + 1
    /\ owner' = "activated"
    /\ UNCHANGED <<policy, runPolicy, attached, undelivered, poolVars, mailVars, stack, finishes>>

\* start(), from the copy of the policy to the runnable handed to the pool.
Submit ==
    /\ owner = "activated"
    /\ runPolicy' = [runPolicy EXCEPT ![lastRun] = policy]
    /\ attached' = attached + 1
    /\ undelivered' = undelivered + 1
    /\ queued' = Append(queued, lastRun)
    /\ owner' = "starting"
    /\ UNCHANGED <<lastRun, activeRun, policy, running, begun, end, mailVars, stack, finishes>>

\* start() returns: the new runnable has released the semaphore.
StartReturns ==
    /\ owner = "starting"
    /\ begun = lastRun
    /\ owner' = "free"
    /\ UNCHANGED <<lastRun, activeRun, policy, runPolicy, attached, undelivered, poolVars,
                   mailVars, stack, finishes>>

Interrupt ==
    /\ OwnerFree
    /\ activeRun' = 0
    /\ UNCHANGED <<ownerVars, policy, runPolicy, poolVars, mailVars, stack, finishes>>

\* The destructor begins: nothing is wanted any more, and the pool drops
\* what it has not begun.
Shutdown ==
    /\ OwnerFree
    /\ activeRun' = 0
    /\ queued' = <<>>
    /\ owner' = "closing"
    /\ UNCHANGED <<lastRun, attached, undelivered, policy, runPolicy, running, begun, end,
                   mailVars, stack, finishes>>

\* The pool is done in time: the readers of the runs never reported are detached.
ShutdownDone ==
    /\ owner = "closing"
    /\ running = 0
    /\ CloseMailbox
    /\ attached' = attached - undelivered
    /\ undelivered' = 0
    /\ owner' = "closed"
    /\ UNCHANGED <<lastRun, activeRun, policy, runPolicy, poolVars, stack, finishes>>

\* The shutdown timeout passes first: the job is left to itself.
ShutdownTimesOut_Detaches ==
    /\ owner = "closing"
    /\ running # 0
    /\ CloseMailbox
    /\ owner' = "abandoned"
    /\ attached' = attached - undelivered
    /\ undelivered' = 0
    /\ UNCHANGED <<lastRun, activeRun, policy, runPolicy, poolVars, stack, finishes>>
ShutdownTimesOut ==
    /\ owner = "closing"
    /\ running # 0
    /\ CloseMailbox
    /\ owner' = "abandoned"
    /\ UNCHANGED <<lastRun, attached, undelivered, activeRun, policy, runPolicy, poolVars,
                   stack, finishes>>

-----------------------------------------------------------------------------
\* Deliveries, on the owner thread.

\* An event loop of the owner, the outermost one or one a callback runs,
\* takes a queued "deliver" call.
Wake ==
    /\ OwnerRuns
    /\ wakes > 0
    /\ Len(stack) < MaxNesting
    /\ wakes' = wakes - 1
    /\ stack' = Append(stack, Between)
    /\ UNCHANGED <<ownerVars, activeRun, policy, runPolicy, poolVars, pending, open, finishes>>

\* The deliver() loop takes the next report and runs it: a finish report
\* detaches the reader before whoever started the run is told.
Deliver ==
    /\ stack # <<>> /\ Top = Between
    /\ pending # <<>>
    /\ LET report == Head(pending) IN
       /\ pending' = Tail(pending)
       /\ stack' = SetTop(report)
       /\ attached' = IF HoldsReader(report) THEN attached - 1 ELSE attached
       /\ IF report.kind = "finish"
          THEN /\ undelivered' = undelivered - 1
               /\ finishes' = Append(finishes, report.run)
          ELSE UNCHANGED <<undelivered, finishes>>
    /\ UNCHANGED <<owner, lastRun, activeRun, policy, runPolicy, poolVars, open, wakes>>

\* The deliver() loop finds nothing pending and returns.
DeliverReturns ==
    /\ stack # <<>> /\ Top = Between
    /\ pending = <<>>
    /\ stack' = PopFrame
    /\ UNCHANGED <<ownerVars, activeRun, policy, runPolicy, poolVars, mailVars, finishes>>

\* A callback returns to the deliver() loop that called it.
CallbackReturns ==
    /\ OwnerRuns
    /\ stack # <<>>
    /\ stack' = SetTop(Between)
    /\ UNCHANGED <<ownerVars, activeRun, policy, runPolicy, poolVars, mailVars, finishes>>

-----------------------------------------------------------------------------
\* The pool's thread.

Begin ==
    /\ running = 0
    /\ queued # <<>>
    /\ running' = Head(queued)
    /\ begun' = Head(queued)
    /\ queued' = Tail(queued)
    /\ UNCHANGED <<ownerVars, activeRun, policy, runPolicy, end, mailVars, stack, finishes>>

ReportProgress ==
    /\ running # 0
    /\ end = NoEnd
    /\ Len(pending) < MaxPending
    /\ wakes < MaxWakes
    /\ Post(Progress(running))
    /\ UNCHANGED <<ownerVars, activeRun, policy, runPolicy, poolVars, stack, finishes>>

\* The job throws, or returns and is asked whether it was superseded.
JobEnds ==
    /\ running # 0
    /\ end = NoEnd
    /\ end' \in {"failed", IF IsSuperseded(running) THEN "superseded" ELSE "returned"}
    /\ UNCHANGED <<ownerVars, activeRun, policy, runPolicy, queued, running, begun, mailVars,
                   stack, finishes>>

\* The runnable posts the finish report and the thread is free.
RunnableEnds_DropsSuperseded ==
    /\ running # 0
    /\ end # NoEnd
    /\ IF end = "superseded" THEN UNCHANGED mailVars ELSE Post(Finish(running, end))
    /\ running' = 0
    /\ end' = NoEnd
    /\ UNCHANGED <<ownerVars, activeRun, policy, runPolicy, queued, begun, stack, finishes>>
RunnableEnds ==
    /\ running # 0
    /\ end # NoEnd
    /\ Post(Finish(running, end))
    /\ running' = 0
    /\ end' = NoEnd
    /\ UNCHANGED <<ownerVars, activeRun, policy, runPolicy, queued, begun, stack, finishes>>

\* Any thread: setPolicy().
SetPolicy ==
    /\ owner \notin {"closed", "abandoned"}
    /\ policy' \in Policies
    /\ UNCHANGED <<ownerVars, activeRun, runPolicy, poolVars, mailVars, stack, finishes>>

\* The policy the job on the pool's thread works with.
JobPolicy == runPolicy[running]

-----------------------------------------------------------------------------
Owner == Activate \/ Submit \/ StartReturns \/ Interrupt \/ Shutdown \/ ShutdownDone
            \/ ShutdownTimesOut
Deliveries == Wake \/ Deliver \/ DeliverReturns \/ CallbackReturns
Pool == Begin \/ ReportProgress \/ JobEnds \/ RunnableEnds

Next == Owner \/ Deliveries \/ Pool \/ SetPolicy

\* The threads keep running, the outermost event loop of the owner takes what
\* is queued for it, callbacks return, and a job that is superseded stops: it
\* asks isSuperseded() as it goes.  A job that is wanted need not ever end,
\* and nobody has to shut down.
Fairness ==
    /\ WF_vars(Submit) /\ WF_vars(StartReturns)
    /\ WF_vars(ShutdownDone \/ ShutdownTimesOut)
    /\ WF_vars(Wake /\ stack = <<>>)
    /\ WF_vars(Deliver) /\ WF_vars(DeliverReturns) /\ WF_vars(CallbackReturns)
    /\ WF_vars(Begin) /\ WF_vars(RunnableEnds)
    /\ WF_vars(JobEnds /\ IsSuperseded(running))

Spec == Init /\ [][Next]_vars
FairSpec == Spec /\ Fairness

-----------------------------------------------------------------------------
(* What a Background Run promises.                                         *)

\* Every run is reported finished exactly once and in the order started: the
\* i-th finish report delivered is the one of run i, so none was lost,
\* doubled or overtaken (backgroundrun.h:138-142).
FinishedOnceInOrder == \A i \in DOMAIN finishes : finishes[i] = i

\* No report of a run is left once its finish report was delivered, and in
\* the mailbox a run's finish report is behind all its progress and before
\* everything of later runs (backgroundrun.h:54-57).
ProgressBeforeFinish ==
    /\ \A i \in DOMAIN pending : pending[i].run > Len(finishes)
    /\ \A i, j \in DOMAIN pending :
          i < j => \/ pending[i].run < pending[j].run
                   \/ pending[i].run = pending[j].run /\ pending[i].kind = "progress"

\* While a job runs, or waits to run, the Log File it reads is open: even
\* when shutting down gave up on it (backgroundrun.h:135-137, 143-148).
ReaderOpenUnderJob == running # 0 \/ queued # <<>> => attached > 0

\* The reader is attached once for each run started and not yet reported,
\* and not at all once shut down in time.
ReadersBalanced ==
    /\ owner \notin {"activated", "closed"} => attached = lastRun - Len(finishes)
    /\ owner = "activated" => attached = lastRun - 1 - Len(finishes)
    /\ owner = "closed" => attached = 0

\* When start() returns the run before has ended: outside start() nothing
\* waits for the pool's thread, and only the newest run is on it.
StartWaitsForTurn ==
    /\ owner \notin {"starting"} => queued = <<>>
    /\ owner = "free" /\ running # 0 => running = lastRun

\* No wake-up is lost: what is in the mailbox has a "deliver" call on its way
\* or a deliver() loop on the stack that will come back to it, although the
\* pool's thread posts while the owner delivers.
NoLostWake == pending # <<>> => wakes > 0 \/ stack # <<>>

\* Once shut down, nothing is delivered to whoever started the runs.
NothingAfterShutdown ==
    [][(owner \in {"closed", "abandoned"}) => pending' = <<>> /\ finishes' = finishes]_vars

\* A job works with one policy, whatever setPolicy() is given meanwhile.
PolicyFixedDuringRun ==
    [][running # 0 /\ running' = running => JobPolicy' = JobPolicy]_vars

\* start() does not block its caller for good: the run it supersedes stops.
StartEnds == owner \in {"activated", "starting"} ~> owner = "free"

\* A Background Run is what RunReports says of it to whoever starts runs.
Reports == INSTANCE RunReports WITH
    started <- lastRun, finished <- finishes, closed <- ~open

\* Runs are reported in the order started, each once, none that was not
\* started and none after shutting down, along every step of the three
\* threads.
ImplementsRunReports == Reports!Spec

\* ... and under the fairness of the threads, every superseded run is.
ImplementsFairRunReports == Reports!FairSpec

\* A run that is no longer wanted is reported finished all the same, unless
\* the Background Run is shut down first.
SupersededReported ==
    \A r \in Runs : (lastRun >= r /\ activeRun # r) ~> (Len(finishes) >= r \/ ~open)

=============================================================================
