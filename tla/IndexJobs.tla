----------------------------- MODULE IndexJobs -----------------------------
(***************************************************************************)
(* The index jobs and the job rule (src/logdata/include/indexjob.h and     *)
(* src/logdata/src/logdataoperation.cpp): one job runs, at most one waits, *)
(* and a job that arrives while one waits meets it under the rule.         *)
(***************************************************************************)
EXTENDS Integers

CONSTANTS
    Encodings,      \* the Encodings a Log File can be read in
    NoEncoding      \* none forced, none chosen, none guessed

ASSUME NoEncodingAssumption == NoEncoding \notin Encodings

NoJob == [kind |-> "None", encoding |-> NoEncoding]
Partial == [kind |-> "Partial", encoding |-> NoEncoding]
Check == [kind |-> "Check", encoding |-> NoEncoding]
Automatic == [kind |-> "Automatic", encoding |-> NoEncoding]
Explicit(encoding) == [kind |-> "Explicit", encoding |-> encoding]
Attach(encoding) == [kind |-> "Attach", encoding |-> encoding]

FullKinds == {"Automatic", "Explicit"}
IndexKinds == FullKinds \cup {"Partial", "Attach"}
Jobs == [kind : IndexKinds \cup {"Check", "None"}, encoding : Encodings \cup {NoEncoding}]

\* strength()
Strength_CheckFirst == [None |-> 0, Partial |-> 1, Check |-> 5, Automatic |-> 3, Explicit |-> 4, Attach |-> 5]
Strength == [None |-> 0, Partial |-> 1, Check |-> 2, Automatic |-> 3, Explicit |-> 4, Attach |-> 5]

\* What an Attach that wins keeps of the job that loses: the Encoding a Full
\* forces.
WithEncodingOf(winner, loser) ==
    IF winner.kind = "Attach" /\ loser.kind \in FullKinds /\ loser.encoding # NoEncoding
    THEN [winner EXCEPT !.encoding = loser.encoding] ELSE winner

\* waitingIndexJob(): the arriving job wins a tie.
WaitingIndexJob(waiting, arriving) ==
    IF Strength[arriving.kind] >= Strength[waiting.kind]
    THEN WithEncodingOf(arriving, waiting) ELSE WithEncodingOf(waiting, arriving)

\* The jobs of an OperationQueue: the one running, the one waiting.
NoJobs == [running |-> NoJob, waiting |-> NoJob]

\* tryStartWaitingJob()
StartWaiting(queue) == [running |-> queue.waiting, waiting |-> NoJob]

\* enqueueJob()
Enqueue_NotStarted(queue, job) == [queue EXCEPT !.waiting = WaitingIndexJob(@, job)]
Enqueue_Dropped(queue, job) ==
    IF queue.running = NoJob THEN StartWaiting([queue EXCEPT !.waiting = job]) ELSE queue
Enqueue(queue, job) ==
    LET met == [queue EXCEPT !.waiting = WaitingIndexJob(@, job)]
    IN  IF queue.running = NoJob THEN StartWaiting(met) ELSE met
=============================================================================
