------------------------------ MODULE Indexing ------------------------------
(***************************************************************************)
(* A Log File followed by its Log Data: the OperationQueue, the index run  *)
(* in flight, what the Log Data tells when a run ended, and the Encoding   *)
(* the Open Log File settles (src/logdata/src/logdata.cpp,                 *)
(* logdataoperation.cpp, logdataworker.cpp and                             *)
(* src/openlogfile/src/openlogfile.cpp).  Three parties: the Log File on   *)
(* disk changes; the run indexes or checks it on the worker's thread; the  *)
(* owner thread asks, interrupts, and delivers the report of a run.        *)
(*                                                                         *)
(* That the run in flight is one, that it reports once and that only it    *)
(* is superseded are what BackgroundRun shows.                             *)
(***************************************************************************)
EXTENDS LogIndex

CONSTANTS
    MaxSize,        \* bound: halves of Log Lines in the Log File
    FirstSizes,     \* bound: those it has at first
    MaxChanges,     \* bound: times the Log File changes on disk
    MaxReloads,     \* bound: reloads asked for
    MaxChosen,      \* bound: times an Encoding is chosen
    MaxStops,       \* bound: times loading is stopped
    MaxFailures,    \* bound: runs that fail, or do not read to the end
    MaxEvents,      \* bound: all of these together
    UseIndexCache,  \* useIndexCache of the Indexing Policy
    OnlyGrows       \* whether the Log File is only ever appended to

ASSUME IndexingAssumption ==
    /\ {MaxSize, MaxChanges, MaxReloads, MaxChosen, MaxStops, MaxFailures, MaxEvents} \subseteq Nat
    /\ UseIndexCache \in BOOLEAN /\ FirstSizes \subseteq 0..MaxSize

VARIABLES
    logFile,        \* the Log File on disk
    unreported,     \* the watcher is still to report a change
    watched,        \* watched_
    index,          \* indexing_data_
    cache,          \* the entry of the Log File in the Index Cache
    queue,          \* operationQueue_: runningJob_ and waitingJob_
    run,            \* the run in flight, up to its report being handled
    linesBefore,    \* nbLinesBeforeDataAdded_
    display,        \* codec_
    chosen,         \* chosenEncoding_
    settled,        \* settledEncoding_
    process,        \* "up", "closed" or "crashed"
    told,           \* history: the Log Lines as whoever reads them was told they are
    lost,           \* history: what the last index run lost, by its kind, as it was interrupted, failed
                    \* or did not read to the end, until a Check looks at the Log File again
    rewritten,      \* history: the Log File was rewritten while a job ran, since it was last read anew
    unsettled,      \* history: since the Encoding was settled, the Log File was to be read again for another
                    \* reason, or in an Encoding that splits it otherwise, or was not read at all
    counts          \* history: how often each thing happened

diskVars == <<logFile, unreported, watched>>
encodingVars == <<display, chosen, settled>>
vars == <<diskVars, index, cache, queue, run, linesBefore, encodingVars, process, told, lost, rewritten,
          unsettled, counts>>

Loaded == {"Successful", "Interrupted", "Failed"}
Checked == {"Unchanged", "DataAdded", "Truncated"}
Stamps == 1..(MaxChanges + 1)
Contents == UNION {[1..n -> Stamps] : n \in 0..MaxSize}
Known == Encodings \cup {NoEncoding}

\* at: "off" when no run is in flight, "queued" until the thread takes it,
\* "resuming" from a cached Index, "reading" the Log File, "ended" until its report is delivered, "told" from
\* then until the owner thread asked the queue for the next job.  from, size: where it starts, and the
\* size the Log File had when it looked.  done: no block is read any more.  short: history, a read of it failed.
NoRun == [at |-> "off", superseded |-> FALSE, from |-> 0, size |-> 0, outcome |-> "None", done |-> FALSE,
          short |-> FALSE]
Queued == [NoRun EXCEPT !.at = "queued"]

Indexes == [bytes : Contents, fake : 0..MaxSize, forced : Known, guess : Known, split : Known,
            recorded : BOOLEAN, full : Contents, header : Contents, tail : Contents,
            built : Contents, fed : Contents, modified : Nat]

TypeOK ==
    /\ logFile \in Contents /\ unreported \in BOOLEAN /\ watched \in BOOLEAN
    /\ index \in Indexes /\ cache \in Indexes
    /\ queue \in [running : Jobs, waiting : Jobs]
    /\ run \in [at : {"off", "queued", "resuming", "reading", "ended", "told"}, superseded : BOOLEAN,
                from : 0..MaxSize, size : 0..MaxSize, outcome : {"None"} \cup Loaded \cup Checked,
                done : BOOLEAN, short : BOOLEAN]
    /\ linesBefore \in 0..MaxSize
    /\ display \in Encodings /\ chosen \in Known /\ settled \in Known
    /\ process \in {"up", "closed", "crashed"}
    /\ DOMAIN told \subseteq 1..MaxSize
    /\ lost \in {"Nothing", "Everything", "Added", "Rest"} /\ unsettled \in BOOLEAN /\ rewritten \in BOOLEAN
    /\ (run.at = "off") <=> (queue.running = NoJob)
    /\ queue.running = NoJob => queue.waiting = NoJob

ModificationTime == counts.changes + 1

May(name, max) ==
    /\ counts[name] < max
    /\ counts.changes + counts.reloads + counts.chosen + counts.stops + counts.failures < MaxEvents
Once(name) == counts' = [counts EXCEPT ![name] = @ + 1]

\* What the Index Cache has from before: an Index of what the Log File begins
\* with, in an Encoding that what came since may have changed.  One whose
\* header or tail is not there is as good as none; one changed between them
\* only is taken for unchanged, which the code accepts.
Former(size, guess) ==
    LET logged == SubSeq(logFile, 1, size)
    IN  Entry([Completed(AddBlock(Cleared, logged), 0, size, logged, 0) EXCEPT !.guess = guess, !.split = guess])
FormerEntries ==
    {Former(size, Detected) : size \in 1..Len(logFile)}
        \cup {Former(size, guess) : size \in 1..Lesser(DigestBlock - 1, Len(logFile)), guess \in Encodings}

\* An Open Log File that attached its Log File, with the Encoding the settings
\* force, if any.
Init ==
    /\ \E n \in FirstSizes : logFile = [half \in 1..n |-> 1]
    /\ unreported = FALSE /\ watched = FALSE
    /\ index = Cleared /\ cache \in {NoEntry} \cup (IF UseIndexCache THEN FormerEntries ELSE {})
    /\ chosen \in (IF MaxChosen > 0 THEN Known ELSE {NoEncoding})
    /\ queue = [running |-> Attach(chosen), waiting |-> NoJob]
    /\ run = Queued
    /\ linesBefore = 0
    /\ display = (IF chosen = NoEncoding THEN Undisplayed ELSE chosen) /\ settled = NoEncoding
    /\ process = "up"
    /\ told = <<>> /\ lost = "Nothing" /\ rewritten = FALSE /\ unsettled = FALSE
    /\ counts = [changes |-> 0, reloads |-> 0, chosen |-> 0, stops |-> 0, failures |-> 0]

(***************************************************************************)
(* The Log File on disk.                                                   *)
(***************************************************************************)
\* Cut to its first halves, and appended to: growing, truncating and
\* rewriting it.
Change ==
    /\ process = "up" /\ May("changes", MaxChanges)
    /\ \E keep \in 0..Len(logFile) : \E added \in 0..(MaxSize - keep) :
           /\ OnlyGrows => keep = Len(logFile)
           /\ keep < Len(logFile) \/ added > 0
           /\ logFile' = SubSeq(logFile, 1, keep) \o [half \in 1..added |-> counts.changes + 2]
           /\ rewritten' = (rewritten \/ (queue.running # NoJob /\ keep < Len(logFile)))
    /\ unreported' = (unreported \/ watched)
    /\ Once("changes")
    /\ UNCHANGED <<watched, index, cache, queue, run, linesBefore, encodingVars, process, told, lost, unsettled>>

(***************************************************************************)
(* The run, on the worker's thread.                                        *)
(***************************************************************************)
EndRun(outcome) == run' = [run EXCEPT !.at = "ended", !.outcome = outcome]

cachedUnchanged == <<diskVars, queue, linesBefore, encodingVars, process, told, lost, rewritten>>
workerUnchanged == <<cachedUnchanged, unsettled>>

IsFull == queue.running.kind \in FullKinds \cup {"Attach"}

\* tryLoad(), with cachedIndexCoverage(): a reload compares every byte of a Log
\* File that did not grow.
CachedFit ==
    IF Sound(cache) THEN IndexFit(cache, logFile, queue.running.kind = "Explicit") ELSE "Truncated"

\* FullIndexOperation::doRun() up to the blocks, without a cached Index: there
\* was none, it was evicted, it did not fit and is removed, or another
\* Encoding is forced.
BeginAnew ==
    /\ index' = [Cleared EXCEPT !.forced = queue.running.encoding]
    /\ run' = [run EXCEPT !.at = "reading", !.from = 0, !.size = Len(logFile)]
BeginFull ==
    /\ process = "up" /\ run.at = "queued" /\ IsFull
    /\ BeginAnew
    /\ cache' = NoEntry
    /\ rewritten' = FALSE
    /\ UNCHANGED <<diskVars, queue, linesBefore, encodingVars, process, told, lost, unsettled, counts>>

\* The Encoding the Log File ends up settled in, once it was read.
FinalEncoding(choice) == IF choice # NoEncoding THEN choice ELSE Detected
Splitting(job) == Splits[FinalEncoding(job.encoding)]

\* Whether a job waits that reads all of the Log File.
FullWaits == queue.waiting.kind \in FullKinds

\* Whether a cached Index is split otherwise than the run was asked for, or
\* has another Encoding guessed than the Log File is detected as.
CachedOtherwise == cache.guess # Detected \/ Splits[cache.split] # Splitting(queue.running)

\* The cached Index is of all of the Log File: the run ends there, superseded
\* or not.
TakeCached ==
    /\ process = "up" /\ run.at = "queued" /\ IsFull
    /\ CachedFit = "Unchanged"
    /\ index' = LoadedFromCache(cache, queue.running.encoding)
    /\ EndRun("Successful")
    /\ unsettled' = (unsettled \/ CachedOtherwise)
    /\ UNCHANGED <<cachedUnchanged, cache, counts>>

\* Superseded before anything was read: the run leaves the Index of before.
LeaveIndex ==
    /\ EndRun("Interrupted")
    /\ unsettled' = (unsettled \/ ~FullWaits)
    /\ UNCHANGED index

\* The Log File has grown since: resumeFrom() up to where it reads the Log
\* File.  Where the Encoding does not allow it, and the run is superseded, the
\* Index stays as it is.
CheckCached ==
    /\ process = "up" /\ run.at = "queued" /\ IsFull
    /\ CachedFit = "DataAdded"
    /\ \/ /\ Resumable(cache, queue.running.encoding)
          /\ run' = [run EXCEPT !.at = "resuming"]
          /\ UNCHANGED <<index, unsettled>>
       \/ /\ ~Resumable(cache, queue.running.encoding)
          /\ IF run.superseded THEN LeaveIndex ELSE BeginAnew /\ UNCHANGED unsettled
    /\ UNCHANGED <<cachedUnchanged, cache, counts>>

\* The rest of resumeFrom(): the bytes before the last cached Log Line are
\* read again for their digest, and not compared.
ResumeCached ==
    /\ process = "up" /\ run.at = "resuming"
    /\ LET offset == ResumeOffset(cache)
           reads == offset > 0
       IN  \/ reads /\ run.superseded /\ LeaveIndex
           \/ reads /\ ~run.superseded /\ Len(logFile) < offset /\ BeginAnew /\ UNCHANGED unsettled
           \/ /\ ~reads \/ (~run.superseded /\ Len(logFile) >= offset)
              /\ index' = ResumedFromCache(cache, queue.running.encoding, logFile)
              /\ run' = [run EXCEPT !.at = "reading", !.from = offset, !.size = Len(logFile)]
              /\ unsettled' = (unsettled \/ CachedOtherwise)
    /\ UNCHANGED <<cachedUnchanged, cache, counts>>

\* PartialIndexOperation::doRun() up to the blocks.
BeginPartial ==
    /\ process = "up" /\ run.at = "queued" /\ queue.running.kind = "Partial"
    /\ run' = [run EXCEPT !.at = "reading", !.from = Len(index.bytes), !.size = Len(logFile)]
    /\ UNCHANGED <<workerUnchanged, index, cache, counts>>

\* doIndex() of a Log File that cannot be opened: as if it was empty.
OpenMissing ==
    /\ process = "up" /\ run.at = "queued" /\ queue.running.kind \in IndexKinds /\ logFile = <<>>
    /\ index' = Dropped(Cleared)
    /\ cache' = IF IsFull THEN NoEntry ELSE cache
    /\ EndRun(IF run.superseded THEN "Interrupted" ELSE "Successful")
    /\ UNCHANGED <<workerUnchanged, counts>>

\* readNextBlock() and indexNextBlock(): as much as there is to read, or less.
IndexBlock ==
    /\ process = "up" /\ run.at = "reading" /\ ~run.superseded /\ ~run.done
    /\ \E end \in (Len(index.bytes) + 1)..Len(logFile) :
           index' = AddBlock(index, SubSeq(logFile, Len(index.bytes) + 1, end))
    /\ UNCHANGED <<workerUnchanged, cache, run, counts>>

\* readNextBlock() finds the run superseded, or the end of the Log File.
StopReading ==
    /\ process = "up" /\ run.at = "reading" /\ ~run.done
    /\ run.superseded \/ Len(index.bytes) >= Len(logFile)
    /\ run' = [run EXCEPT !.done = TRUE]
    /\ UNCHANGED <<workerUnchanged, index, cache, counts>>

\* A read fails: the run takes it for the end of the Log File.
ReadFails ==
    /\ process = "up" /\ run.at = "reading" /\ ~run.superseded /\ ~run.done
    /\ May("failures", MaxFailures)
    /\ Len(index.bytes) < Len(logFile)
    /\ run' = [run EXCEPT !.done = TRUE, !.short = TRUE]
    /\ Once("failures")
    /\ UNCHANGED <<workerUnchanged, index, cache>>

\* trySave() after a full run, which may fail.
Save == cache' \in {cache} \cup (IF UseIndexCache /\ IsFull THEN SavedEntries(index') ELSE {})

\* What doIndex() tells of a run that was superseded or not as it asked for the
\* fake line feed, and as it asked for what to do with the Index.
Outcome_AskedFirst(first, second) == IF first THEN "Interrupted" ELSE "Successful"
Outcome(first, second) == IF second THEN "Interrupted" ELSE "Successful"

\* The end of doIndex(), which holds the Index's lock and asks twice: a run
\* superseded between the two completed the Index that it drops.
EndIndex ==
    /\ process = "up" /\ run.at = "reading" /\ run.done
    /\ \E first \in {FALSE, run.superseded} : EndRun(Outcome(first, run.superseded))
    /\ \/ /\ run.superseded
          /\ index' = Dropped(index)
          /\ UNCHANGED cache
       \/ /\ ~run.superseded
          /\ index' = Completed(index, run.from, run.size, logFile, ModificationTime)
          /\ Save
    /\ UNCHANGED <<workerUnchanged, counts>>

\* An exception escapes the run: reportFailure().
FailIndex ==
    /\ process = "up" /\ run.at \in {"resuming", "reading"} /\ May("failures", MaxFailures)
    /\ index' = Cleared
    /\ EndRun("Failed")
    /\ Once("failures")
    /\ UNCHANGED <<workerUnchanged, cache>>

\* CheckFileChangesOperation: superseded or not, it tells what it found.  Every
\* byte of a Log File that did not grow is compared only where it was modified
\* since it was indexed or compared so.  The Log File may change while it is
\* read; the change is then reported after.
RunCheck ==
    /\ process = "up" /\ run.at = "queued" /\ queue.running = Check
    /\ LET everyByte == index.modified # ModificationTime
           fit == IndexFit(index, logFile, everyByte)
       IN  /\ EndRun(fit)
           /\ index' = IF fit = "Unchanged" /\ everyByte
                       THEN [index EXCEPT !.modified = ModificationTime] ELSE index
    /\ UNCHANGED <<workerUnchanged, cache, counts>>

\* reportFailure() of a Check.
FailCheck ==
    /\ process = "up" /\ run.at = "queued" /\ queue.running = Check /\ May("failures", MaxFailures)
    /\ EndRun("Truncated")
    /\ Once("failures")
    /\ UNCHANGED <<workerUnchanged, index, cache>>

Worker ==
    \/ BeginFull \/ TakeCached \/ CheckCached \/ ResumeCached
    \/ BeginPartial \/ OpenMissing \/ IndexBlock \/ StopReading \/ ReadFails
    \/ EndIndex \/ FailIndex \/ RunCheck \/ FailCheck

(***************************************************************************)
(* The owner thread.                                                       *)
(***************************************************************************)
\* logLinesChanged(): what readers may keep of what they were told, and the
\* Log Lines from the first changed one on as they are now.
ToldFrom(first, ix, encoding) ==
    LET kept == Lesser(first, Len(told))
    IN  [line \in 1..Greater(LineCount(ix), kept) |->
            IF line <= kept THEN told[line] ELSE LinesOf(ix, encoding)[line]]
ToldAll_OnlyAdded(ix, encoding) == ToldFrom(Len(told), ix, encoding)
ToldAll(ix, encoding) == ToldFrom(0, ix, encoding)

\* OperationQueue::interrupt(): the run in flight, and never the job waiting.
Interrupted(r) == IF r.at \in {"queued", "resuming", "reading"} THEN [r EXCEPT !.superseded = TRUE] ELSE r

\* OperationQueue::enqueueJob(), the run in flight being r.
Enqueued(job, r) ==
    /\ queue' = Enqueue(queue, job)
    /\ run' = IF queue.running = NoJob /\ queue'.running # NoJob THEN Queued ELSE r

\* LogData::reload(), the Log Lines read in an Encoding from here on.
ReadAgain(forced, encoding, r) ==
    /\ told' = ToldAll(index, encoding)
    /\ Enqueued(Explicit(forced), Interrupted(r))

\* OpenLogFile::encoding()
EncodingOf(choice) ==
    IF choice # NoEncoding THEN choice ELSE IF index.guess # NoEncoding THEN index.guess ELSE Locale

\* LogData::setDisplayEncoding(): whether it indexes the Log File again.
SplitsOtherwise(encoding) ==
    LET current == IndexEncoding(index)
    IN  current # NoEncoding /\ encoding # current /\ Splits[encoding] # Splits[current]

\* Whether an Encoding is settled, the run in flight being r, while the last job
\* to read all of the Log File is one asked for before, which splits it
\* otherwise: the job waiting, or the one running, where its run is not
\* reported yet.
Outdated(choice, r) ==
    /\ EncodingOf(choice) = FinalEncoding(choice)
    /\ \/ FullWaits /\ Splitting(queue.waiting) # Splits[EncodingOf(choice)]
       \/ /\ ~FullWaits /\ IsFull /\ r.at # "told"
          /\ Splitting(queue.running) # Splits[EncodingOf(choice)]

\* OpenLogFile::settleEncoding(), with LogData::setDisplayEncoding(): the run
\* in flight is r, and readers were told news before.  The Encoding is
\* compared with the one guessed; while none is guessed yet that reads
\* through a null pointer.
SettleEncoding(choice, r, news) ==
    LET encoding == EncodingOf(choice)
        forced == IF encoding = index.guess THEN NoEncoding ELSE encoding
    IN  \/ /\ settled = encoding
           /\ told' = news /\ run' = r
           /\ unsettled' = (unsettled \/ Outdated(choice, r))
           /\ UNCHANGED <<display, settled, queue, process>>
        \/ /\ settled # encoding
           /\ display' = encoding /\ settled' = encoding
           /\ IF ~SplitsOtherwise(encoding)
              THEN /\ told' = ToldAll(index, encoding) /\ run' = Interrupted(r)
                   /\ unsettled' = (unsettled \/ Outdated(choice, r))
                   /\ UNCHANGED <<queue, process>>
              ELSE IF index.guess = NoEncoding
              THEN /\ process' = "crashed"
                   /\ UNCHANGED <<told, run, queue, unsettled>>
              ELSE /\ ReadAgain(forced, encoding, r)
                   /\ unsettled' = (Splits[FinalEncoding(forced)] # Splits[encoding])
                   /\ UNCHANGED process

\* The owner's thread is at its event loop, not within the end of a job.
InEventLoop == process = "up" /\ run.at # "told"

\* OpenLogFile::setEncoding()
SetEncoding ==
    /\ InEventLoop
    /\ May("chosen", MaxChosen)
    /\ \E choice \in Known :
           /\ choice # chosen
           /\ chosen' = choice
           /\ SettleEncoding(choice, run, told)
    /\ Once("chosen")
    /\ UNCHANGED <<diskVars, index, cache, rewritten, linesBefore, lost>>

\* OpenLogFile::reload()
Reload ==
    /\ InEventLoop
    /\ May("reloads", MaxReloads)
    /\ ReadAgain(NoEncoding, display, run)
    /\ unsettled' = TRUE
    /\ Once("reloads")
    /\ UNCHANGED <<diskVars, index, cache, rewritten, linesBefore, encodingVars, process, lost>>

\* OpenLogFile::stopLoading()
StopLoading ==
    /\ InEventLoop
    /\ May("stops", MaxStops)
    /\ run' = Interrupted(run)
    /\ Once("stops")
    /\ UNCHANGED <<diskVars, index, cache, rewritten, queue, linesBefore, encodingVars, process, told, lost, unsettled>>

\* The watcher reports that the Log File changed: fileChangedOnDisk().
FileChangedOnDisk ==
    /\ InEventLoop
    /\ unreported
    /\ unreported' = FALSE
    /\ Enqueued(Check, run)
    /\ UNCHANGED <<logFile, watched, index, cache, rewritten, linesBefore, encodingVars, process, told, lost, unsettled, counts>>

\* What the end of an index run tells: after a Partial, the Log Lines from the
\* last one indexed before data was added on.
FirstChanged_AfterLast(kind) == IF kind = "Partial" THEN linesBefore ELSE 0
FirstChanged(kind) == IF kind = "Partial" /\ linesBefore > 0 THEN linesBefore - 1 ELSE 0

\* A Log File is watched once a load succeeded, and then checked once for
\* what was written to it before.
Watching_NoCheck == watched' = (watched \/ run.outcome = "Successful") /\ UNCHANGED unreported
Watching ==
    /\ watched' = (watched \/ run.outcome = "Successful")
    /\ unreported' = (unreported \/ (run.outcome = "Successful" /\ ~watched))

Handled == [run EXCEPT !.at = "told"]

\* LogData::indexingFinished() up to finishJobAndStartNext(), with
\* OpenLogFile::handleLoadingFinished().
IndexingFinished ==
    /\ process = "up" /\ run.at = "ended" /\ run.outcome \in Loaded
    /\ Watching
    /\ lost' = IF run.outcome = "Successful" /\ (index.recorded \/ queue.running # Partial)
               THEN IF run.short THEN "Rest" ELSE "Nothing"
               ELSE IF queue.running = Partial THEN "Added" ELSE "Everything"
    /\ SettleEncoding(chosen, Handled, ToldFrom(FirstChanged(queue.running.kind), index, display))
    /\ UNCHANGED <<logFile, index, cache, rewritten, linesBefore, chosen, counts>>

\* LogData::checkFileChangesFinished() up to finishJobAndStartNext().
CheckFileChangesFinished ==
    /\ process = "up" /\ run.at = "ended" /\ run.outcome \in Checked
    /\ \/ /\ run.outcome = "Unchanged"
          /\ run' = Handled
          /\ UNCHANGED <<queue, linesBefore, told, unsettled>>
       \/ /\ run.outcome = "DataAdded"
          /\ linesBefore' = LineCount(index)
          /\ Enqueued(Partial, Handled)
          /\ UNCHANGED <<told, unsettled>>
       \/ /\ run.outcome = "Truncated"
          /\ told' = ToldAll(index, display)
          /\ Enqueued(Automatic, Handled)
          /\ unsettled' = TRUE
          /\ UNCHANGED linesBefore
    /\ lost' = "Nothing"
    /\ UNCHANGED <<diskVars, index, cache, rewritten, encodingVars, process, counts>>

\* finishJobAndStartNext(), at the end of either, before the owner thread is
\* back in its event loop.
FinishJobAndStartNext ==
    /\ process = "up" /\ run.at = "told"
    /\ queue' = StartWaiting(queue)
    /\ run' = IF queue'.running = NoJob THEN NoRun ELSE Queued
    /\ UNCHANGED <<diskVars, index, cache, rewritten, linesBefore, encodingVars, process, told, lost, unsettled, counts>>

\* OperationQueue::shutdown(), as the Log Data is destroyed, its Index with it:
\* the run in flight is waited for and reports nothing.
Shutdown ==
    /\ InEventLoop
    /\ process' = "closed"
    /\ queue' = NoJobs
    /\ run' = NoRun
    /\ index' = Cleared /\ linesBefore' = 0 /\ told' = <<>>
    /\ UNCHANGED <<diskVars, cache, rewritten, encodingVars, lost, unsettled, counts>>

Delivery == IndexingFinished \/ CheckFileChangesFinished \/ FinishJobAndStartNext

Next ==
    \/ Change \/ Worker \/ Delivery
    \/ SetEncoding \/ Reload \/ StopLoading \/ FileChangedOnDisk \/ Shutdown

Spec == Init /\ [][Next]_vars

\* The pool has a thread for the run, the event loop of the owner delivers,
\* and the watcher reports what changed.
FairSpec ==
    /\ Spec
    /\ WF_vars(Worker)
    /\ WF_vars(Delivery)
    /\ WF_vars(FileChangedOnDisk)

(***************************************************************************)
(* Properties.                                                             *)
(***************************************************************************)
Quiet == process = "up" /\ queue.running = NoJob

\* A Log File rewritten under a job may pass for what was indexed, as long as it
\* has the length and the header of it: the modification time and the tail are
\* recorded after the bytes were read, a tail that was cut off meanwhile as what
\* is left of it, and of a cached Index the digests are read again.
PassesForIndexed ==
    /\ rewritten /\ Len(logFile) = Len(index.bytes)
    /\ SubSeq(logFile, 1, Len(index.header)) = index.header

\* A Log File whose changes the watcher reported has exactly its bytes
\* indexed once no job runs, whatever changed while a job ran and whatever
\* cached Index was taken or gone on from, unless the last index run was
\* interrupted, failed, could not open it or could not read to its end and no
\* Check looked at it since: no change is lost between a Check, the job it
\* queues and the jobs that arrive meanwhile, and a run tells that it was
\* interrupted exactly if it dropped what it indexed
\* (LogData::checkFileChangesFinished(), the job rule, IndexOperation::doIndex()).
SettledIsIndexed ==
    Quiet /\ watched /\ ~unreported /\ lost = "Nothing" => index.bytes = logFile \/ PassesForIndexed

\* While no run changes the Index, what readers were told of the Log Lines is
\* what they are, split and decoded as they are now: a Search keeps no Match
\* of a Log Line that changed (LogData::logLinesChanged()).  After a Partial
\* that was cut short it is not so: see ReadersFollowAlways.
ReadersFollow ==
    process = "up" /\ queue.running.kind \notin IndexKinds /\ lost # "Added"
        => told = LinesOf(index, display)

\* "After a Partial only the last Log Line indexed before data was added can
\* have changed" (LogData::indexingFinished()): what readers were told holds
\* after every run.
ReadersFollowAlways ==
    process = "up" /\ queue.running.kind \notin IndexKinds => told = LinesOf(index, display)

\* Once no job runs, the Log File is split into Log Lines as the Encoding
\* they are decoded in splits it, however often an Encoding was chosen, unless
\* since the one displayed was settled the Log File was to be read again for
\* another reason, an older job or a cached Index of another Encoding came in
\* between, or nothing was read at all: those leave it split otherwise
\* (LogData::setDisplayEncoding(), the job rule keeps an explicit reload).
SplitAsDecoded ==
    Quiet /\ ~unsettled /\ index.bytes # <<>>
        => Splits[display] = Splits[index.split]

\* "Otherwise the Log Lines only decode differently"
\* (OpenLogFile::settleEncoding()): choosing an Encoding leaves no Log File
\* without its Index.
IndexKept ==
    Quiet /\ watched /\ ~unreported /\ logFile # <<>> /\ counts.stops = 0 /\ counts.failures = 0
        => lost = "Nothing"

\* The fake line feed of a last Log Line without one is "at the end of the
\* file" (IndexOperation::doIndex()): the Log Lines are those of the bytes
\* indexed.
LastLineIsIndexed ==
    Quiet /\ watched /\ ~unreported /\ lost = "Nothing"
        => /\ LineCount(index) = (Len(logFile) + 1) \div 2
           /\ Len(logFile) % 2 = 1 => LineBytes(index, LineCount(index)) = <<logFile[Len(logFile)]>>

\* What is on disk is indexed in the end, unless a run was interrupted, failed,
\* or could not open it or read to its end: no job is lost, and none waits
\* forever, not even behind one that was interrupted (OperationQueue).
CatchesUp ==
    (watched /\ index.bytes # logFile)
        ~> (index.bytes = logFile \/ PassesForIndexed \/ lost # "Nothing" \/ process # "up")
=============================================================================
