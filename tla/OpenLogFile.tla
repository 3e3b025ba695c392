---------------------------- MODULE OpenLogFile ----------------------------
(***************************************************************************)
(* An Open Log File (src/openlogfile/src/openlogfile.cpp): it follows its  *)
(* Log File on disk, and after every load settles the Search Limits, runs  *)
(* the Searches that wait, refreshes the one followed, applies the saved   *)
(* Marks and recognizes the Log Format, as the Load Rule decides.          *)
(*                                                                         *)
(* Its Log Data (Indexing) is taken by what it promises: an index run      *)
(* leaves the Log Lines of the Log File, or none when it was interrupted   *)
(* or failed; a Check compares them with the Log File as it reads it.  So  *)
(* are its Searches (SearchSession): a run covers its Search Limits.  One  *)
(* Encoding; a Log Line is the generation of the Log File it was read      *)
(* from, and cutting or rewriting the Log File begins another.             *)
(***************************************************************************)
EXTENDS SequencesExt, LoadRule, IndexJobs

CONSTANTS
    Searches,           \* the LogFilteredData the Log File may ever have
    First,              \* the one it is opened with
    Patterns,           \* what can be searched for
    NoPattern,          \* the pattern of a Search that has none
    InvalidPatterns,    \* the patterns no expression compiles from
    FieldPatterns,      \* the logical combinations with Field Terms
    InitialLines,       \* bound: how many Log Lines it may start with, or be rewritten with
    MaxLines,           \* bound: Log Lines of the Log File
    MaxEvents,          \* bound: changes on disk and index runs that fail, together
    MaxCalls,           \* bound: calls of its users
    MaxAltogether       \* bound: the two together

ASSUME OpenLogFileAssumption ==
    /\ First \in Searches /\ NoPattern \notin Patterns
    /\ InvalidPatterns \subseteq Patterns /\ FieldPatterns \subseteq Patterns
    /\ MaxLines \in Nat /\ MaxEvents \in Nat /\ InitialLines \subseteq 0..MaxLines

VARIABLES
    logFile,        \* the Log File on disk: its generation, and how many Log Lines
    unreported,     \* the watcher is still to report a change
    posted,         \* a handleChangeOnDisk() is posted to the event loop
    watched,        \* watched_: the File Watch Port watches the Log File
    index,          \* the Log Lines of the Log Data, and whether their digests are recorded
    queue,          \* its OperationQueue
    run,            \* its run in flight
    linesBefore,    \* its nbLinesBeforeDataAdded_
    file,           \* the other members of the Open Log File, with its Searches
    asked,          \* history: by Search, the pattern asked for and neither requested nor withdrawn yet
    told,           \* history: what the users were told of the Log Lines, and of the end of watching
    counts          \* history: how often each thing happened

disk == <<logFile, unreported, posted, watched>>
logData == <<index, queue, run, linesBefore>>
vars == <<disk, logData, file, asked, told, counts>>

Lines == 0..MaxLines
Generations == 1..(MaxEvents + 1)
Limits == [start : Lines, end : Lines]
Known == Patterns \cup {NoPattern}
Phases == {"Idle", "Running", "Complete", "Interrupted", "InvalidPattern"}
FormatNames == {"None", "Recognized"}

\* A Search, as far as its users and the Load Rule tell: seen is what it read
\* of each Log Line from its start on, 0 where there was none.
Idle == [phase |-> "Idle", pattern |-> NoPattern, reader |-> "None", start |-> 0, end |-> 0,
         seen |-> <<>>, changed |-> FALSE]

NoRun == [at |-> "off", superseded |-> FALSE, outcome |-> "None"]
Queued == [NoRun EXCEPT !.at = "queued"]
LoadedOutcomes == {"Successful", "Interrupted", "Failed"}
CheckOutcomes == {"Unchanged", "DataAdded", "Truncated"}

NoLines == [lines |-> <<>>, recorded |-> FALSE]
Content == [line \in 1..logFile.lines |-> logFile.gen]
NbLines == Len(index.lines)

TypeOK ==
    /\ logFile \in [gen : Generations, lines : Lines]
    /\ unreported \in BOOLEAN /\ posted \in BOOLEAN /\ watched \in BOOLEAN
    /\ DOMAIN index = {"lines", "recorded"} /\ NbLines \in Lines /\ Range(index.lines) \subseteq Generations
    /\ run \in [at : {"off", "queued", "reading", "ended"}, superseded : BOOLEAN,
                outcome : {"None"} \cup LoadedOutcomes \cup CheckOutcomes]
    /\ (run.at = "off") <=> (queue.running = NoJob)
    /\ queue.running = NoJob => queue.waiting = NoJob
    /\ linesBefore \in Lines
    /\ file.rule \in Rules(Lines) /\ file.refresh \in AutoRefresh
    /\ file.limits \in Limits
    /\ file.current \in file.made /\ file.made \subseteq Searches
    /\ file.pattern \in Known /\ file.heldBefore \subseteq Searches
    /\ \A s \in Searches :
        /\ file.searches[s].phase \in Phases /\ file.searches[s].pattern \in Known
        /\ file.searches[s].reader \in FormatNames
        /\ {file.waiting[s], file.heldAfter[s], asked[s]} \subseteq Known
        /\ s \notin file.made => file.searches[s] = Idle

Once(name) ==
    /\ counts.events + counts.calls < MaxAltogether
    /\ counts' = [counts EXCEPT ![name] = @ + 1]

\* Opened is one the Session may have restored: its Searches wait for the
\* first load, and are held beyond it.
Init ==
    \E restored \in BOOLEAN, p \in Patterns :
        LET waits == [s \in Searches |-> IF restored /\ s # First THEN p ELSE NoPattern]
            rule == [NewRule EXCEPT !.savedMarks = TRUE, !.searchRequested = restored, !.searchWaits = restored]
        IN  /\ file = [opened |-> FALSE, rule |-> rule,
                       refresh |-> [state |-> "NoSearch", requested |-> TRUE],
                       searches |-> [s \in Searches |-> Idle],
                       made |-> IF restored THEN Searches ELSE {First},
                       current |-> First, pattern |-> IF restored THEN p ELSE NoPattern,
                       waiting |-> waits, heldBefore |-> IF restored THEN Searches ELSE {},
                       heldAfter |-> [s \in Searches |-> NoPattern],
                       limits |-> [start |-> 0, end |-> 0],
                       marks |-> [s \in Searches |-> FALSE],
                       format |-> "None", sampled |-> [gen |-> 0, lines |-> 0]]
            /\ asked = [s \in Searches |-> IF restored THEN p ELSE NoPattern]
            /\ logFile \in [gen : {1}, lines : InitialLines]
            /\ unreported = FALSE /\ posted = FALSE /\ watched = FALSE
            /\ index = NoLines /\ queue = NoJobs /\ run = NoRun /\ linesBefore = 0
            /\ told = [lines |-> <<>>, honest |-> TRUE, stopped |-> 0, stoppedRight |-> TRUE,
                       stopAsked |-> FALSE, stopFile |-> logFile, raced |-> FALSE,
                       early |-> FALSE, borrowed |-> FALSE, apart |-> FALSE, narrowed |-> FALSE,
                       reloadRaced |-> FALSE, marked |-> TRUE]
            /\ counts = [events |-> 0, calls |-> 0]

(***************************************************************************)
(* The Log File on disk.                                                   *)
(***************************************************************************)
Changed ==
    /\ counts.events < MaxEvents
    /\ Once("events")
    /\ unreported' = (unreported \/ watched)
    /\ UNCHANGED <<posted, watched, logData, file, asked, told>>

Grow ==
    /\ logFile.lines < MaxLines
    /\ logFile' = [logFile EXCEPT !.lines = @ + 1]
    /\ Changed

Truncate ==
    /\ \E n \in {0} \cup InitialLines : logFile' = [gen |-> logFile.gen + 1, lines |-> n]
    /\ Changed

(***************************************************************************)
(* The Log Data: its runs, and its queue.                                  *)
(***************************************************************************)
ownerUnchanged == <<disk, queue, linesBefore, file, asked, told>>

EndRun(outcome) == run' = [run EXCEPT !.at = "ended", !.outcome = outcome]

\* A Full or an Attach clears the Index first.
BeginFull ==
    /\ run.at = "queued" /\ queue.running.kind \in FullKinds \cup {"Attach"}
    /\ index' = NoLines
    /\ run' = [run EXCEPT !.at = "reading"]
    /\ UNCHANGED <<ownerUnchanged, counts>>

\* What an index run leaves that was not superseded: a Partial adds what is
\* beyond what is indexed; an empty Log File may be a missing one.
Indexed ==
    IF logFile.lines = 0 /\ queue.running # Partial THEN {NoLines, [NoLines EXCEPT !.recorded = TRUE]}
    ELSE {[lines |-> index.lines \o SubSeq(Content, NbLines + 1, logFile.lines), recorded |-> TRUE]}

EndIndex ==
    /\ run.at = (IF queue.running = Partial THEN "queued" ELSE "reading")
    /\ queue.running.kind \in IndexKinds
    /\ \/ ~run.superseded /\ index' \in Indexed /\ EndRun("Successful")
       \/ run.superseded /\ index' = NoLines /\ EndRun("Interrupted")
    /\ UNCHANGED <<ownerUnchanged, counts>>

FailIndex ==
    /\ run.at = (IF queue.running = Partial THEN "queued" ELSE "reading")
    /\ queue.running.kind \in IndexKinds
    /\ counts.events < MaxEvents
    /\ index' = NoLines
    /\ EndRun("Failed")
    /\ Once("events")
    /\ UNCHANGED ownerUnchanged

\* indexFit()
IndexFit ==
    IF logFile.lines = 0 \/ ~index.recorded \/ ~IsPrefix(index.lines, Content) THEN "Truncated"
    ELSE IF NbLines < logFile.lines THEN "DataAdded" ELSE "Unchanged"

RunCheck ==
    /\ run.at = "queued" /\ queue.running = Check
    /\ EndRun(IndexFit)
    /\ UNCHANGED <<ownerUnchanged, index, counts>>

Worker == BeginFull \/ EndIndex \/ FailIndex \/ RunCheck

Interrupted(r) == IF r.at \in {"queued", "reading"} THEN [r EXCEPT !.superseded = TRUE] ELSE r

\* enqueueJob(), the run in flight being r.
Enqueued(job, r) ==
    /\ queue' = Enqueue(queue, job)
    /\ run' = IF queue.running = NoJob /\ queue'.running # NoJob THEN Queued ELSE r

\* The end of a job that queues others: finishJobAndStartNext().
FinishJob(jobs) ==
    /\ queue' = StartWaiting(jobs)
    /\ run' = IF queue'.running = NoJob THEN NoRun ELSE Queued

-----------------------------------------------------------------------------
(* A Search: what SearchSession does with it.                              *)

\* request() with a pattern, under the Log Format named.
Request(search, p, limits, format) ==
    LET reader == IF p \in FieldPatterns THEN format ELSE "None"
        continues == /\ search.phase \in {"Running", "Complete", "Interrupted"}
                     /\ ~search.changed /\ p = search.pattern /\ reader = search.reader
                     /\ limits.start = search.start /\ limits.end > search.end
    IN  [phase |-> IF p \in InvalidPatterns THEN "InvalidPattern" ELSE "Running",
         pattern |-> p, reader |-> reader, start |-> limits.start, end |-> limits.end,
         seen |-> IF continues THEN search.seen ELSE <<>>, changed |-> FALSE]

\* stop()
Stop(search) == IF search.phase = "Running" THEN [search EXCEPT !.phase = "Interrupted"] ELSE search

\* logLinesChanged(): what was searched from a changed Log Line on, but for
\* the last one, is not continued from.
LinesChanged(search, first) ==
    LET searched == IF search.phase = "Running" THEN search.end ELSE search.start + Len(search.seen)
    IN  [search EXCEPT !.changed = @ \/ (search.end > first /\ first + 1 < searched)]

\* The run in flight ends: it read the Log Lines it had not, and the last one
\* before them again.
Completed(search) ==
    LET from == IF search.seen = <<>> THEN 1 ELSE Len(search.seen)
    IN  [search EXCEPT !.phase = "Complete",
            !.seen = [i \in 1..(search.end - search.start) |->
                         IF i < from THEN search.seen[i]
                         ELSE IF search.start + i <= NbLines THEN index.lines[search.start + i] ELSE 0]]

SearchCompletes ==
    /\ \E s \in file.made :
           /\ file.searches[s].phase = "Running"
           /\ file' = [file EXCEPT !.searches[s] = Completed(@)]
    /\ UNCHANGED <<disk, logData, asked, told, counts>>

-----------------------------------------------------------------------------
(* What the Open Log File's operations are made of: from its members to    *)
(* its members after.                                                      *)

RequestOn(f, s, p) == [f EXCEPT !.searches[s] = Request(@, p, f.limits, f.format)]

\* stopHolding()
StopHolding(f, s) == [f EXCEPT !.heldBefore = @ \ {s}, !.heldAfter[s] = NoPattern]

\* keepWaitingSearch()
KeepWaitingSearch_Forgets(f) == f
KeepWaitingSearch(f) ==
    IF f.rule.searchWaits THEN [f EXCEPT !.waiting[f.current] = f.pattern] ELSE f

\* requestSearch()
RequestSearch(f, p) ==
    LET wanted == [StopHolding(f, f.current) EXCEPT !.pattern = p, !.rule = SearchRequested(@)]
    IN  IF ~f.rule.loadFinishedOnce THEN wanted
        ELSE [RequestOn(wanted, f.current, p) EXCEPT
                 !.refresh = IF p \in InvalidPatterns THEN ResetState(@) ELSE StartSearch(@)]

\* restartSearch()
RestartSearch(f) == RequestSearch([f EXCEPT !.searches[f.current] = Idle], f.pattern)

\* The Search waiting for the first load runs, or is held on.
RunWaiting(f, held) ==
    IF f.current \in held THEN [f EXCEPT !.heldAfter[f.current] = f.pattern]
    ELSE RequestSearch(f, f.pattern)

\* So do the kept ones beside it.
RunWaitingKept(f, held) ==
    LET waits(s) == f.waiting[s] # NoPattern
    IN  [f EXCEPT
            !.heldAfter = [s \in Searches |-> IF waits(s) /\ s \in held THEN f.waiting[s] ELSE @[s]],
            !.searches = [s \in Searches |->
                IF waits(s) /\ s \notin held THEN Request(@[s], f.waiting[s], f.limits, f.format) ELSE @[s]]]

\* recognizeFormat() and what follows from what it found.
RecognizeFormat_NotAgain(f, found, held) ==
    [f EXCEPT !.format = IF found THEN "Recognized" ELSE "None",
              !.sampled = [gen |-> index.lines[1], lines |-> NbLines],
              !.rule = FormatRecognitionTaken(@, found, NbLines)]
RecognizeFormat(f, found, held) ==
    LET sampled == [f EXCEPT !.format = IF found THEN "Recognized" ELSE "None",
                             !.sampled = [gen |-> index.lines[1], lines |-> NbLines],
                             !.rule = FormatRecognitionTaken(@, found, NbLines)]
    IN  IF sampled.format # f.format /\ f.pattern \in FieldPatterns /\ f.current \notin held
           /\ f.searches[f.current].phase # "Idle"
        THEN RequestSearch(sampled, f.pattern) ELSE sampled

\* The pattern a Search waits to run with, if any.
WaitsWith(f, s) ==
    IF s = f.current /\ f.rule.searchWaits THEN f.pattern
    ELSE IF f.waiting[s] # NoPattern THEN f.waiting[s] ELSE f.heldAfter[s]

\* history: what was asked for and is requested by now.
Requested(f, a) ==
    [s \in Searches |->
        IF WaitsWith(f, s) = NoPattern /\ f.searches[s].phase # "Idle" /\ f.searches[s].pattern = a[s]
        THEN NoPattern ELSE a[s]]

\* continueStoppingToWatch(): the job it queues, and what it tells.
Continued(jobs, step) == IF step = "CheckAgain" THEN Enqueue(jobs, Check) ELSE jobs
LoadedThen ==   \* history: what was on disk when the watching was stopped is loaded
    /\ NbLines >= told.stopFile.lines \/ logFile.gen > told.stopFile.gen
    /\ \A i \in 1..NbLines : index.lines[i] >= told.stopFile.gen
Stops(step) == step \in {"Stopped", "StoppedStillChanging"}

(***************************************************************************)
(* What the Log Data tells.                                                *)
(***************************************************************************)
Delivered == run.at = "ended"

\* What the rule decides of the load that ended.
Decision ==
    LET searched == file.searches[file.current]
    IN  LoadFinished(file.rule, run.outcome, NbLines, file.refresh, file.limits,
                     [start |-> searched.start, end |-> searched.end])

\* The Searches heard which Log Lines changed (LogData::indexingFinished()), and
\* the Search Limits are settled.
Settled(f, load) ==
    LET first == IF queue.running = Partial /\ linesBefore > 0 THEN linesBefore - 1 ELSE 0
    IN  [f EXCEPT !.searches = [s \in Searches |-> LinesChanged(@[s], first)],
                  !.rule = load.rule, !.limits = load.limits, !.heldBefore = {}]

\* The Search followed goes on over the Log Lines added, or starts again.
RefreshSearch(f, load) ==
    IF load.restarts THEN RestartSearch(f)
    ELSE IF load.continues THEN RequestOn(f, f.current, f.searches[f.current].pattern)
    ELSE f

ApplySavedMarks(f, load) ==
    [f EXCEPT !.marks[f.current] = @ \/ (load.appliesMarks /\ NbLines > 0)]

\* The Searches that wait run, the current one first; a load that failed drops
\* those that are kept.
RunWaitingSearches(f, load, held) ==
    LET current == IF load.runsWaitingSearch THEN RunWaiting(f, held) ELSE f
        kept == IF run.outcome = "Successful" THEN RunWaitingKept(current, held) ELSE current
    IN  [kept EXCEPT !.waiting = [s \in Searches |-> NoPattern]]

\* LogData::indexingFinished() with handleLoadingFinished().
HandleLoadingFinished ==
    /\ Delivered /\ run.outcome \in LoadedOutcomes
    /\ LET load == Decision
           held == file.heldBefore
           succeeded == run.outcome = "Successful"
           searched == RefreshSearch(Settled(file, load), load)
           kept == RunWaitingSearches(ApplySavedMarks(searched, load), load, held)
       IN  /\ watched' = (watched \/ (succeeded /\ file.rule.watching = "On"))
           /\ posted' = (posted \/ (~watched /\ watched'))
           /\ \/ load.recognizesFormat /\ \E found \in BOOLEAN : file' = RecognizeFormat(kept, found, held)
              \/ ~load.recognizesFormat /\ file' = kept
           /\ LET wanted == IF told.borrowed THEN [asked EXCEPT ![file.current] = NoPattern] ELSE asked
              IN  asked' = IF succeeded THEN Requested(file', wanted)
                           ELSE [s \in Searches |-> IF file.heldAfter[s] = NoPattern THEN NoPattern ELSE wanted[s]]
           /\ told' = [told EXCEPT !.lines = index.lines,
                          !.honest = @ /\ (load.onlyAppended /\ succeeded => IsPrefix(told.lines, index.lines)),
                          !.stopped = @ + (IF Stops(load.watching) THEN 1 ELSE 0),
                          !.stoppedRight = @ /\ (load.watching = "Stopped" /\ succeeded => LoadedThen),
                          !.early = IF load.continues \/ load.restarts \/ load.runsWaitingSearch
                                     THEN queue.waiting.kind \in FullKinds ELSE @,
                          !.apart = @ /\ ~load.continues,
                          !.narrowed = @ /\ load.limits # [start |-> 0, end |-> NbLines],
                          !.marked = @ /\ (load.appliesMarks => NbLines > 0)]
           /\ FinishJob(Continued(queue, load.watching))
    /\ UNCHANGED <<logFile, unreported, index, linesBefore, counts>>

\* LogData::checkFileChangesFinished() with handleFileChanged(), the Log File
\* having grown.
HandleFileGrew ==
    /\ Delivered /\ run.outcome = "DataAdded"
    /\ linesBefore' = NbLines
    /\ file' = [file EXCEPT !.rule = GrewOnDisk(@)]
    /\ FinishJob(Enqueue(queue, Partial))
    /\ UNCHANGED <<disk, index, asked, told, counts>>

\* So too, the Log File having been truncated.
HandleFileTruncated ==
    /\ Delivered /\ run.outcome = "Truncated"
    /\ LET changed == [file EXCEPT !.rule = TruncatedOnDisk(@), !.marks[file.current] = FALSE,
                          !.searches = [s \in Searches |-> LinesChanged(@[s], 0)],
                          !.format = "None", !.sampled = [gen |-> 0, lines |-> 0]]
       IN  file' = IF file.rule.searchRequested
                   THEN [changed EXCEPT !.searches[file.current] = Idle, !.refresh = TruncateFile(@)]
                   ELSE changed
    /\ told' = [told EXCEPT !.marked = @ /\ file.rule.savedMarks,
                            !.reloadRaced = FALSE]
    /\ FinishJob(Enqueue(queue, Automatic))
    /\ UNCHANGED <<disk, index, linesBefore, asked, counts>>

\* LogData::fileUnchanged, which the Open Log File has foundUnchanged() of.
HandleFileUnchanged ==
    /\ Delivered /\ run.outcome = "Unchanged"
    /\ LET found == FoundUnchanged(file.rule)
       IN  /\ file' = [file EXCEPT !.rule = found.rule]
           /\ told' = IF Stops(found.step)
                      THEN [told EXCEPT !.stopped = @ + 1, !.stoppedRight = LoadedThen]
                      ELSE told
    /\ FinishJob(queue)
    /\ UNCHANGED <<disk, index, linesBefore, asked, counts>>

\* The watcher reports a change, or one posted before arrives: handleChangeOnDisk().
HandleChangeOnDisk ==
    /\ \/ unreported /\ unreported' = FALSE /\ UNCHANGED posted
       \/ posted /\ posted' = FALSE /\ UNCHANGED unreported
    /\ Enqueued(Check, run)
    /\ UNCHANGED <<logFile, watched, index, linesBefore, file, asked, told, counts>>

Delivery == HandleLoadingFinished \/ HandleFileGrew \/ HandleFileTruncated \/ HandleFileUnchanged

(***************************************************************************)
(* What its users call.                                                    *)
(***************************************************************************)
Called == counts.calls < MaxCalls /\ Once("calls")

\* open(), once.
Open ==
    /\ ~file.opened
    /\ file' = [file EXCEPT !.opened = TRUE]
    /\ Enqueued(Attach(NoEncoding), run)
    /\ UNCHANGED <<disk, index, linesBefore, asked, told, counts>>

\* reload() of a Log File that is open.
Reload ==
    /\ Called /\ file.opened
    /\ file' = [file EXCEPT !.refresh = ResetState(@), !.rule = ReloadAsked(@),
                   !.searches = [s \in Searches |->
                       LinesChanged(IF s = file.current THEN Idle ELSE @[s], 0)],
                   !.marks[file.current] = FALSE]
    /\ asked' = [asked EXCEPT ![file.current] = NoPattern]
    /\ told' = [told EXCEPT !.early = FALSE, !.borrowed = FALSE,
                            !.reloadRaced = Delivered /\ run.outcome \in LoadedOutcomes,
                            !.marked = @ /\ file.rule.savedMarks]
    /\ Enqueued(Explicit(NoEncoding), Interrupted(run))
    /\ UNCHANGED <<disk, index, linesBefore>>

\* stopLoading()
StopLoading ==
    /\ Called
    /\ file' = [file EXCEPT !.searches[file.current] = Stop(@)]
    /\ run' = Interrupted(run)
    /\ UNCHANGED <<disk, index, queue, linesBefore, asked, told>>

searchCall == <<disk, logData>>

\* Whether the Log Lines are about to be read again in full.
Rereading ==
    \/ queue.running.kind \in FullKinds \cup {"Attach"} \/ queue.waiting.kind \in FullKinds
    \/ run.outcome = "Truncated"

\* startAnotherSearch()
StartAnotherSearch ==
    /\ Called
    /\ \E s \in Searches \ file.made :
           file' = [KeepWaitingSearch(file) EXCEPT
                       !.rule = WaitingSearchDropped(@), !.searches[file.current] = Stop(@),
                       !.made = @ \cup {s}, !.current = s]
    /\ told' = [told EXCEPT !.borrowed = TRUE]
    /\ UNCHANGED <<searchCall, asked>>

\* makeSearchCurrent(), of a kept Search: its one caller,
\* KeptSearches::makeCurrent(), asks it of no other.
MakeSearchCurrent ==
    /\ Called
    /\ \E s \in file.made \ {file.current} :
           LET made == [KeepWaitingSearch(file) EXCEPT
                           !.rule = WaitingSearchDropped(@), !.searches[file.current] = Stop(@),
                           !.current = s]
           IN  file' = IF made.waiting[s] = NoPattern THEN made
                       ELSE [made EXCEPT !.pattern = made.waiting[s], !.waiting[s] = NoPattern,
                                         !.rule = SearchRequested(@)]
    /\ told' = [told EXCEPT !.borrowed = TRUE]
    /\ UNCHANGED <<searchCall, asked>>

\* requestKeptSearch(), of a Search that is not current.
RequestKeptSearch ==
    /\ Called
    /\ \E s \in file.made \ {file.current}, p \in Patterns :
           /\ LET free == StopHolding(file, s)
              IN  file' = IF file.rule.loadFinishedOnce
                          THEN RequestOn([free EXCEPT !.waiting[s] = NoPattern], s, p)
                          ELSE [free EXCEPT !.waiting[s] = p]
           /\ asked' = [asked EXCEPT ![s] = IF file.rule.loadFinishedOnce THEN NoPattern ELSE p]
    /\ UNCHANGED <<searchCall, told>>

\* A kept Search goes with its view: KeptSearches::drop().
DropKeptSearch_StillWaits ==
    /\ Called
    /\ \E s \in file.made \ {file.current} :
           /\ file' = [file EXCEPT !.made = @ \ {s}, !.searches[s] = Idle, !.marks[s] = FALSE]
           /\ asked' = [asked EXCEPT ![s] = NoPattern]
    /\ UNCHANGED <<searchCall, told>>
DropKeptSearch ==
    /\ Called
    /\ \E s \in file.made \ {file.current} :
           /\ file' = [StopHolding(file, s) EXCEPT !.made = @ \ {s}, !.waiting[s] = NoPattern,
                          !.searches[s] = Idle, !.marks[s] = FALSE]
           /\ asked' = [asked EXCEPT ![s] = NoPattern]
    /\ LET stay == file.rule.savedMarks \/ \E s \in file'.made : file.marks[s]
       IN  told' = [told EXCEPT !.marked = @ /\ stay]
    /\ UNCHANGED searchCall

\* requestSearch()
SearchAsked ==
    /\ Called
    /\ \E p \in Patterns :
           /\ file' = RequestSearch(file, p)
           /\ asked' = [asked EXCEPT ![file.current] = IF file.rule.loadFinishedOnce THEN NoPattern ELSE p]
    /\ told' = [told EXCEPT !.early = Rereading, !.borrowed = FALSE, !.apart = FALSE]
    /\ UNCHANGED searchCall

\* clearSearch()
ClearSearch ==
    /\ Called
    /\ file' = [StopHolding(file, file.current) EXCEPT
                   !.rule = SearchCleared(@), !.searches[file.current] = Idle, !.refresh = ResetState(@)]
    /\ asked' = [asked EXCEPT ![file.current] = NoPattern]
    /\ told' = [told EXCEPT !.borrowed = FALSE]
    /\ UNCHANGED searchCall

\* stopSearch()
StopSearch ==
    /\ Called
    /\ file' = [StopHolding(file, file.current) EXCEPT
                   !.rule = WaitingSearchDropped(@), !.searches[file.current] = Stop(@),
                   !.refresh = Suspend(@)]
    /\ asked' = [asked EXCEPT ![file.current] = NoPattern]
    /\ UNCHANGED <<searchCall, told>>

\* changeSearchExpression()
ChangeSearchExpression ==
    /\ Called
    /\ file' = [file EXCEPT !.refresh = Suspend(@)]
    /\ UNCHANGED <<searchCall, asked, told>>

\* setAutoRefresh()
AskAutoRefresh ==
    /\ Called
    /\ file' = [file EXCEPT !.refresh = SetAutoRefresh(@, ~file.refresh.requested)]
    /\ told' = [told EXCEPT !.apart = TRUE]
    /\ UNCHANGED <<searchCall, asked>>

\* setSearchLimits(), within the Log Lines loaded.
SetSearchLimits ==
    /\ Called
    /\ \E limits \in Limits :
           /\ limits.start < limits.end /\ limits.end <= NbLines /\ limits # file.limits
           /\ file' = [file EXCEPT !.limits = limits]
           /\ told' = [told EXCEPT !.apart = TRUE, !.narrowed = limits # [start |-> 0, end |-> NbLines]]
    /\ UNCHANGED <<searchCall, asked>>

\* holdWaitingSearches()
HoldWaitingSearches ==
    /\ Called
    /\ ~file.rule.loadFinishedOnce
    /\ file' = [file EXCEPT !.heldBefore =
                   {s \in Searches : (s = file.current /\ file.rule.searchWaits) \/ file.waiting[s] # NoPattern}]
    /\ UNCHANGED <<searchCall, asked, told>>

\* releaseHeldSearches(): the Searches in an order that does not matter, the
\* current one with requestSearch().
ReleaseHeldSearches ==
    /\ Called
    /\ LET held == file.heldAfter
           released == [file EXCEPT !.heldBefore = {}, !.heldAfter = [s \in Searches |-> NoPattern],
                           !.searches = [s \in Searches |->
                               IF held[s] = NoPattern \/ s = file.current THEN @[s]
                               ELSE Request(@[s], held[s], file.limits, file.format)]]
       IN  /\ held # [s \in Searches |-> NoPattern] \/ file.heldBefore # {}
           /\ file' = IF held[file.current] = NoPattern THEN released
                      ELSE RequestSearch(released, held[file.current])
           /\ told' = IF held[file.current] = NoPattern THEN told
                      ELSE [told EXCEPT !.early = Rereading, !.borrowed = FALSE, !.apart = FALSE]
    /\ asked' = Requested(file', asked)
    /\ UNCHANGED searchCall

\* stopWatching(): the watcher is heard of no more, but for what is posted by
\* then.
StopWatching ==
    /\ Called
    /\ file.rule.watching = "On"
    /\ LET stopping == StopWatchingAsked(file.rule, file.opened)
       IN  /\ file' = [file EXCEPT !.rule = stopping.rule]
           /\ told' = [told EXCEPT !.stopAsked = TRUE, !.stopFile = logFile,
                          !.raced = Delivered /\ run.outcome = "Unchanged",
                          !.stopped = @ + (IF Stops(stopping.step) THEN 1 ELSE 0)]
           /\ IF stopping.step = "CheckAgain" THEN Enqueued(Check, run) ELSE UNCHANGED <<queue, run>>
    /\ watched' = FALSE /\ unreported' = FALSE
    /\ posted' \in {posted, posted \/ unreported}
    /\ UNCHANGED <<logFile, index, linesBefore, asked>>

SearchCalls ==
    \/ StartAnotherSearch \/ MakeSearchCurrent \/ RequestKeptSearch \/ DropKeptSearch
    \/ SearchAsked \/ ClearSearch \/ StopSearch \/ ChangeSearchExpression \/ AskAutoRefresh
    \/ SetSearchLimits \/ HoldWaitingSearches \/ ReleaseHeldSearches

Next ==
    \/ Grow \/ Truncate \/ Worker \/ SearchCompletes
    \/ Delivery \/ HandleChangeOnDisk
    \/ Open \/ Reload \/ StopLoading \/ StopWatching \/ SearchCalls

Spec == Init /\ [][Next]_vars

(***************************************************************************)
(* Properties.                                                             *)
(***************************************************************************)
\* Every report is delivered, and no change on disk is still to be looked at.
Quiet == file.opened /\ queue.running = NoJob /\ ~unreported /\ ~posted

\* A Search requested before the first load ended, current or kept, waits with
\* the pattern requested last, whatever is made current, held, released or
\* loaded meanwhile, until it is requested or withdrawn
\* (keepWaitingSearch, makeSearchCurrent, handleLoadingFinished).
AskedIsKept == \A s \in Searches : asked[s] # NoPattern => WaitsWith(file, s) = asked[s]

\* At rest the Search Limits name Log Lines there are, and are the whole Log
\* File when nobody narrowed them, through growth, truncation, failed and
\* interrupted loads (settleSearchLimits).
LimitsSettled ==
    Quiet => /\ file.limits.end <= NbLines
             /\ file.limits.start < file.limits.end \/ NbLines = 0
             /\ ~told.narrowed => file.limits = [start |-> 0, end |-> NbLines]

\* A load told as having only appended Log Lines left those told before as
\* they were, whichever changes on disk and reloads it ended for
\* (LoadFinished::onlyAppended).
OnlyAppendedIsAppended == told.honest

\* What a Search that follows its Log File has read: its Search Limits are
\* the current ones, and so are the Log Lines.
Follows(s) ==
    LET search == file.searches[s]
    IN  /\ search.pattern = file.pattern
        /\ search.start = file.limits.start /\ search.end = file.limits.end
        /\ search.seen = SubSeq(index.lines, search.start + 1, search.end)

\* A Search followed by auto-refresh has, when all is at rest, read every Log
\* Line within the Search Limits as it is now.  Not one requested while the
\* Log Lines were about to be read again, nor where the state of another
\* Search was taken over, nor until the next load after the Limits or the
\* auto-refresh were set (LoadDecision::searchRefresh).
FollowedSearch ==
    Quiet /\ file.refresh.state = "Autorefreshing" /\ ~told.early /\ ~told.borrowed /\ ~told.apart
          /\ file.searches[file.current].phase = "Complete"
        => Follows(file.current)

\* The Log Format at rest was taken from the Log File as it now begins, and
\* from as many Log Lines as there are when none was found, up to the sample
\* (formatRecognitionTaken).  Not after a reload asked for between the end of
\* a load and its report, which takes the recognition for itself.
FormatFollows ==
    Quiet /\ NbLines > 0 /\ ~told.reloadRaced =>
        /\ file.sampled.gen = index.lines[1]
        /\ file.format = "None" => Min({file.sampled.lines, SampleDepth}) = Min({NbLines, SampleDepth})

\* The current Search read its Field Terms through the Log Format the Log File
\* now has (withFieldReader, handleLoadingFinished).
FieldTermsRead ==
    Quiet /\ ~told.borrowed =>
        LET search == file.searches[file.current]
        IN  search.phase # "Idle" /\ search.pattern \in FieldPatterns /\ search.pattern = file.pattern
                => search.reader = file.format

\* The saved Marks are applied to a Search that is kept, or still to be
\* applied, unless a load that left no Log Line took them or a reload or a
\* truncation cleared them (restoreMarks, savedMarksToApply).
SavedMarksAreKept == told.marked => file.rule.savedMarks \/ \E s \in file.made : file.marks[s]

\* watchingStopped() is told when the Log File is loaded as it was on disk when
\* the watching was stopped, or later; not where a Check had already ended
\* (continueStoppingToWatch).
StoppedIsLoaded == told.stopped > 0 /\ ~told.raced => told.stoppedRight

\* It is told in the end, whatever loads fail or are stopped, and once: never
\* is all at rest with a stop still to be told, or told twice.
StopIsTold == Quiet /\ told.stopAsked => told.stopped = 1
=============================================================================
