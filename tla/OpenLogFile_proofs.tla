------------------------- MODULE OpenLogFile_proofs -------------------------
(***************************************************************************)
(* Proofs about OpenLogFile, for every set of Searches and patterns, every *)
(* Log File and every bound: whatever loads, Checks, changes on disk and   *)
(* calls interleave, what its users were told and what its Searches read   *)
(* agrees with the Log Lines there are, and no request of theirs is lost.  *)
(*                                                                         *)
(* One inductive invariant carries all of it: how the queue and the run in *)
(* flight stand, and by where they stand, what the Log Lines, the rule,    *)
(* the Searches and the Log Format still are to each other.                *)
(***************************************************************************)
EXTENDS OpenLogFile, SequenceTheorems, TLAPS

-----------------------------------------------------------------------------
(* Types.                                                                  *)

SearchMembers ==
    [phase : Phases, pattern : Known, reader : FormatNames, start : Lines, end : Lines,
     seen : Seq(Generations \cup {0}), changed : BOOLEAN]

FileMembers ==
    [opened : BOOLEAN, rule : Rules(Lines), refresh : AutoRefresh,
     searches : [Searches -> SearchMembers], made : SUBSET Searches, current : Searches,
     pattern : Known, waiting : [Searches -> Known], heldBefore : SUBSET Searches,
     heldAfter : [Searches -> Known], limits : Limits, marks : [Searches -> BOOLEAN],
     format : FormatNames, sampled : [gen : Nat, lines : Nat]]

ToldMembers ==
    [lines : Seq(Generations), honest : BOOLEAN, stopped : Nat, stoppedRight : BOOLEAN,
     stopAsked : BOOLEAN, stopFile : [gen : Generations, lines : Lines], raced : BOOLEAN,
     early : BOOLEAN, borrowed : BOOLEAN, apart : BOOLEAN, narrowed : BOOLEAN,
     reloadRaced : BOOLEAN, marked : BOOLEAN]

JobsHere == {NoJob, Partial, Check, Automatic, Explicit(NoEncoding), Attach(NoEncoding)}
Waiting == {NoJob, Check, Explicit(NoEncoding)}

TypeInv ==
    /\ logFile \in [gen : Generations, lines : Lines]
    /\ unreported \in BOOLEAN /\ posted \in BOOLEAN /\ watched \in BOOLEAN
    /\ index \in [lines : Seq(Generations), recorded : BOOLEAN] /\ NbLines \in Lines
    /\ queue \in [running : JobsHere, waiting : Waiting]
    /\ run \in [at : {"off", "queued", "reading", "ended"}, superseded : BOOLEAN,
                outcome : {"None"} \cup LoadedOutcomes \cup CheckOutcomes]
    /\ linesBefore \in Lines
    /\ file \in FileMembers /\ file.current \in file.made
    /\ asked \in [Searches -> Known]
    /\ told \in ToldMembers
    /\ counts \in [events : Nat, calls : Nat]
    /\ logFile.gen <= counts.events + 1 /\ counts.events <= MaxEvents

-----------------------------------------------------------------------------
(* The invariant.                                                          *)

Fulls == {Automatic, Explicit(NoEncoding)}

\* Where the run in flight is.
RunInv ==
    /\ (run.at = "off") <=> (queue.running = NoJob)
    /\ queue.running = NoJob => queue.waiting = NoJob
    /\ run.at = "reading" => index = NoLines /\ queue.running \in Fulls \cup {Attach(NoEncoding)}
    /\ run.at = "ended" =>
        /\ (run.outcome \in CheckOutcomes) <=> (queue.running = Check)
        /\ run.outcome # "None"
        /\ run.outcome \in {"Interrupted", "Failed"} => index = NoLines
        /\ run.superseded => run.outcome # "Successful"
    /\ run.at = "queued" /\ queue.running = Partial => index.recorded /\ linesBefore = NbLines
    /\ run.at = "ended" /\ run.outcome = "DataAdded" => index.recorded
    /\ ~index.recorded => index.lines = <<>>

\* No index run has touched the Log Lines since the last load was told.
Still == run.at \in {"off", "queued"} \/ queue.running = Check
Added == run.at = "ended" /\ queue.running = Partial /\ run.outcome = "Successful"

\* The Log Format is to be recognized from the next Log Lines there are.
Unrecognized == file.rule.formatPending /\ file.rule.recognizedFrom = 0

\* Up to the end of the first load: nothing is watched, searched or told.
Opening ==
    /\ ~file.opened => queue = NoJobs /\ run = NoRun /\ ~file.rule.loadFinishedOnce
    /\ file.opened /\ ~file.rule.loadFinishedOnce => queue.running = Attach(NoEncoding)
    /\ queue.running = Attach(NoEncoding) => ~file.rule.loadFinishedOnce
    /\ ~file.rule.loadFinishedOnce =>
          /\ ~watched /\ ~unreported /\ ~posted
          /\ told.lines = <<>> /\ ~file.rule.firstLoadDone /\ Unrecognized
          /\ Still => index = NoLines

Whole(n) == [start |-> 0, end |-> n]

\* The Log Lines are those told of last, until an index run changes them; the
\* Search Limits are within them, and the whole of them if nobody narrowed them.
LinesInv ==
    /\ file.rule.loadedLines = Len(told.lines)
    /\ Still => index.lines = told.lines
    /\ Added => Len(told.lines) <= NbLines /\ \A i \in 1..Len(told.lines) : index.lines[i] = told.lines[i]
    /\ Still \/ Added => file.limits.end <= NbLines
    /\ file.limits.start < file.limits.end \/ (file.limits = Whole(0) /\ file.rule.loadedLines = 0)
    /\ ~told.narrowed =>
          \/ file.limits = Whole(file.rule.loadedLines)
          \/ run.at = "ended" /\ queue.running # Check /\ file.limits = Whole(NbLines)

\* A load that reads the Log File again is not told as having only appended:
\* no load is both queued and taken for a growth.
HonestInv ==
    /\ told.honest
    /\ queue.running \in Fulls => ~(file.rule.firstLoadDone /\ file.rule.grew /\ ~file.rule.truncated)
    /\ queue.running = Check /\ queue.waiting \in Fulls => file.rule.truncated

\* A Search waits in one place, and only until the first load ended; one asked
\* for has not run, and waits with the pattern asked for.
WaitInv ==
    /\ ~file.rule.loadFinishedOnce =>
          /\ \A s \in Searches : file.searches[s].phase = "Idle" /\ file.heldAfter[s] = NoPattern
          /\ file.refresh.state = "NoSearch"
    /\ file.rule.loadFinishedOnce =>
          ~file.rule.searchWaits /\ (\A s \in Searches : file.waiting[s] = NoPattern) /\ file.heldBefore = {}
    /\ file.waiting[file.current] = NoPattern
    /\ \A s \in Searches \ file.made :
          /\ file.searches[s] = Idle
          /\ file.waiting[s] = NoPattern /\ file.heldAfter[s] = NoPattern /\ asked[s] = NoPattern
    /\ \A s \in Searches : asked[s] # NoPattern => file.searches[s].phase = "Idle"
    /\ ~told.borrowed /\ asked[file.current] # NoPattern =>
           file.pattern = asked[file.current] /\ ~IsAutoRefreshAllowed(file.refresh)
    /\ AskedIsKept

\* The stop of watching is told once; until then a job is queued whose end
\* tells it, and the Check that finds the Log File unchanged finds it as it
\* was when the watching was stopped, or later.
StopInv ==
    /\ told.stopped = IF file.rule.watching = "Stopped" THEN 1 ELSE 0
    /\ told.stopAsked <=> (file.rule.watching # "On")
    /\ file.rule.watching = "Stopping" /\ file.opened => queue.running # NoJob
    /\ told.stopAsked => /\ logFile.gen >= told.stopFile.gen
                         /\ logFile.gen = told.stopFile.gen => logFile.lines >= told.stopFile.lines
    /\ run.at = "ended" /\ run.outcome = "Unchanged" /\ told.stopAsked /\ ~told.raced => LoadedThen
    /\ told.stoppedRight \/ told.raced
    /\ told.raced => told.stopAsked

\* The Log Lines are to be read again, whatever is recognized.
ReadAgain == queue.running \in Fulls \cup {Attach(NoEncoding)} \/ queue.waiting \in Fulls
\* The Log Format was taken from the Log Lines told of last.
Sampled ==
    /\ file.sampled.gen = told.lines[1]
    /\ file.sampled.lines = file.rule.recognizedFrom /\ file.sampled.lines <= Len(told.lines)
    /\ file.format # "None" => ~file.rule.formatPending
    /\ file.format = "None" =>
         IF file.rule.formatPending THEN file.sampled.lines = Len(told.lines) ELSE file.sampled.lines >= SampleDepth

\* The recognition is begun again by the time the Log Lines are read again,
\* and taken from those there are otherwise.
FormatInv ==
    ~told.reloadRaced =>
        /\ ReadAgain => Unrecognized
        /\ queue.waiting \in Fulls /\ queue.running # Check => run.superseded \/ (run.at = "ended" /\ index.lines = <<>>)
        /\ ~ReadAgain /\ told.lines # <<>> => Sampled
        /\ ~ReadAgain /\ told.lines = <<>> => Unrecognized \/ (Still /\ ~index.recorded)

\* The current Search was requested under the Log Format there is.
FieldInv ==
    ~told.borrowed =>
        LET search == file.searches[file.current]
        IN  /\ search.phase # "Idle" => file.rule.searchRequested
            /\ search.phase # "Idle" /\ search.pattern \in FieldPatterns /\ search.pattern = file.pattern
                => search.reader = file.format

\* A run of a Search, as far as it is: it covers its Search Limits once complete.
Shaped(search) ==
    /\ search.start <= search.end
    /\ Len(search.seen) <= search.end - search.start
    /\ search.phase = "Complete" => Len(search.seen) = search.end - search.start

\* What a Search may be continued from, all it has read but for the last Log
\* Line, is as in the Log Lines given, unless it was told that they changed.
ReadFrom(search, lines) ==
    ~search.changed =>
        /\ \A i \in 1..(Len(search.seen) - 1) :
               search.start + i <= Len(lines) /\ search.seen[i] = lines[search.start + i]
        /\ search.phase = "Running" => search.end <= Len(lines) \/ search.end <= 1

\* The Searches have heard of what was read of the Log Lines.
Trusted == index.recorded /\ ~(run.at = "ended" /\ queue.running \in Fulls \cup {Attach(NoEncoding)})

SearchesInv ==
    \A s \in Searches :
        /\ Shaped(file.searches[s])
        /\ Trusted => ReadFrom(file.searches[s], index.lines)

\* What auto-refresh follows covers the Search Limits, and has read the Log
\* Lines as they are, as far as it is.
FollowInv ==
    LET search == file.searches[file.current]
    IN  /\ file.refresh.state \in {"Static", "Autorefreshing"} /\ ~told.borrowed =>
              search.phase # "Idle" /\ search.pattern = file.pattern
        /\ search.phase # "Idle" /\ ~told.early /\ ~told.borrowed => ~ReadAgain
        /\ file.refresh.state = "Autorefreshing" /\ ~told.early /\ ~told.borrowed /\ ~told.apart =>
              /\ search.start = file.limits.start /\ search.end = file.limits.end
              /\ Still \/ Added =>
                   \A i \in 1..Len(search.seen) :
                      (i < Len(search.seen) \/ search.phase = "Complete") =>
                          search.seen[i] = index.lines[search.start + i]

IInv ==
    /\ TypeInv /\ RunInv /\ Opening /\ LinesInv /\ HonestInv /\ WaitInv /\ StopInv
    /\ FormatInv /\ FieldInv /\ SearchesInv /\ FollowInv /\ SavedMarksAreKept

-----------------------------------------------------------------------------
(* The jobs.                                                               *)

\* No two jobs met here are alike.
LEMMA JobFacts == \A j1, j2 \in JobsHere : j1.kind = j2.kind => j1 = j2
BY DEF JobsHere, NoJob, Partial, Check, Automatic, Explicit, Attach

\* What waits after a job has arrived behind the one running.
LEMMA WaitingFacts ==
    ASSUME NEW w \in Waiting
    PROVE  /\ WaitingIndexJob(w, Check) = (IF w = NoJob THEN Check ELSE w)
           /\ WaitingIndexJob(w, Explicit(NoEncoding)) = Explicit(NoEncoding)
           /\ WaitingIndexJob(w, Partial) = (IF w = NoJob THEN Partial ELSE w)
           /\ WaitingIndexJob(w, Automatic) =
                 (IF w = Explicit(NoEncoding) THEN Explicit(NoEncoding) ELSE Automatic)
           /\ WaitingIndexJob(NoJob, Attach(NoEncoding)) = Attach(NoEncoding)
BY DEF Waiting, NoJob, Partial, Check, Automatic, Explicit, Attach, WaitingIndexJob,
       WithEncodingOf, Strength, FullKinds

\* The queue after a job has arrived.
LEMMA EnqueueFacts ==
    ASSUME NEW q \in [running : JobsHere, waiting : Waiting], NEW job
    PROVE  /\ q.running # NoJob =>
                 /\ Enqueue(q, job).running = q.running
                 /\ Enqueue(q, job).waiting = WaitingIndexJob(q.waiting, job)
                 /\ StartWaiting(Enqueue(q, job)) =
                       [running |-> WaitingIndexJob(q.waiting, job), waiting |-> NoJob]
           /\ q.running = NoJob =>
                 Enqueue(q, job) = [running |-> WaitingIndexJob(q.waiting, job), waiting |-> NoJob]
<1>1. PICK met : met = [q EXCEPT !.waiting = WaitingIndexJob(@, job)]
  OBVIOUS
<1>2. /\ met.running = q.running /\ met.waiting = WaitingIndexJob(q.waiting, job)
  BY <1>1
<1>3. Enqueue(q, job) = IF q.running = NoJob THEN StartWaiting(met) ELSE met
  BY <1>1, Zenon DEF Enqueue
<1> QED
  BY <1>2, <1>3 DEF StartWaiting

-----------------------------------------------------------------------------
(* The Load Rule.                                                          *)

\* The rest of the rule's members: what a change of the others leaves.
RuleKeeps(n, r) ==
    /\ n.searchRequested <=> r.searchRequested
    /\ n.searchWaits <=> r.searchWaits
    /\ n.loadFinishedOnce <=> r.loadFinishedOnce
    /\ n.firstLoadDone <=> r.firstLoadDone
    /\ n.grew <=> r.grew
    /\ n.truncated <=> r.truncated
    /\ n.savedMarks <=> r.savedMarks
    /\ n.formatPending <=> r.formatPending
    /\ n.recognizedFrom = r.recognizedFrom /\ n.loadedLines = r.loadedLines

LEMMA CheckBeforeStopFacts ==
    ASSUME NEW r \in Rules(Lines)
    PROVE  LET n == CheckBeforeWatchingStops(r) IN
           /\ n.rule \in Rules(Lines) /\ RuleKeeps(n.rule, r)
           /\ \/ n.step = "CheckAgain" /\ n.rule.watching = r.watching
              \/ n.step = "StoppedStillChanging" /\ n.rule.watching = "Stopped"
<1> DEFINE more == r.checks < MaxChecksBeforeStopping
<1>1. PICK a : a = [r EXCEPT !.checks = @ + 1, !.watching = IF more THEN @ ELSE "Stopped"]
  OBVIOUS
<1>2. PICK s : s = (IF more THEN "CheckAgain" ELSE "StoppedStillChanging")
  OBVIOUS
<1>3. CheckBeforeWatchingStops(r) = [rule |-> a, step |-> s]
  BY <1>1, <1>2, Zenon DEF CheckBeforeWatchingStops
<1> HIDE DEF more
<1>4. PICK w : w = IF more THEN r.watching ELSE "Stopped"
  OBVIOUS
<1>5. PICK c : c = r.checks + 1
  OBVIOUS
<1>6. a = [r EXCEPT !.checks = c, !.watching = w]
  BY <1>1, <1>4, <1>5
<1>7. w \in {"On", "Stopping", "Stopped"} /\ c \in Nat
  BY <1>4, <1>5 DEF Rules
<1>8. a \in Rules(Lines) /\ a.watching = w
  BY ONLY <1>6, <1>7, r \in Rules(Lines) DEF Rules
<1>9. RuleKeeps(a, r)
  BY ONLY <1>6, r \in Rules(Lines) DEF Rules, RuleKeeps
<1> QED
  BY <1>2, <1>3, <1>4, <1>8, <1>9

LEMMA StopWatchingFacts ==
    ASSUME NEW r \in Rules(Lines), r.watching = "On", NEW attached \in BOOLEAN
    PROVE  LET n == StopWatchingAsked(r, attached) IN
           /\ n.rule \in Rules(Lines) /\ RuleKeeps(n.rule, r)
           /\ \/ attached /\ n.step = "CheckAgain" /\ n.rule.watching = "Stopping"
              \/ attached /\ n.step = "StoppedStillChanging" /\ n.rule.watching = "Stopped"
              \/ ~attached /\ n.step = "None" /\ n.rule.watching = "Stopping"
<1>1. PICK a : a = [r EXCEPT !.watching = "Stopping"]
  OBVIOUS
<1>2. a \in Rules(Lines) /\ a.watching = "Stopping" /\ RuleKeeps(a, r)
  BY <1>1 DEF Rules, RuleKeeps
<1>3. StopWatchingAsked(r, attached) =
        IF attached THEN CheckBeforeWatchingStops(a) ELSE [rule |-> a, step |-> "None"]
  BY <1>1, Zenon DEF StopWatchingAsked
<1>4. CASE attached
  <2>1. StopWatchingAsked(r, attached) = CheckBeforeWatchingStops(a)
    BY <1>3, <1>4
  <2>2. /\ CheckBeforeWatchingStops(a).rule \in Rules(Lines)
        /\ RuleKeeps(CheckBeforeWatchingStops(a).rule, a)
        /\ \/ CheckBeforeWatchingStops(a).step = "CheckAgain"
              /\ CheckBeforeWatchingStops(a).rule.watching = "Stopping"
           \/ CheckBeforeWatchingStops(a).step = "StoppedStillChanging"
              /\ CheckBeforeWatchingStops(a).rule.watching = "Stopped"
    BY <1>2, CheckBeforeStopFacts
  <2> QED
    BY <1>2, <1>4, <2>1, <2>2 DEF RuleKeeps
<1>5. CASE ~attached
  BY <1>2, <1>3, <1>5
<1> QED
  BY <1>4, <1>5

LEMMA FoundUnchangedFacts ==
    ASSUME NEW r \in Rules(Lines)
    PROVE  LET n == FoundUnchanged(r) IN
           /\ n.rule \in Rules(Lines) /\ RuleKeeps(n.rule, r)
           /\ \/ r.watching = "Stopping" /\ n.step = "Stopped" /\ n.rule.watching = "Stopped"
              \/ r.watching # "Stopping" /\ n.step = "None" /\ n.rule.watching = r.watching
<1>1. PICK a : a = [r EXCEPT !.watching = "Stopped"]
  OBVIOUS
<1>2. a \in Rules(Lines) /\ a.watching = "Stopped" /\ RuleKeeps(a, r)
  BY <1>1 DEF Rules, RuleKeeps
<1>3. FoundUnchanged(r) = IF r.watching # "Stopping" THEN [rule |-> r, step |-> "None"]
                          ELSE [rule |-> a, step |-> "Stopped"]
  BY <1>1, Zenon DEF FoundUnchanged
<1> QED
  BY <1>2, <1>3 DEF RuleKeeps

LEMMA SettleFacts ==
    ASSUME NEW r \in Rules(Lines), NEW limits \in Limits, NEW n \in Lines
    PROVE  LET settled == SettleSearchLimits(r, limits, n) IN
           /\ settled \in Limits /\ settled.end <= n
           /\ limits.start < limits.end \/ limits.start = 0 => settled.start <= settled.end
           /\ limits.start < limits.end \/ (limits = Whole(0) /\ r.loadedLines = 0) =>
                settled.start < settled.end \/ (settled = Whole(0) /\ n = 0)
           /\ limits = Whole(r.loadedLines) \/ limits = Whole(n) => settled = Whole(n)
<1>1. PICK e : e = [limits EXCEPT !.end = IF @ < n THEN @ ELSE n]
  OBVIOUS
<1>2. /\ e \in Limits /\ e.start = limits.start /\ e.end <= n
      /\ e.end = IF limits.end < n THEN limits.end ELSE n
      /\ e = [start |-> e.start, end |-> e.end]
  BY <1>1, OpenLogFileAssumption DEF Limits, Lines
<1>3. SettleSearchLimits(r, limits, n) =
        IF (limits.start = 0 /\ limits.end >= r.loadedLines) \/ limits.start >= n
        THEN [start |-> 0, end |-> n] ELSE e
  BY <1>1, Zenon DEF SettleSearchLimits
<1>4. r.loadedLines \in Lines
  BY DEF Rules
<1>5. /\ limits.start \in Lines /\ limits.end \in Lines
      /\ n \in Nat /\ \A l \in Lines : l \in Nat
  BY OpenLogFileAssumption DEF Limits, Lines
<1>6. [start |-> 0, end |-> n] \in Limits
  BY <1>5, OpenLogFileAssumption DEF Limits, Lines
<1> QED
  BY <1>2, <1>3, <1>4, <1>5, <1>6 DEF Whole

\* What the rule leaves and decides of a load that ended.
Decides(load, r, status, n, refresh, limits, searched) ==
    /\ load.rule \in Rules(Lines)
    /\ load.rule.loadFinishedOnce /\ load.rule.firstLoadDone /\ ~load.rule.searchWaits
    /\ ~load.rule.grew /\ ~load.rule.truncated /\ load.rule.loadedLines = n
    /\ load.rule.searchRequested <=> r.searchRequested /\ (r.searchWaits => status = "Successful")
    /\ load.rule.savedMarks <=> r.savedMarks /\ r.firstLoadDone
    /\ load.rule.formatPending <=> r.formatPending
    /\ load.rule.recognizedFrom = r.recognizedFrom
    /\ \/ r.watching # "Stopping" /\ load.watching = "None" /\ load.rule.watching = r.watching
       \/ r.watching = "Stopping" /\ status = "Successful"
            /\ load.watching = "CheckAgain" /\ load.rule.watching = "Stopping"
       \/ r.watching = "Stopping" /\ status = "Successful"
            /\ load.watching = "StoppedStillChanging" /\ load.rule.watching = "Stopped"
       \/ r.watching = "Stopping" /\ status # "Successful"
            /\ load.watching = "Stopped" /\ load.rule.watching = "Stopped"
    /\ load.onlyAppended <=> r.firstLoadDone /\ r.grew /\ ~r.truncated
    /\ load.limits = SettleSearchLimits(r, limits, n)
    /\ load.restarts <=> IsAutoRefreshAllowed(refresh) /\ IsFileTruncated(refresh)
    /\ load.continues <=> IsAutoRefreshAllowed(refresh) /\ ~IsFileTruncated(refresh) /\ searched # load.limits
    /\ load.appliesMarks <=> r.savedMarks /\ ~r.firstLoadDone
    /\ load.runsWaitingSearch <=> r.searchWaits /\ status = "Successful"
    /\ load.recognizesFormat <=> r.formatPending /\ n > r.recognizedFrom

LEMMA LoadFacts ==
    ASSUME NEW r \in Rules(Lines), NEW status \in LoadedOutcomes, NEW n \in Lines,
           NEW refresh \in AutoRefresh, NEW limits \in Limits, NEW searched \in Limits
    PROVE  Decides(LoadFinished(r, status, n, refresh, limits, searched),
                   r, status, n, refresh, limits, searched)
<1> DEFINE runs == r.searchWaits /\ status = "Successful"
           a == [r EXCEPT !.grew = FALSE, !.truncated = FALSE, !.loadedLines = n,
                      !.firstLoadDone = TRUE, !.savedMarks = @ /\ r.firstLoadDone,
                      !.loadFinishedOnce = TRUE, !.searchWaits = FALSE,
                      !.searchRequested = @ /\ (r.searchWaits => runs)]
<1>1. /\ a \in Rules(Lines) /\ a.watching = r.watching
      /\ a.loadFinishedOnce /\ a.firstLoadDone /\ ~a.searchWaits
      /\ ~a.grew /\ ~a.truncated /\ a.loadedLines = n
      /\ a.searchRequested <=> r.searchRequested /\ (r.searchWaits => status = "Successful")
      /\ a.savedMarks <=> r.savedMarks /\ r.firstLoadDone
      /\ a.formatPending <=> r.formatPending
      /\ a.recognizedFrom = r.recognizedFrom
  BY DEF Rules
<1>2. PICK b : b = a
  OBVIOUS
<1>3. PICK checked : checked = WatchingAfterLoad(b, status)
  OBVIOUS
<1>e. PICK onlyAppended, restarts, continues, appliesMarks, runsWaiting, recognizes :
       /\ onlyAppended = (r.firstLoadDone /\ r.grew /\ ~r.truncated)
       /\ restarts = (IsAutoRefreshAllowed(refresh) /\ IsFileTruncated(refresh))
       /\ continues = (IsAutoRefreshAllowed(refresh) /\ ~IsFileTruncated(refresh)
                               /\ searched # SettleSearchLimits(r, limits, n))
       /\ appliesMarks = (r.savedMarks /\ ~r.firstLoadDone)
       /\ runsWaiting = (r.searchWaits /\ status = "Successful")
       /\ recognizes = (r.formatPending /\ n > r.recognizedFrom)
  OBVIOUS
<1>f. PICK fromStart : fromStart = ~r.firstLoadDone
  OBVIOUS
<1>4. LoadFinished(r, status, n, refresh, limits, searched) =
        [rule |-> checked.rule, watching |-> checked.step, fromStart |-> fromStart,
         onlyAppended |-> onlyAppended, limits |-> SettleSearchLimits(r, limits, n),
         restarts |-> restarts, continues |-> continues, appliesMarks |-> appliesMarks,
         runsWaitingSearch |-> runsWaiting, recognizesFormat |-> recognizes]
  BY <1>2, <1>3, <1>e, <1>f, Zenon DEF LoadFinished
<1> HIDE DEF a
<1>5. /\ checked.rule \in Rules(Lines) /\ RuleKeeps(checked.rule, b)
      /\ \/ b.watching # "Stopping" /\ checked.step = "None" /\ checked.rule.watching = b.watching
         \/ b.watching = "Stopping" /\ status = "Successful"
              /\ checked.step = "CheckAgain" /\ checked.rule.watching = "Stopping"
         \/ b.watching = "Stopping" /\ status = "Successful"
              /\ checked.step = "StoppedStillChanging" /\ checked.rule.watching = "Stopped"
         \/ b.watching = "Stopping" /\ status # "Successful"
              /\ checked.step = "Stopped" /\ checked.rule.watching = "Stopped"
  <2>1. b \in Rules(Lines)
    BY <1>1, <1>2
  <2>2. CASE b.watching # "Stopping"
    BY <1>3, <2>1, <2>2 DEF WatchingAfterLoad, RuleKeeps
  <2>3. CASE b.watching = "Stopping" /\ status = "Successful"
    <3>1. checked = CheckBeforeWatchingStops(b)
      BY <1>3, <2>3 DEF WatchingAfterLoad
    <3> QED
      BY <2>1, <2>3, <3>1, CheckBeforeStopFacts
  <2>4. CASE b.watching = "Stopping" /\ status # "Successful"
    <3>1. PICK c : c = [b EXCEPT !.watching = "Stopped"]
      OBVIOUS
    <3>2. checked = [rule |-> c, step |-> "Stopped"]
      BY <1>3, <2>4, <3>1 DEF WatchingAfterLoad
    <3>3. c \in Rules(Lines) /\ RuleKeeps(c, b) /\ c.watching = "Stopped"
      BY <2>1, <3>1 DEF Rules, RuleKeeps
    <3> QED
      BY <2>4, <3>2, <3>3
  <2> QED
    BY <2>2, <2>3, <2>4
<1>6. PICK load : load = LoadFinished(r, status, n, refresh, limits, searched)
  OBVIOUS
<1>7. PICK settled : settled = SettleSearchLimits(r, limits, n)
  OBVIOUS
<1>8. /\ load.rule = checked.rule /\ load.watching = checked.step /\ load.limits = settled
      /\ load.onlyAppended = onlyAppended /\ load.restarts = restarts /\ load.continues = continues
      /\ load.appliesMarks = appliesMarks /\ load.runsWaitingSearch = runsWaiting
      /\ load.recognizesFormat = recognizes
  BY ONLY <1>4, <1>6, <1>7
<1>9. /\ load.onlyAppended <=> r.firstLoadDone /\ r.grew /\ ~r.truncated
      /\ load.restarts <=> IsAutoRefreshAllowed(refresh) /\ IsFileTruncated(refresh)
      /\ load.continues <=> IsAutoRefreshAllowed(refresh) /\ ~IsFileTruncated(refresh)
                              /\ searched # load.limits
      /\ load.appliesMarks <=> r.savedMarks /\ ~r.firstLoadDone
      /\ load.runsWaitingSearch <=> r.searchWaits /\ status = "Successful"
      /\ load.recognizesFormat <=> r.formatPending /\ n > r.recognizedFrom
  BY ONLY <1>e, <1>7, <1>8, Zenon
<1>10. /\ load.rule \in Rules(Lines)
       /\ load.rule.loadFinishedOnce /\ load.rule.firstLoadDone /\ ~load.rule.searchWaits
       /\ ~load.rule.grew /\ ~load.rule.truncated /\ load.rule.loadedLines = n
       /\ load.rule.searchRequested <=> r.searchRequested /\ (r.searchWaits => status = "Successful")
       /\ load.rule.savedMarks <=> r.savedMarks /\ r.firstLoadDone
       /\ load.rule.formatPending <=> r.formatPending
       /\ load.rule.recognizedFrom = r.recognizedFrom
  BY ONLY <1>1, <1>2, <1>5, <1>8 DEF RuleKeeps
<1>11. \/ r.watching # "Stopping" /\ load.watching = "None" /\ load.rule.watching = r.watching
       \/ r.watching = "Stopping" /\ status = "Successful"
            /\ load.watching = "CheckAgain" /\ load.rule.watching = "Stopping"
       \/ r.watching = "Stopping" /\ status = "Successful"
            /\ load.watching = "StoppedStillChanging" /\ load.rule.watching = "Stopped"
       \/ r.watching = "Stopping" /\ status # "Successful"
            /\ load.watching = "Stopped" /\ load.rule.watching = "Stopped"
  BY ONLY <1>1, <1>2, <1>5, <1>8
<1>12. load.limits = SettleSearchLimits(r, limits, n)
  BY ONLY <1>7, <1>8
<1> QED
  BY ONLY <1>6, <1>9, <1>10, <1>11, <1>12, Zenon DEF Decides

-----------------------------------------------------------------------------
(* A Search.                                                               *)

LEMMA IdleFacts == Idle \in SearchMembers /\ Shaped(Idle) /\ \A lines : ReadFrom(Idle, lines)
BY OpenLogFileAssumption DEF Idle, SearchMembers, Phases, Known, FormatNames, Lines, Generations, Shaped, ReadFrom

\* Requested within Search Limits that are in the Log Lines, a Search is
\* continued from what is in them, or read anew.
LEMMA RequestFacts ==
    ASSUME NEW search \in SearchMembers, Shaped(search), NEW p \in Known, NEW limits \in Limits,
           limits.start <= limits.end, NEW format \in FormatNames
    PROVE  LET n == Request(search, p, limits, format) IN
           /\ n \in SearchMembers /\ Shaped(n) /\ n.phase \in {"Running", "InvalidPattern"}
           /\ n.pattern = p /\ n.start = limits.start /\ n.end = limits.end
           /\ n.reader = IF p \in FieldPatterns THEN format ELSE "None"
           /\ \A lines : ReadFrom(search, lines) /\ limits.end <= Len(lines) =>
                /\ ReadFrom(n, lines)
                /\ \A i \in 1..(Len(n.seen) - 1) : n.seen[i] = lines[n.start + i]
           /\ limits.end = 0 => n.seen = <<>>
<1> DEFINE continues == /\ search.phase \in {"Running", "Complete", "Interrupted"}
                        /\ ~search.changed /\ p = search.pattern
                        /\ (IF p \in FieldPatterns THEN format ELSE "None") = search.reader
                        /\ limits.start = search.start /\ limits.end > search.end
<1>1. PICK reader : reader = IF p \in FieldPatterns THEN format ELSE "None"
  OBVIOUS
<1>2. PICK phase : phase = IF p \in InvalidPatterns THEN "InvalidPattern" ELSE "Running"
  OBVIOUS
<1>3. PICK seen : seen = IF continues THEN search.seen ELSE <<>>
  OBVIOUS
<1>4. PICK n : n = Request(search, p, limits, format)
  OBVIOUS
<1>5. n = [phase |-> phase, pattern |-> p, reader |-> reader, start |-> limits.start,
           end |-> limits.end, seen |-> seen, changed |-> FALSE]
  BY <1>1, <1>2, <1>3, <1>4, Zenon DEF Request
<1>6. /\ n.phase = phase /\ n.pattern = p /\ n.reader = reader /\ n.start = limits.start
      /\ n.end = limits.end /\ n.seen = seen /\ ~n.changed
  BY <1>5
<1>7. /\ search.seen \in Seq(Generations \cup {0}) /\ search.start \in Nat /\ search.end \in Nat
      /\ limits.start \in Nat /\ limits.end \in Nat
  BY OpenLogFileAssumption DEF SearchMembers, Limits, Lines
<1>8. seen \in Seq(Generations \cup {0}) /\ Len(seen) <= limits.end - limits.start
  BY <1>3, <1>7 DEF Shaped
<1>9. n \in SearchMembers
  BY <1>1, <1>2, <1>5, <1>8 DEF SearchMembers, Phases, Known, FormatNames, Limits
<1>10. Shaped(n) /\ n.phase \in {"Running", "InvalidPattern"}
  BY <1>2, <1>6, <1>8 DEF Shaped
<1>11. ASSUME NEW lines, ReadFrom(search, lines), limits.end <= Len(lines)
       PROVE  /\ ReadFrom(n, lines)
              /\ \A i \in 1..(Len(n.seen) - 1) : n.seen[i] = lines[n.start + i]
  <2>1. CASE continues
    <3>1. seen = search.seen /\ n.start = search.start /\ ~search.changed
      BY <1>3, <1>6, <2>1
    <3> QED
      BY <1>6, <1>11, <3>1 DEF ReadFrom
  <2>2. CASE ~continues
    BY <1>3, <1>6, <1>11, <2>2 DEF ReadFrom
  <2> QED
    BY <2>1, <2>2
<1>12. limits.end = 0 => n.seen = <<>>
  BY <1>3, <1>6, <1>7
<1> QED
  BY <1>1, <1>4, <1>6, <1>9, <1>10, <1>11, <1>12

LEMMA StopFacts ==
    ASSUME NEW search \in SearchMembers, Shaped(search)
    PROVE  LET n == Stop(search) IN
           /\ n \in SearchMembers /\ Shaped(n)
           /\ n.phase = (IF search.phase = "Running" THEN "Interrupted" ELSE search.phase)
           /\ n.pattern = search.pattern /\ n.reader = search.reader
           /\ n.start = search.start /\ n.end = search.end /\ n.seen = search.seen
           /\ \A lines : ReadFrom(search, lines) => ReadFrom(n, lines)
<1>1. PICK n : n = [search EXCEPT !.phase = "Interrupted"]
  OBVIOUS
<1>2. /\ n \in SearchMembers /\ n.phase = "Interrupted"
      /\ n.pattern = search.pattern /\ n.reader = search.reader
      /\ n.start = search.start /\ n.end = search.end /\ n.seen = search.seen /\ n.changed = search.changed
  BY <1>1 DEF SearchMembers, Phases
<1>3. Stop(search) = IF search.phase = "Running" THEN n ELSE search
  BY <1>1 DEF Stop
<1>4. Shaped(n) /\ \A lines : ReadFrom(search, lines) => ReadFrom(n, lines)
  BY <1>2 DEF Shaped, ReadFrom
<1> QED
  BY <1>2, <1>3, <1>4

\* What is told that Log Lines changed, from the first on or from any, can be
\* continued from in the Log Lines before; told of all, in any.
LEMMA LinesChangedFacts ==
    ASSUME NEW search \in SearchMembers, Shaped(search), NEW first \in Nat
    PROVE  LET n == LinesChanged(search, first) IN
           /\ n \in SearchMembers /\ Shaped(n)
           /\ n.phase = search.phase /\ n.pattern = search.pattern /\ n.reader = search.reader
           /\ n.start = search.start /\ n.end = search.end /\ n.seen = search.seen
           /\ \A lines : ReadFrom(search, lines) => ReadFrom(n, lines)
           /\ first = 0 => \A lines : ReadFrom(n, lines)
           /\ search = Idle => n = Idle
<1>1. PICK searched : searched = IF search.phase = "Running" THEN search.end ELSE search.start + Len(search.seen)
  OBVIOUS
<1>2. PICK c : c = (search.changed \/ (search.end > first /\ first + 1 < searched))
  OBVIOUS
<1>3. PICK n : n = LinesChanged(search, first)
  OBVIOUS
<1>4. n = [search EXCEPT !.changed = c]
  BY <1>1, <1>2, <1>3, Zenon DEF LinesChanged
<1>5. c \in BOOLEAN
  BY <1>2, Zenon DEF SearchMembers
<1>6. /\ n \in SearchMembers
      /\ n.phase = search.phase /\ n.pattern = search.pattern /\ n.reader = search.reader
      /\ n.start = search.start /\ n.end = search.end /\ n.seen = search.seen /\ n.changed = c
  BY ONLY <1>4, <1>5, search \in SearchMembers DEF SearchMembers
<1>7. Shaped(n) /\ \A lines : ReadFrom(search, lines) => ReadFrom(n, lines)
  <2>1. search.changed => c
    BY <1>2, Zenon
  <2> QED
    BY <1>6, <2>1 DEF Shaped, ReadFrom
<1>8. ASSUME first = 0, NEW lines
      PROVE  ReadFrom(n, lines)
  <2>1. SUFFICES ASSUME ~c
                 PROVE  /\ \A i \in 1..(Len(n.seen) - 1) :
                              n.start + i <= Len(lines) /\ n.seen[i] = lines[n.start + i]
                        /\ n.phase = "Running" => n.end <= Len(lines) \/ n.end <= 1
    BY <1>6, Zenon DEF ReadFrom
  <2>2. /\ search.start \in Nat /\ search.end \in Nat /\ Len(search.seen) \in Nat
        /\ search.start <= search.end /\ Len(search.seen) <= search.end - search.start
    BY OpenLogFileAssumption DEF SearchMembers, Lines, Shaped
  <2>3. ~(search.end > first /\ first + 1 < searched)
    BY <1>2, <2>1, Zenon
  <2>4. searched <= 1 \/ search.end = 0
    BY <1>1, <1>8, <2>2, <2>3
  <2> QED
    BY <1>1, <1>6, <2>2, <2>4
<1>9. search = Idle => n = Idle
  <2>1. SUFFICES ASSUME search = Idle PROVE n = Idle
    OBVIOUS
  <2>2. ~search.changed /\ ~(search.end > first)
    BY <2>1 DEF Idle
  <2>3. ~c
    BY <1>2, <2>2, Zenon
  <2>4. c = FALSE
    BY <1>5, <2>3, Zenon
  <2> QED
    BY <1>4, <2>1, <2>4 DEF Idle
<1> QED
  BY <1>3, <1>6, <1>7, <1>8, <1>9

\* A run that ends has read the Log Lines it had not, and the last before them.
LEMMA CompletedFacts ==
    ASSUME TypeInv, NEW search \in SearchMembers, Shaped(search)
    PROVE  LET n == Completed(search) IN
           /\ n \in SearchMembers /\ Shaped(n) /\ n.phase = "Complete"
           /\ n.pattern = search.pattern /\ n.reader = search.reader
           /\ n.start = search.start /\ n.end = search.end
           /\ search.phase = "Running" /\ ReadFrom(search, index.lines) => ReadFrom(n, index.lines)
           /\ search.end <= NbLines /\ (\A i \in 1..(Len(search.seen) - 1) :
                                           search.seen[i] = index.lines[search.start + i])
                => \A i \in 1..Len(n.seen) : n.seen[i] = index.lines[n.start + i]
<1> DEFINE from == IF search.seen = <<>> THEN 1 ELSE Len(search.seen)
           seen == [i \in 1..(search.end - search.start) |->
                       IF i < from THEN search.seen[i]
                       ELSE IF search.start + i <= NbLines THEN index.lines[search.start + i] ELSE 0]
<1>1. PICK n : n = Completed(search)
  OBVIOUS
<1>2. PICK s : s = seen
  OBVIOUS
<1>3. n = [search EXCEPT !.phase = "Complete", !.seen = s]
  BY <1>1, <1>2, Zenon DEF Completed
<1>4. /\ search.seen \in Seq(Generations \cup {0}) /\ search.start \in Nat /\ search.end \in Nat
      /\ search.start <= search.end /\ Len(search.seen) <= search.end - search.start
      /\ index.lines \in Seq(Generations) /\ NbLines \in Nat /\ Len(index.lines) = NbLines
  BY OpenLogFileAssumption DEF SearchMembers, Lines, Shaped, TypeInv, NbLines
<1>5. \A i \in 1..(search.end - search.start) :
          (IF i < from THEN search.seen[i]
           ELSE IF search.start + i <= NbLines THEN index.lines[search.start + i] ELSE 0) \in Generations \cup {0}
  BY <1>4
<1>6. s \in [1..(search.end - search.start) -> Generations \cup {0}]
  BY <1>2, <1>5
<1>7. s \in Seq(Generations \cup {0}) /\ Len(s) = search.end - search.start
  BY <1>4, <1>6
<1>8. \A i \in 1..Len(s) :
          s[i] = IF i < from THEN search.seen[i]
                 ELSE IF search.start + i <= NbLines THEN index.lines[search.start + i] ELSE 0
  BY <1>2, <1>7
<1>9. /\ n \in SearchMembers /\ n.phase = "Complete" /\ n.seen = s
      /\ n.pattern = search.pattern /\ n.reader = search.reader
      /\ n.start = search.start /\ n.end = search.end /\ n.changed = search.changed
  BY ONLY <1>3, <1>7, search \in SearchMembers DEF SearchMembers, Phases
<1>10. Shaped(n)
  BY <1>4, <1>7, <1>9 DEF Shaped
<1>11. from \in Nat /\ (from = Len(search.seen) \/ from = 1)
  BY <1>4
<1> HIDE DEF from, seen
<1>12. ASSUME search.phase = "Running", ReadFrom(search, index.lines)
       PROVE  ReadFrom(n, index.lines)
  <2>1. SUFFICES ASSUME ~search.changed, NEW i \in 1..(Len(s) - 1)
                 PROVE  search.start + i <= NbLines /\ s[i] = index.lines[search.start + i]
    BY <1>4, <1>9 DEF ReadFrom
  <2>2. search.end <= NbLines \/ search.end <= 1
    BY <1>4, <1>12, <2>1 DEF ReadFrom
  <2>3. search.start + i <= NbLines
    BY <1>4, <1>7, <2>2
  <2>4. i < from => search.seen[i] = index.lines[search.start + i]
    BY <1>4, <1>11, <1>12, <2>1 DEF ReadFrom
  <2> QED
    BY <1>7, <1>8, <2>3, <2>4
<1>13. ASSUME search.end <= NbLines,
              \A i \in 1..(Len(search.seen) - 1) : search.seen[i] = index.lines[search.start + i],
              NEW i \in 1..Len(s)
       PROVE  s[i] = index.lines[search.start + i]
  <2>1. search.start + i <= NbLines
    BY <1>4, <1>7, <1>13
  <2>2. i < from => search.seen[i] = index.lines[search.start + i]
    BY <1>4, <1>11, <1>13
  <2> QED
    BY <1>8, <2>1, <2>2
<1> QED
  BY <1>1, <1>9, <1>10, <1>12, <1>13

-----------------------------------------------------------------------------
(* What the operations are made of.                                        *)

SearchesShaped(f) == \A s \in Searches : Shaped(f.searches[s])

LEMMA AutoRefreshFacts ==
    ASSUME NEW a \in AutoRefresh
    PROVE  /\ ResetState(a) \in AutoRefresh /\ ResetState(a).state = "NoSearch"
           /\ StartSearch(a) \in AutoRefresh /\ StartSearch(a).state \in {"Static", "Autorefreshing"}
           /\ Suspend(a) \in AutoRefresh
           /\ Suspend(a).state \in {"Static", "Autorefreshing"} => a.state \in {"Static", "Autorefreshing"}
           /\ Suspend(a).state # "Autorefreshing"
           /\ Suspend(a).state = "NoSearch" <=> a.state = "NoSearch"
           /\ TruncateFile(a) \in AutoRefresh /\ TruncateFile(a).state \in {"TruncatedAutorefreshing", "FileTruncated"}
           /\ IsAutoRefreshAllowed(TruncateFile(a)) => IsAutoRefreshAllowed(a)
           /\ \A wanted \in BOOLEAN :
                 /\ SetAutoRefresh(a, wanted) \in AutoRefresh
                 /\ SetAutoRefresh(a, wanted).state \in {"Static", "Autorefreshing"}
                       => a.state \in {"Static", "Autorefreshing"}
                 /\ SetAutoRefresh(a, wanted).state = "NoSearch" <=> a.state = "NoSearch"
           /\ IsAutoRefreshAllowed(Suspend(a)) => IsAutoRefreshAllowed(a)
BY DEF AutoRefresh, RefreshStates, ResetState, StartSearch, Suspend, TruncateFile, SetAutoRefresh, IsAutoRefreshAllowed

\* The members a Search does not change.
Others(n, f) ==
    /\ n.opened <=> f.opened
    /\ n.made = f.made /\ n.current = f.current /\ n.waiting = f.waiting /\ n.limits = f.limits
    /\ n.marks = f.marks /\ n.format = f.format /\ n.sampled = f.sampled

\* The members of the rule that no call of its users changes but reload().
RuleOthers(n, r) ==
    /\ n.loadFinishedOnce <=> r.loadFinishedOnce
    /\ n.firstLoadDone <=> r.firstLoadDone
    /\ n.grew <=> r.grew
    /\ n.truncated <=> r.truncated
    /\ n.savedMarks <=> r.savedMarks
    /\ n.formatPending <=> r.formatPending
    /\ n.recognizedFrom = r.recognizedFrom /\ n.loadedLines = r.loadedLines
    /\ n.watching = r.watching /\ n.checks = r.checks

LEMMA StopHoldingFacts ==
    ASSUME NEW f \in FileMembers, NEW s \in Searches
    PROVE  LET n == StopHolding(f, s) IN
           /\ n \in FileMembers /\ Others(n, f) /\ n.rule = f.rule /\ n.refresh = f.refresh
           /\ n.searches = f.searches /\ n.pattern = f.pattern
           /\ n.heldBefore = f.heldBefore \ {s}
           /\ \A t \in Searches : n.heldAfter[t] = IF t = s THEN NoPattern ELSE f.heldAfter[t]
<1>1. PICK h : h = [f.heldAfter EXCEPT ![s] = NoPattern]
  OBVIOUS
<1>2. PICK n : n = StopHolding(f, s)
  OBVIOUS
<1>3. n = [f EXCEPT !.heldBefore = f.heldBefore \ {s}, !.heldAfter = h]
  BY <1>1, <1>2 DEF StopHolding, FileMembers
<1>4. h \in [Searches -> Known] /\ \A t \in Searches : h[t] = IF t = s THEN NoPattern ELSE f.heldAfter[t]
  BY <1>1 DEF FileMembers, Known
<1>5. f.heldBefore \ {s} \in SUBSET Searches
  BY DEF FileMembers
<1>6. /\ n \in FileMembers /\ Others(n, f) /\ n.rule = f.rule /\ n.refresh = f.refresh
      /\ n.searches = f.searches /\ n.pattern = f.pattern
      /\ n.heldBefore = f.heldBefore \ {s} /\ n.heldAfter = h
  BY ONLY <1>3, <1>4, <1>5, f \in FileMembers DEF FileMembers, Others
<1> QED
  BY <1>2, <1>4, <1>6

LEMMA RequestOnFacts ==
    ASSUME NEW f \in FileMembers, NEW s \in Searches, NEW p \in Known,
           SearchesShaped(f), f.limits.start <= f.limits.end
    PROVE  LET n == RequestOn(f, s, p) IN
           /\ n \in FileMembers /\ Others(n, f) /\ n.rule = f.rule /\ n.refresh = f.refresh
           /\ n.pattern = f.pattern /\ n.heldBefore = f.heldBefore /\ n.heldAfter = f.heldAfter
           /\ \A t \in Searches : n.searches[t] = IF t = s THEN Request(f.searches[s], p, f.limits, f.format)
                                                  ELSE f.searches[t]
<1>1. PICK r : r = Request(f.searches[s], p, f.limits, f.format)
  OBVIOUS
<1>2. r \in SearchMembers
  <2>1. f.searches[s] \in SearchMembers /\ f.limits \in Limits /\ f.format \in FormatNames
    BY DEF FileMembers
  <2> QED
    BY <1>1, <2>1, RequestFacts DEF SearchesShaped
<1>3. PICK h : h = [f.searches EXCEPT ![s] = r]
  OBVIOUS
<1>4. h \in [Searches -> SearchMembers] /\ \A t \in Searches : h[t] = IF t = s THEN r ELSE f.searches[t]
  BY <1>2, <1>3 DEF FileMembers
<1>5. PICK n : n = RequestOn(f, s, p)
  OBVIOUS
<1>6. n = [f EXCEPT !.searches = h]
  BY <1>1, <1>3, <1>5 DEF RequestOn, FileMembers
<1>7. /\ n \in FileMembers /\ Others(n, f) /\ n.rule = f.rule /\ n.refresh = f.refresh
      /\ n.pattern = f.pattern /\ n.heldBefore = f.heldBefore /\ n.heldAfter = f.heldAfter
      /\ n.searches = h
  BY ONLY <1>4, <1>6, f \in FileMembers DEF FileMembers, Others
<1> QED
  BY <1>1, <1>4, <1>5, <1>7

LEMMA RuleFacts ==
    ASSUME NEW r \in Rules(Lines)
    PROVE  /\ SearchRequested(r) \in Rules(Lines) /\ RuleOthers(SearchRequested(r), r)
           /\ SearchRequested(r).searchRequested
           /\ SearchRequested(r).searchWaits <=> r.searchWaits \/ ~r.loadFinishedOnce
           /\ SearchCleared(r) \in Rules(Lines) /\ RuleOthers(SearchCleared(r), r)
           /\ ~SearchCleared(r).searchRequested /\ ~SearchCleared(r).searchWaits
           /\ WaitingSearchDropped(r) \in Rules(Lines) /\ RuleOthers(WaitingSearchDropped(r), r)
           /\ WaitingSearchDropped(r).searchRequested <=> r.searchRequested
           /\ ~WaitingSearchDropped(r).searchWaits
<1>1. PICK n : n = SearchRequested(r)
  OBVIOUS
<1>2. PICK w : w = (r.searchWaits \/ ~r.loadFinishedOnce)
  OBVIOUS
<1>3. w \in BOOLEAN
  BY <1>2, Zenon DEF Rules
<1>4. n = [r EXCEPT !.searchRequested = TRUE, !.searchWaits = w]
  BY <1>1, <1>2, Zenon DEF SearchRequested
<1>5. n \in Rules(Lines) /\ RuleOthers(n, r) /\ n.searchRequested = TRUE /\ n.searchWaits = w
  BY ONLY <1>3, <1>4, r \in Rules(Lines) DEF Rules, RuleOthers
<1>6. n.searchWaits <=> r.searchWaits \/ ~r.loadFinishedOnce
  BY <1>2, <1>5, Zenon
<1>7. /\ SearchCleared(r) \in Rules(Lines) /\ RuleOthers(SearchCleared(r), r)
      /\ ~SearchCleared(r).searchRequested /\ ~SearchCleared(r).searchWaits
  BY DEF SearchCleared, Rules, RuleOthers
<1>8. /\ WaitingSearchDropped(r) \in Rules(Lines) /\ RuleOthers(WaitingSearchDropped(r), r)
      /\ WaitingSearchDropped(r).searchRequested <=> r.searchRequested
      /\ ~WaitingSearchDropped(r).searchWaits
  BY DEF WaitingSearchDropped, Rules, RuleOthers
<1> QED
  BY <1>1, <1>5, <1>6, <1>7, <1>8

LEMMA RequestSearchFacts ==
    ASSUME NEW f \in FileMembers, NEW p \in Known,
           SearchesShaped(f), f.limits.start <= f.limits.end
    PROVE  LET n == RequestSearch(f, p) IN
           /\ n \in FileMembers /\ Others(n, f) /\ RuleOthers(n.rule, f.rule)
           /\ n.rule.searchRequested
           /\ n.rule.searchWaits <=> f.rule.searchWaits \/ ~f.rule.loadFinishedOnce
           /\ n.pattern = p /\ n.heldBefore = f.heldBefore \ {f.current}
           /\ \A s \in Searches : n.heldAfter[s] = IF s = f.current THEN NoPattern ELSE f.heldAfter[s]
           /\ ~f.rule.loadFinishedOnce => n.searches = f.searches /\ n.refresh = f.refresh
           /\ f.rule.loadFinishedOnce =>
                /\ \A s \in Searches :
                      n.searches[s] = IF s = f.current THEN Request(f.searches[s], p, f.limits, f.format)
                                      ELSE f.searches[s]
                /\ n.refresh.state \in {"NoSearch", "Static", "Autorefreshing"}
                /\ n.refresh.state = "NoSearch" <=> p \in InvalidPatterns
<1>1. PICK h : h = StopHolding(f, f.current)
  OBVIOUS
<1>2. f.current \in Searches /\ f.rule \in Rules(Lines)
  BY DEF FileMembers
<1>3. /\ h \in FileMembers /\ Others(h, f) /\ h.rule = f.rule /\ h.refresh = f.refresh
      /\ h.searches = f.searches /\ h.heldBefore = f.heldBefore \ {f.current}
      /\ \A s \in Searches : h.heldAfter[s] = IF s = f.current THEN NoPattern ELSE f.heldAfter[s]
  BY <1>1, <1>2, StopHoldingFacts
<1>4. PICK r : r = SearchRequested(f.rule)
  OBVIOUS
<1>5. /\ r \in Rules(Lines) /\ RuleOthers(r, f.rule) /\ r.searchRequested
      /\ r.searchWaits <=> f.rule.searchWaits \/ ~f.rule.loadFinishedOnce
  BY <1>2, <1>4, RuleFacts
<1>6. PICK w : w = [h EXCEPT !.pattern = p, !.rule = r]
  OBVIOUS
<1>7. w = [StopHolding(f, f.current) EXCEPT !.pattern = p, !.rule = SearchRequested(@)]
  BY <1>1, <1>3, <1>4, <1>6
<1>8. /\ w \in FileMembers /\ w.rule = r /\ w.refresh = h.refresh /\ w.pattern = p
      /\ w.searches = h.searches /\ w.heldBefore = h.heldBefore /\ w.heldAfter = h.heldAfter
      /\ Others(w, h)
  BY ONLY <1>3, <1>5, <1>6, p \in Known DEF FileMembers, Others
<1>9. PICK n : n = RequestSearch(f, p)
  OBVIOUS
<1>10. CASE ~f.rule.loadFinishedOnce
  <2>1. n = w
    BY <1>7, <1>9, <1>10, Zenon DEF RequestSearch
  <2>2. Others(n, f)
    BY <1>3, <1>8, <2>1 DEF Others
  <2> QED
    BY <1>3, <1>5, <1>8, <1>9, <1>10, <2>1, <2>2
<1>11. CASE f.rule.loadFinishedOnce
  <2>1. PICK q : q = RequestOn(w, f.current, p)
    OBVIOUS
  <2>2. /\ w.limits = f.limits /\ w.format = f.format /\ w.searches = f.searches
        /\ SearchesShaped(w) /\ w.limits.start <= w.limits.end
    BY <1>3, <1>8 DEF Others, SearchesShaped
  <2>3. /\ q \in FileMembers /\ Others(q, w) /\ q.rule = w.rule /\ q.refresh = w.refresh
        /\ q.pattern = w.pattern /\ q.heldBefore = w.heldBefore /\ q.heldAfter = w.heldAfter
        /\ \A s \in Searches : q.searches[s] =
              IF s = f.current THEN Request(w.searches[f.current], p, w.limits, w.format) ELSE w.searches[s]
    BY <1>2, <1>8, <2>1, <2>2, RequestOnFacts
  <2>4. PICK a : a = IF p \in InvalidPatterns THEN ResetState(q.refresh) ELSE StartSearch(q.refresh)
    OBVIOUS
  <2>5. /\ a \in AutoRefresh /\ a.state \in {"NoSearch", "Static", "Autorefreshing"}
        /\ a.state = "NoSearch" <=> p \in InvalidPatterns
    <3>1. q.refresh \in AutoRefresh
      BY <2>3 DEF FileMembers
    <3> QED
      BY <2>4, <3>1, AutoRefreshFacts
  <2>6. n = [q EXCEPT !.refresh = a]
    <3>1. n = [q EXCEPT !.refresh = IF p \in InvalidPatterns THEN ResetState(@) ELSE StartSearch(@)]
      BY <1>7, <1>9, <1>11, <2>1, Zenon DEF RequestSearch
    <3> QED
      BY <2>3, <2>4, <3>1 DEF FileMembers
  <2>7. /\ n \in FileMembers /\ n.rule = q.rule /\ n.refresh = a /\ n.pattern = q.pattern
        /\ n.searches = q.searches /\ n.heldBefore = q.heldBefore /\ n.heldAfter = q.heldAfter
        /\ Others(n, q)
    BY ONLY <2>3, <2>5, <2>6 DEF FileMembers, Others
  <2>8. Others(n, f)
    BY <1>3, <1>8, <2>3, <2>7 DEF Others
  <2> QED
    BY <1>3, <1>5, <1>8, <1>9, <1>11, <2>2, <2>3, <2>5, <2>7, <2>8
<1> QED
  BY <1>10, <1>11

-----------------------------------------------------------------------------
(* The end of a load, step by step.                                        *)

\* The members while a load that ended is handled: no Search waits, the Search
\* Limits are settled, and what Searches are continued from is in the Log Lines.
Loaded(f) ==
    /\ f \in FileMembers /\ f.rule.loadFinishedOnce /\ ~f.rule.searchWaits
    /\ f.limits.start <= f.limits.end /\ f.limits.end <= NbLines
    /\ \A s \in Searches :
          Shaped(f.searches[s]) /\ (index.recorded => ReadFrom(f.searches[s], index.lines))

\* The current Search is the one the pattern, the refresh and the format are of.
Own(f) ==
    LET search == f.searches[f.current]
    IN  /\ search.phase # "Idle" => f.rule.searchRequested
        /\ search.phase # "Idle" /\ search.pattern \in FieldPatterns /\ search.pattern = f.pattern
             => search.reader = f.format
        /\ f.refresh.state \in {"Static", "Autorefreshing"} => search.phase # "Idle" /\ search.pattern = f.pattern

\* It has read the Log Lines within the Search Limits, as far as it is.
Exact(f) ==
    LET search == f.searches[f.current]
    IN  f.refresh.state = "Autorefreshing" =>
            /\ search.start = f.limits.start /\ search.end = f.limits.end
            /\ \A i \in 1..Len(search.seen) :
                  (i < Len(search.seen) \/ search.phase = "Complete") =>
                      search.seen[i] = index.lines[search.start + i]

\* A Search requested then is one of the Log Lines there are.
LEMMA RequestLoaded ==
    ASSUME TypeInv, RunInv, NEW f, Loaded(f), NEW s \in Searches, NEW p \in Known
    PROVE  LET n == Request(f.searches[s], p, f.limits, f.format) IN
           /\ n \in SearchMembers /\ Shaped(n) /\ n.phase \in {"Running", "InvalidPattern"}
           /\ n.pattern = p /\ n.start = f.limits.start /\ n.end = f.limits.end
           /\ n.reader = IF p \in FieldPatterns THEN f.format ELSE "None"
           /\ index.recorded => ReadFrom(n, index.lines)
           /\ \A i \in 1..(Len(n.seen) - 1) : n.seen[i] = index.lines[n.start + i]
<1>1. /\ f.searches[s] \in SearchMembers /\ f.limits \in Limits /\ f.format \in FormatNames
      /\ Shaped(f.searches[s])
  BY DEF Loaded, FileMembers
<1>2. PICK n : n = Request(f.searches[s], p, f.limits, f.format)
  OBVIOUS
<1>3. /\ n \in SearchMembers /\ Shaped(n) /\ n.phase \in {"Running", "InvalidPattern"}
      /\ n.pattern = p /\ n.start = f.limits.start /\ n.end = f.limits.end
      /\ n.reader = IF p \in FieldPatterns THEN f.format ELSE "None"
      /\ \A lines : ReadFrom(f.searches[s], lines) /\ f.limits.end <= Len(lines) =>
           /\ ReadFrom(n, lines)
           /\ \A i \in 1..(Len(n.seen) - 1) : n.seen[i] = lines[n.start + i]
      /\ f.limits.end = 0 => n.seen = <<>>
  BY <1>1, <1>2, RequestFacts DEF Loaded
<1>4. CASE index.recorded
  <2>1. ReadFrom(f.searches[s], index.lines) /\ f.limits.end <= Len(index.lines)
    BY <1>4 DEF Loaded, NbLines
  <2> QED
    BY <1>2, <1>3, <2>1
<1>5. CASE ~index.recorded
  <2>1. index.lines = <<>>
    BY <1>5 DEF RunInv
  <2>2. f.limits.end = 0
    BY <1>1, <2>1, OpenLogFileAssumption DEF Loaded, NbLines, Limits, Lines
  <2>3. 1..(Len(n.seen) - 1) = {}
    BY <1>3, <2>2
  <2> QED
    BY <1>2, <1>3, <1>5, <2>3
<1> QED
  BY <1>4, <1>5

LEMMA RequestSearchLoaded ==
    ASSUME TypeInv, RunInv, NEW f, Loaded(f), NEW p \in Known
    PROVE  LET n == RequestSearch(f, p) IN
           /\ Loaded(n) /\ Own(n) /\ Exact(n)
           /\ n.searches[n.current].phase \in {"Running", "InvalidPattern"}
           /\ n.searches[n.current].pattern = p
<1>1. /\ f \in FileMembers /\ SearchesShaped(f) /\ f.limits.start <= f.limits.end
      /\ f.current \in Searches /\ f.rule.loadFinishedOnce /\ ~f.rule.searchWaits
  BY DEF Loaded, SearchesShaped, FileMembers
<1>2. PICK n : n = RequestSearch(f, p)
  OBVIOUS
<1>3. PICK r : r = Request(f.searches[f.current], p, f.limits, f.format)
  OBVIOUS
<1>4. /\ n \in FileMembers /\ Others(n, f) /\ RuleOthers(n.rule, f.rule)
      /\ n.rule.searchRequested /\ ~n.rule.searchWaits /\ n.pattern = p
      /\ \A s \in Searches : n.searches[s] = IF s = f.current THEN r ELSE f.searches[s]
  BY <1>1, <1>2, <1>3, RequestSearchFacts
<1>5. /\ r \in SearchMembers /\ Shaped(r) /\ r.phase \in {"Running", "InvalidPattern"}
      /\ r.pattern = p /\ r.start = f.limits.start /\ r.end = f.limits.end
      /\ r.reader = IF p \in FieldPatterns THEN f.format ELSE "None"
      /\ index.recorded => ReadFrom(r, index.lines)
      /\ \A i \in 1..(Len(r.seen) - 1) : r.seen[i] = index.lines[r.start + i]
  BY <1>1, <1>3, RequestLoaded
<1>6. /\ n.current = f.current /\ n.limits = f.limits /\ n.format = f.format
      /\ n.rule.loadFinishedOnce /\ n.searches[n.current] = r
  BY <1>1, <1>4 DEF Others, RuleOthers
<1>7. Loaded(n)
  BY <1>1, <1>4, <1>5, <1>6 DEF Loaded
<1>8. Own(n)
  BY <1>4, <1>5, <1>6 DEF Own
<1>9. Exact(n)
  <2>1. \A i \in 1..Len(r.seen) : i < Len(r.seen) => r.seen[i] = index.lines[r.start + i]
    <3>1. Len(r.seen) \in Nat
      BY <1>5 DEF SearchMembers
    <3> QED
      BY <1>5, <3>1
  <2> QED
    BY <1>5, <1>6, <2>1 DEF Exact
<1> QED
  BY <1>2, <1>5, <1>6, <1>7, <1>8, <1>9

\* So is one started again.
LEMMA RestartLoaded ==
    ASSUME TypeInv, RunInv, NEW f, Loaded(f)
    PROVE  LET n == RestartSearch(f) IN
           /\ Loaded(n) /\ Own(n) /\ Exact(n) /\ Others(n, f) /\ RuleOthers(n.rule, f.rule)
           /\ n.pattern = f.pattern /\ n.heldBefore = f.heldBefore \ {f.current}
           /\ \A s \in Searches :
                /\ n.heldAfter[s] = IF s = f.current THEN NoPattern ELSE f.heldAfter[s]
                /\ s # f.current => n.searches[s] = f.searches[s]
           /\ n.searches[n.current].phase \in {"Running", "InvalidPattern"}
<1>1. f \in FileMembers /\ f.current \in Searches /\ f.pattern \in Known
  BY DEF Loaded, FileMembers
<1>2. PICK h : h = [f.searches EXCEPT ![f.current] = Idle]
  OBVIOUS
<1>3. h \in [Searches -> SearchMembers] /\ \A s \in Searches : h[s] = IF s = f.current THEN Idle ELSE f.searches[s]
  BY <1>1, <1>2, IdleFacts DEF FileMembers
<1>4. PICK g : g = [f EXCEPT !.searches = h]
  OBVIOUS
<1>5. /\ g \in FileMembers /\ Others(g, f) /\ g.rule = f.rule /\ g.pattern = f.pattern
      /\ g.heldBefore = f.heldBefore /\ g.heldAfter = f.heldAfter /\ g.searches = h
  BY ONLY <1>1, <1>3, <1>4 DEF FileMembers, Others
<1>6. Loaded(g) /\ SearchesShaped(g) /\ g.current = f.current
  BY <1>3, <1>5, IdleFacts DEF Loaded, Others, SearchesShaped
<1>7. RestartSearch(f) = RequestSearch(g, f.pattern)
  BY <1>1, <1>2, <1>4 DEF RestartSearch, FileMembers
<1>8. PICK n : n = RequestSearch(g, f.pattern)
  OBVIOUS
<1>9. /\ Loaded(n) /\ Own(n) /\ Exact(n)
      /\ n.searches[n.current].phase \in {"Running", "InvalidPattern"}
  BY <1>1, <1>6, <1>8, RequestSearchLoaded
<1>10. /\ Others(n, g) /\ RuleOthers(n.rule, g.rule) /\ n.pattern = f.pattern
       /\ n.heldBefore = g.heldBefore \ {g.current}
       /\ \A s \in Searches : n.heldAfter[s] = IF s = g.current THEN NoPattern ELSE g.heldAfter[s]
       /\ \A s \in Searches : s # g.current => n.searches[s] = g.searches[s]
  <2>1. g.limits.start <= g.limits.end /\ g.rule.loadFinishedOnce
    BY <1>6 DEF Loaded
  <2> QED
    BY <1>1, <1>5, <1>6, <1>8, <2>1, RequestSearchFacts
<1>11. Others(n, f)
  BY <1>5, <1>10 DEF Others
<1> QED
  BY <1>3, <1>5, <1>6, <1>7, <1>8, <1>9, <1>10, <1>11

Ended == Delivered /\ run.outcome \in LoadedOutcomes

\* The rule's decision, of the members there are.
LEMMA DecisionFacts ==
    ASSUME TypeInv, LinesInv, Ended
    PROVE  LET load == Decision
               search == file.searches[file.current] IN
           /\ Decides(load, file.rule, run.outcome, NbLines, file.refresh, file.limits,
                      [start |-> search.start, end |-> search.end])
           /\ load.limits \in Limits /\ load.limits.end <= NbLines /\ load.limits.start <= load.limits.end
           /\ load.limits.start < load.limits.end \/ (load.limits = Whole(0) /\ NbLines = 0)
           /\ ~told.narrowed => load.limits = Whole(NbLines)
<1>1. PICK searched : searched = [start |-> file.searches[file.current].start,
                                  end |-> file.searches[file.current].end]
  OBVIOUS
<1>2. /\ file.rule \in Rules(Lines) /\ run.outcome \in LoadedOutcomes /\ NbLines \in Lines
      /\ file.refresh \in AutoRefresh /\ file.limits \in Limits /\ searched \in Limits
  BY <1>1 DEF TypeInv, FileMembers, SearchMembers, Limits, Ended
<1>3. PICK load : load = Decision
  OBVIOUS
<1>4. load = LoadFinished(file.rule, run.outcome, NbLines, file.refresh, file.limits, searched)
  BY <1>1, <1>3, Zenon DEF Decision
<1>5. Decides(load, file.rule, run.outcome, NbLines, file.refresh, file.limits, searched)
  BY <1>2, <1>4, LoadFacts
<1>6. PICK settled : settled = SettleSearchLimits(file.rule, file.limits, NbLines)
  OBVIOUS
<1>7. /\ settled \in Limits /\ settled.end <= NbLines
      /\ settled.start < settled.end \/ (settled = Whole(0) /\ NbLines = 0)
      /\ ~told.narrowed => settled = Whole(NbLines)
  BY <1>2, <1>6, SettleFacts DEF LinesInv
<1>8. settled.start <= settled.end
  BY <1>7, OpenLogFileAssumption DEF Whole, Limits, Lines
<1>9. load.limits = settled
  BY <1>5, <1>6, Zenon DEF Decides
<1> QED
  BY <1>1, <1>3, <1>5, <1>7, <1>8, <1>9

\* The Searches hear of the Log Lines that changed, and the rule's members and
\* the Search Limits are those after the load.
LEMMA SettledFacts ==
    ASSUME TypeInv, LinesInv, RunInv, WaitInv, SearchesInv, FieldInv, FollowInv, Ended
    PROVE  LET load == Decision
               n == Settled(file, load) IN
           /\ Loaded(n) /\ (n.opened <=> file.opened)
           /\ n.made = file.made /\ n.current = file.current /\ n.waiting = file.waiting
           /\ n.marks = file.marks /\ n.format = file.format /\ n.sampled = file.sampled
           /\ n.pattern = file.pattern /\ n.heldAfter = file.heldAfter /\ n.refresh = file.refresh
           /\ n.limits = load.limits /\ n.rule = load.rule /\ n.heldBefore = {}
           /\ \A s \in Searches :
                /\ n.searches[s].phase = file.searches[s].phase
                /\ n.searches[s].pattern = file.searches[s].pattern
                /\ file.searches[s] = Idle => n.searches[s] = Idle
           /\ ~told.borrowed => Own(n)
           /\ ~told.borrowed /\ ~told.early /\ ~told.apart /\ ~load.continues /\ ~load.restarts => Exact(n)
<1>1. PICK load : load = Decision
  OBVIOUS
<1>2. PICK n : n = Settled(file, load)
  OBVIOUS
<1>3. PICK first : first = IF queue.running = Partial /\ linesBefore > 0 THEN linesBefore - 1 ELSE 0
  OBVIOUS
<1>4. first \in Nat /\ (queue.running # Partial => first = 0)
  BY <1>3, OpenLogFileAssumption DEF TypeInv, Lines
<1>5. PICK h : h = [s \in Searches |-> LinesChanged(file.searches[s], first)]
  OBVIOUS
<1>6. n = [file EXCEPT !.searches = h, !.rule = load.rule, !.limits = load.limits, !.heldBefore = {}]
  BY <1>2, <1>3, <1>5, Zenon DEF Settled
<1>7. PICK searched : searched = [start |-> file.searches[file.current].start,
                                  end |-> file.searches[file.current].end]
  OBVIOUS
<1>8. /\ Decides(load, file.rule, run.outcome, NbLines, file.refresh, file.limits, searched)
      /\ load.limits \in Limits /\ load.limits.end <= NbLines /\ load.limits.start <= load.limits.end
  BY <1>1, <1>7, DecisionFacts
<1>9. load.rule \in Rules(Lines) /\ load.rule.loadFinishedOnce /\ ~load.rule.searchWaits
  BY <1>8 DEF Decides
<1>10. ASSUME NEW s \in Searches
       PROVE  /\ h[s] \in SearchMembers /\ Shaped(h[s])
              /\ h[s].phase = file.searches[s].phase /\ h[s].pattern = file.searches[s].pattern
              /\ h[s].reader = file.searches[s].reader /\ h[s].seen = file.searches[s].seen
              /\ h[s].start = file.searches[s].start /\ h[s].end = file.searches[s].end
              /\ file.searches[s] = Idle => h[s] = Idle
              /\ index.recorded => ReadFrom(h[s], index.lines)
  <2>1. file.searches[s] \in SearchMembers /\ Shaped(file.searches[s])
    BY DEF TypeInv, FileMembers, SearchesInv
  <2>2. h[s] = LinesChanged(file.searches[s], first)
    BY <1>5
  <2>3. index.recorded /\ queue.running = Partial => ReadFrom(file.searches[s], index.lines)
    <3>1. Partial \notin Fulls \cup {Attach(NoEncoding)}
      BY DEF Fulls, Partial, Automatic, Explicit, Attach
    <3> QED
      BY <3>1 DEF SearchesInv, Trusted
  <2> QED
    BY <1>4, <2>1, <2>2, <2>3, LinesChangedFacts
<1>11. h \in [Searches -> SearchMembers]
  BY <1>5, <1>10
<1>12. /\ n \in FileMembers /\ (n.opened <=> file.opened)
       /\ n.made = file.made /\ n.current = file.current /\ n.waiting = file.waiting
       /\ n.marks = file.marks /\ n.format = file.format /\ n.sampled = file.sampled
       /\ n.pattern = file.pattern /\ n.heldAfter = file.heldAfter /\ n.refresh = file.refresh
       /\ n.limits = load.limits /\ n.rule = load.rule /\ n.heldBefore = {} /\ n.searches = h
  <2>1. file \in FileMembers
    BY DEF TypeInv
  <2> QED
    BY ONLY <1>6, <1>8, <1>9, <1>11, <2>1 DEF FileMembers
<1>13. Loaded(n)
  BY <1>8, <1>9, <1>10, <1>12 DEF Loaded
<1>14. file.current \in Searches
  BY DEF TypeInv, FileMembers
<1>15. ASSUME ~told.borrowed PROVE Own(n)
  <2>1. h[n.current].phase # "Idle" => n.rule.searchRequested
    <3>1. SUFFICES ASSUME file.searches[file.current].phase # "Idle" PROVE load.rule.searchRequested
      BY <1>10, <1>12, <1>14
    <3>2. file.rule.searchRequested /\ ~file.rule.searchWaits
      BY <1>14, <1>15, <3>1 DEF FieldInv, WaitInv
    <3> QED
      BY <1>8, <3>2 DEF Decides
  <2> QED
    BY <1>10, <1>12, <1>14, <1>15, <2>1 DEF Own, FieldInv, FollowInv
<1>16. ASSUME ~told.borrowed, ~told.early, ~told.apart, ~load.continues, ~load.restarts
       PROVE  Exact(n)
  <2>1. SUFFICES ASSUME file.refresh.state = "Autorefreshing"
                 PROVE  LET search == h[n.current] IN
                        /\ search.start = n.limits.start /\ search.end = n.limits.end
                        /\ \A i \in 1..Len(search.seen) :
                              (i < Len(search.seen) \/ search.phase = "Complete") =>
                                  search.seen[i] = index.lines[search.start + i]
    BY <1>12 DEF Exact
  <2>2. PICK search : search = file.searches[file.current]
    OBVIOUS
  <2>3. searched = load.limits
    BY <1>8, <1>16, <2>1 DEF Decides, IsAutoRefreshAllowed, IsFileTruncated
  <2>4. search.start = load.limits.start /\ search.end = load.limits.end
    BY <1>7, <2>2, <2>3
  <2>5. ~ReadAgain
    BY <1>16, <2>1, <2>2 DEF FollowInv
  <2>6. queue.running = Partial
    <3>1. queue.running \in JobsHere \ {NoJob, Check}
      BY DEF TypeInv, RunInv, Ended, Delivered, LoadedOutcomes, CheckOutcomes
    <3> QED
      BY <2>5, <3>1 DEF ReadAgain, Fulls, JobsHere
  <2>7. \A i \in 1..Len(search.seen) :
           (i < Len(search.seen) \/ search.phase = "Complete") =>
               search.seen[i] = index.lines[search.start + i]
    <3>1. CASE run.outcome = "Successful"
      <4>1. Added
        BY <2>6, <3>1 DEF Added, Ended, Delivered
      <4> QED
        BY <1>16, <2>1, <2>2, <4>1 DEF FollowInv
    <3>2. CASE run.outcome # "Successful"
      <4>1. NbLines = 0
        BY <3>2 DEF RunInv, NoLines, Ended, Delivered, LoadedOutcomes, NbLines
      <4>2. Shaped(search) /\ search.seen \in Seq(Generations \cup {0})
        BY <1>14, <2>2 DEF SearchesInv, TypeInv, FileMembers, SearchMembers
      <4>3. load.limits.end \in Nat /\ load.limits.start \in Nat
        BY <1>8, OpenLogFileAssumption DEF Limits, Lines
      <4>4. Len(search.seen) = 0
        BY <1>8, <2>4, <4>1, <4>2, <4>3 DEF Shaped
      <4> QED
        BY <4>4
    <3> QED
      BY <3>1, <3>2
  <2> QED
    BY <1>10, <1>12, <1>14, <2>2, <2>4, <2>7
<1> QED
  BY <1>1, <1>2, <1>10, <1>12, <1>13, <1>15, <1>16

\* The Search followed goes on within the Search Limits, or starts again.
LEMMA RefreshSearchFacts ==
    ASSUME TypeInv, RunInv, NEW f, Loaded(f), NEW load,
           load.continues => f.refresh.state \in {"Static", "Autorefreshing"}
    PROVE  LET n == RefreshSearch(f, load) IN
           /\ Loaded(n) /\ Others(n, f) /\ RuleOthers(n.rule, f.rule)
           /\ n.pattern = f.pattern /\ n.heldBefore \subseteq f.heldBefore
           /\ \A s \in Searches : s # f.current =>
                n.searches[s] = f.searches[s] /\ n.heldAfter[s] = f.heldAfter[s]
           /\ Own(f) => Own(n)
           /\ load.continues \/ load.restarts \/ Exact(f) => Exact(n)
           /\ ~load.continues /\ ~load.restarts => n = f
<1>1. f \in FileMembers /\ f.current \in Searches /\ f.pattern \in Known /\ RuleOthers(f.rule, f.rule) /\ Others(f, f)
  BY DEF Loaded, FileMembers, RuleOthers, Others
<1>2. PICK n : n = RefreshSearch(f, load)
  OBVIOUS
<1>3. CASE load.restarts
  <2>1. n = RestartSearch(f)
    BY <1>2, <1>3 DEF RefreshSearch
  <2> QED
    BY <1>2, <1>3, <2>1, RestartLoaded
<1>4. CASE ~load.restarts /\ load.continues
  <2>1. PICK p : p = f.searches[f.current].pattern
    OBVIOUS
  <2>2. p \in Known
    BY <1>1, <2>1 DEF FileMembers, SearchMembers
  <2>3. PICK r : r = Request(f.searches[f.current], p, f.limits, f.format)
    OBVIOUS
  <2>4. n = RequestOn(f, f.current, p)
    BY <1>2, <1>4, <2>1 DEF RefreshSearch
  <2>5. /\ n \in FileMembers /\ Others(n, f) /\ n.rule = f.rule /\ n.refresh = f.refresh
        /\ n.pattern = f.pattern /\ n.heldBefore = f.heldBefore /\ n.heldAfter = f.heldAfter
        /\ \A t \in Searches : n.searches[t] = IF t = f.current THEN r ELSE f.searches[t]
    BY <1>1, <2>2, <2>3, <2>4, RequestOnFacts DEF Loaded, SearchesShaped
  <2>6. /\ r \in SearchMembers /\ Shaped(r) /\ r.phase \in {"Running", "InvalidPattern"}
        /\ r.pattern = p /\ r.start = f.limits.start /\ r.end = f.limits.end
        /\ r.reader = IF p \in FieldPatterns THEN f.format ELSE "None"
        /\ index.recorded => ReadFrom(r, index.lines)
        /\ \A i \in 1..(Len(r.seen) - 1) : r.seen[i] = index.lines[r.start + i]
    BY <1>1, <2>2, <2>3, RequestLoaded
  <2>7. n.current = f.current /\ n.limits = f.limits /\ n.format = f.format /\ n.searches[n.current] = r
    BY <1>1, <2>5 DEF Others
  <2>8. Loaded(n)
    BY <2>5, <2>6, <2>7 DEF Loaded
  <2>9. Own(f) => Own(n)
    BY <1>4, <2>1, <2>5, <2>6, <2>7 DEF Own
  <2>10. Exact(n)
    <3>1. Len(r.seen) \in Nat
      BY <2>6 DEF SearchMembers
    <3> QED
      BY <2>6, <2>7, <3>1 DEF Exact
  <2> QED
    BY <1>1, <1>2, <1>4, <2>5, <2>8, <2>9, <2>10
<1>5. CASE ~load.restarts /\ ~load.continues
  <2>1. n = f
    BY <1>2, <1>5 DEF RefreshSearch
  <2> QED
    BY <1>1, <1>2, <1>5, <2>1
<1> QED
  BY <1>3, <1>4, <1>5

\* Marks are not what a Search is about.
LEMMA ApplySavedMarksFacts ==
    ASSUME NEW f, Loaded(f), NEW load
    PROVE  LET n == ApplySavedMarks(f, load) IN
           /\ Loaded(n) /\ (n.opened <=> f.opened)
           /\ n.made = f.made /\ n.current = f.current /\ n.waiting = f.waiting /\ n.limits = f.limits
           /\ n.format = f.format /\ n.sampled = f.sampled /\ n.rule = f.rule
           /\ n.pattern = f.pattern /\ n.heldBefore = f.heldBefore /\ n.heldAfter = f.heldAfter
           /\ n.searches = f.searches /\ n.refresh = f.refresh
           /\ \A s \in Searches : f.marks[s] => n.marks[s]
           /\ load.appliesMarks /\ NbLines > 0 => n.marks[f.current]
           /\ Own(f) => Own(n)
           /\ Exact(f) => Exact(n)
<1>1. f \in FileMembers /\ f.current \in Searches
  BY DEF Loaded, FileMembers
<1>2. PICK m : m = (f.marks[f.current] \/ (load.appliesMarks /\ NbLines > 0))
  OBVIOUS
<1>3. m \in BOOLEAN /\ (f.marks[f.current] => m) /\ (load.appliesMarks /\ NbLines > 0 => m)
  BY <1>1, <1>2, Zenon DEF FileMembers
<1>4. PICK h : h = [f.marks EXCEPT ![f.current] = m]
  OBVIOUS
<1>5. h \in [Searches -> BOOLEAN] /\ \A s \in Searches : f.marks[s] => h[s]
  BY <1>1, <1>3, <1>4 DEF FileMembers
<1>6. h[f.current] = m
  BY <1>1, <1>4 DEF FileMembers
<1>7. PICK n : n = ApplySavedMarks(f, load)
  OBVIOUS
<1>8. n = [f EXCEPT !.marks[f.current] = m]
  BY <1>2, <1>7, Zenon DEF ApplySavedMarks
<1>9. n = [f EXCEPT !.marks = h]
  BY <1>1, <1>4, <1>8 DEF FileMembers
<1>10. /\ n \in FileMembers /\ (n.opened <=> f.opened)
       /\ n.made = f.made /\ n.current = f.current /\ n.waiting = f.waiting /\ n.limits = f.limits
       /\ n.format = f.format /\ n.sampled = f.sampled /\ n.rule = f.rule
       /\ n.pattern = f.pattern /\ n.heldBefore = f.heldBefore /\ n.heldAfter = f.heldAfter
       /\ n.searches = f.searches /\ n.refresh = f.refresh /\ n.marks = h
  BY ONLY <1>1, <1>5, <1>9 DEF FileMembers
<1>11. Loaded(n) /\ (Own(f) => Own(n)) /\ (Exact(f) => Exact(n))
  BY <1>10 DEF Loaded, Own, Exact
<1> QED
  BY <1>3, <1>5, <1>6, <1>7, <1>10, <1>11

\* Only the Searches that wait, and what they are held with, are another's.
OnlyCurrent(n, f) ==
    /\ RuleOthers(n.rule, f.rule) /\ n.pattern = f.pattern /\ n.heldBefore \subseteq f.heldBefore
    /\ \A s \in Searches : s # f.current =>
          n.searches[s] = f.searches[s] /\ n.heldAfter[s] = f.heldAfter[s]

\* The current Search that waited is requested, or held on.
LEMMA RunWaitingFacts ==
    ASSUME TypeInv, RunInv, NEW f, Loaded(f), NEW held
    PROVE  LET n == RunWaiting(f, held) IN
           /\ Loaded(n) /\ Others(n, f) /\ OnlyCurrent(n, f)
           /\ f.current \in held =>
                /\ n.heldAfter[f.current] = f.pattern
                /\ n.searches = f.searches /\ n.rule = f.rule /\ n.refresh = f.refresh
           /\ f.current \notin held =>
                /\ n.heldAfter[f.current] = NoPattern
                /\ n.searches[f.current].phase \in {"Running", "InvalidPattern"}
                /\ n.searches[f.current].pattern = f.pattern
           /\ Own(f) \/ f.current \notin held => Own(n)
           /\ Exact(f) \/ f.current \notin held => Exact(n)
<1>1. f \in FileMembers /\ f.current \in Searches /\ f.pattern \in Known
  BY DEF Loaded, FileMembers
<1>2. PICK n : n = RunWaiting(f, held)
  OBVIOUS
<1>3. CASE f.current \in held
  <2>1. PICK h : h = [f.heldAfter EXCEPT ![f.current] = f.pattern]
    OBVIOUS
  <2>2. /\ h \in [Searches -> Known] /\ h[f.current] = f.pattern
        /\ \A s \in Searches : s # f.current => h[s] = f.heldAfter[s]
    BY <1>1, <2>1 DEF FileMembers
  <2>3. n = [f EXCEPT !.heldAfter = h]
    BY <1>1, <1>2, <1>3, <2>1 DEF RunWaiting, FileMembers
  <2>4. /\ n \in FileMembers /\ Others(n, f) /\ n.rule = f.rule /\ n.pattern = f.pattern
        /\ n.heldBefore = f.heldBefore /\ n.heldAfter = h /\ n.searches = f.searches
        /\ n.refresh = f.refresh
    BY ONLY <1>1, <2>2, <2>3 DEF FileMembers, Others
  <2>5. n.limits = f.limits /\ n.current = f.current /\ n.format = f.format
    BY <2>4 DEF Others
  <2>6. Loaded(n) /\ (Own(f) => Own(n)) /\ (Exact(f) => Exact(n))
    BY <2>4, <2>5 DEF Loaded, Own, Exact
  <2>7. OnlyCurrent(n, f)
    BY <2>2, <2>4 DEF OnlyCurrent, RuleOthers
  <2> QED
    BY <1>2, <1>3, <2>2, <2>4, <2>6, <2>7
<1>4. CASE f.current \notin held
  <2>1. n = RequestSearch(f, f.pattern)
    BY <1>2, <1>4 DEF RunWaiting
  <2>2. /\ Loaded(n) /\ Own(n) /\ Exact(n)
        /\ n.searches[n.current].phase \in {"Running", "InvalidPattern"}
        /\ n.searches[n.current].pattern = f.pattern
    BY <1>1, <2>1, RequestSearchLoaded
  <2>3. /\ Others(n, f) /\ RuleOthers(n.rule, f.rule) /\ n.pattern = f.pattern
        /\ n.heldBefore = f.heldBefore \ {f.current}
        /\ \A s \in Searches : n.heldAfter[s] = IF s = f.current THEN NoPattern ELSE f.heldAfter[s]
        /\ \A s \in Searches : s # f.current => n.searches[s] = f.searches[s]
    <3>1. SearchesShaped(f) /\ f.limits.start <= f.limits.end /\ f.rule.loadFinishedOnce
      BY DEF Loaded, SearchesShaped
    <3> QED
      BY <1>1, <2>1, <3>1, RequestSearchFacts
  <2>4. n.current = f.current
    BY <2>3 DEF Others
  <2>5. OnlyCurrent(n, f)
    BY <2>3 DEF OnlyCurrent
  <2> QED
    BY <1>1, <1>2, <1>4, <2>2, <2>3, <2>4, <2>5
<1> QED
  BY <1>3, <1>4

\* So is each kept one.
LEMMA RunWaitingKeptFacts ==
    ASSUME TypeInv, RunInv, NEW f, Loaded(f), NEW held, f.waiting[f.current] = NoPattern
    PROVE  LET n == RunWaitingKept(f, held) IN
           /\ Loaded(n) /\ Others(n, f) /\ n.rule = f.rule /\ n.pattern = f.pattern
           /\ n.heldBefore = f.heldBefore /\ n.refresh = f.refresh
           /\ \A s \in Searches :
                /\ f.waiting[s] = NoPattern =>
                     n.searches[s] = f.searches[s] /\ n.heldAfter[s] = f.heldAfter[s]
                /\ f.waiting[s] # NoPattern /\ s \in held =>
                     n.searches[s] = f.searches[s] /\ n.heldAfter[s] = f.waiting[s]
                /\ f.waiting[s] # NoPattern /\ s \notin held =>
                     /\ n.heldAfter[s] = f.heldAfter[s]
                     /\ n.searches[s].phase \in {"Running", "InvalidPattern"}
                     /\ n.searches[s].pattern = f.waiting[s]
           /\ Own(f) => Own(n)
           /\ Exact(f) => Exact(n)
<1>1. /\ f \in FileMembers /\ f.current \in Searches
      /\ \A s \in Searches : f.waiting[s] \in Known /\ f.heldAfter[s] \in Known /\ f.searches[s] \in SearchMembers
  BY DEF Loaded, FileMembers
<1>2. PICK h : h = [s \in Searches |-> IF f.waiting[s] # NoPattern /\ s \in held THEN f.waiting[s]
                                       ELSE f.heldAfter[s]]
  OBVIOUS
<1>3. PICK q : q = [s \in Searches |-> IF f.waiting[s] # NoPattern /\ s \notin held
                                       THEN Request(f.searches[s], f.waiting[s], f.limits, f.format)
                                       ELSE f.searches[s]]
  OBVIOUS
<1>4. PICK n : n = RunWaitingKept(f, held)
  OBVIOUS
<1>5. n = [f EXCEPT !.heldAfter = h, !.searches = q]
  BY <1>2, <1>3, <1>4, Zenon DEF RunWaitingKept
<1>6. ASSUME NEW s \in Searches
      PROVE  LET r == Request(f.searches[s], f.waiting[s], f.limits, f.format) IN
             /\ r \in SearchMembers /\ Shaped(r) /\ r.phase \in {"Running", "InvalidPattern"}
             /\ r.pattern = f.waiting[s]
             /\ index.recorded => ReadFrom(r, index.lines)
  BY <1>1, RequestLoaded
<1>7. h \in [Searches -> Known] /\ q \in [Searches -> SearchMembers]
  BY <1>1, <1>2, <1>3, <1>6
<1>8. /\ n \in FileMembers /\ Others(n, f) /\ n.rule = f.rule /\ n.pattern = f.pattern
      /\ n.heldBefore = f.heldBefore /\ n.heldAfter = h /\ n.searches = q /\ n.refresh = f.refresh
  BY ONLY <1>1, <1>5, <1>7 DEF FileMembers, Others
<1>9. n.limits = f.limits /\ n.current = f.current /\ n.format = f.format
  BY <1>8 DEF Others
<1>10. ASSUME NEW s \in Searches
       PROVE  /\ f.waiting[s] = NoPattern => q[s] = f.searches[s] /\ h[s] = f.heldAfter[s]
              /\ f.waiting[s] # NoPattern /\ s \in held => q[s] = f.searches[s] /\ h[s] = f.waiting[s]
              /\ f.waiting[s] # NoPattern /\ s \notin held =>
                   /\ h[s] = f.heldAfter[s] /\ q[s].phase \in {"Running", "InvalidPattern"}
                   /\ q[s].pattern = f.waiting[s]
              /\ Shaped(q[s]) /\ (index.recorded => ReadFrom(q[s], index.lines))
  BY <1>2, <1>3, <1>6 DEF Loaded
<1>11. Loaded(n)
  BY <1>8, <1>9, <1>10 DEF Loaded
<1>12. q[f.current] = f.searches[f.current]
  BY <1>1, <1>10
<1>13. (Own(f) => Own(n)) /\ (Exact(f) => Exact(n))
  BY <1>8, <1>9, <1>12 DEF Own, Exact
<1> QED
  BY <1>4, <1>8, <1>10, <1>11, <1>13

\* The Log Format is taken from the Log Lines there are, and the current Search
\* requested again under it where that matters.
LEMMA RecognizeFormatFacts ==
    ASSUME TypeInv, RunInv, NEW f, Loaded(f), NbLines > 0, NEW found \in BOOLEAN, NEW held,
           f.current \in held => f.searches[f.current].phase = "Idle"
    PROVE  LET n == RecognizeFormat(f, found, held)
               was == f.searches[f.current].phase IN
           /\ Loaded(n) /\ (n.opened <=> f.opened)
           /\ n.made = f.made /\ n.current = f.current /\ n.waiting = f.waiting /\ n.limits = f.limits
           /\ n.marks = f.marks /\ n.pattern = f.pattern /\ n.heldBefore \subseteq f.heldBefore
           /\ n.sampled = [gen |-> index.lines[1], lines |-> NbLines]
           /\ n.format = IF found THEN "Recognized" ELSE "None"
           /\ n.rule.recognizedFrom = NbLines
           /\ n.rule.formatPending <=> f.rule.formatPending /\ ~found /\ NbLines < SampleDepth
           /\ n.rule.firstLoadDone <=> f.rule.firstLoadDone
           /\ n.rule.grew <=> f.rule.grew
           /\ n.rule.truncated <=> f.rule.truncated
           /\ n.rule.savedMarks <=> f.rule.savedMarks
           /\ n.rule.loadedLines = f.rule.loadedLines /\ n.rule.watching = f.rule.watching
           /\ \A s \in Searches : s # f.current =>
                n.searches[s] = f.searches[s] /\ n.heldAfter[s] = f.heldAfter[s]
           /\ \/ /\ n.searches = f.searches /\ n.heldAfter = f.heldAfter /\ n.refresh = f.refresh
                 /\ n.rule.searchRequested <=> f.rule.searchRequested
              \/ /\ was # "Idle" /\ n.heldAfter[f.current] = NoPattern
                 /\ n.searches[f.current].phase \in {"Running", "InvalidPattern"}
                 /\ n.searches[f.current].pattern = f.pattern
           /\ Own(f) => Own(n)
           /\ Exact(f) => Exact(n)
<1>1. f \in FileMembers /\ f.current \in Searches /\ f.pattern \in Known /\ f.rule \in Rules(Lines)
  BY DEF Loaded, FileMembers
<1>2. /\ index.lines[1] \in Generations /\ NbLines \in Lines /\ NbLines \in Nat
      /\ index.lines[1] \in Nat
  BY OpenLogFileAssumption DEF TypeInv, NbLines, Lines, Generations
<1>3. PICK m : m = IF found THEN "Recognized" ELSE "None"
  OBVIOUS
<1>4. PICK s : s = [gen |-> index.lines[1], lines |-> NbLines]
  OBVIOUS
<1>5. PICK p : p = (f.rule.formatPending /\ ~found /\ NbLines < SampleDepth)
  OBVIOUS
<1>6. p \in BOOLEAN
  BY <1>1, <1>5, Zenon DEF Rules
<1>7. PICK r : r = FormatRecognitionTaken(f.rule, found, NbLines)
  OBVIOUS
<1>8. r = [f.rule EXCEPT !.recognizedFrom = NbLines, !.formatPending = p]
  BY <1>5, <1>7, Zenon DEF FormatRecognitionTaken
<1>9. /\ r \in Rules(Lines) /\ r.recognizedFrom = NbLines /\ r.formatPending = p
      /\ r.searchRequested = f.rule.searchRequested /\ r.searchWaits = f.rule.searchWaits
      /\ r.loadFinishedOnce = f.rule.loadFinishedOnce /\ r.firstLoadDone = f.rule.firstLoadDone
      /\ r.grew = f.rule.grew /\ r.truncated = f.rule.truncated /\ r.savedMarks = f.rule.savedMarks
      /\ r.loadedLines = f.rule.loadedLines /\ r.watching = f.rule.watching
  BY ONLY <1>1, <1>2, <1>6, <1>8 DEF Rules
<1>10. PICK g : g = [f EXCEPT !.format = m, !.sampled = s, !.rule = r]
  OBVIOUS
<1>11. m \in FormatNames /\ s \in [gen : Nat, lines : Nat]
  BY <1>2, <1>3, <1>4 DEF FormatNames
<1>12. /\ g \in FileMembers /\ g.format = m /\ g.sampled = s /\ g.rule = r /\ g.opened = f.opened
       /\ g.searches = f.searches /\ g.refresh = f.refresh /\ g.made = f.made /\ g.current = f.current
       /\ g.pattern = f.pattern /\ g.waiting = f.waiting /\ g.heldBefore = f.heldBefore
       /\ g.heldAfter = f.heldAfter /\ g.limits = f.limits /\ g.marks = f.marks
  BY ONLY <1>1, <1>9, <1>10, <1>11 DEF FileMembers
<1>13. Loaded(g)
  BY <1>9, <1>12 DEF Loaded
<1>14. PICK n : n = RecognizeFormat(f, found, held)
  OBVIOUS
<1>15. n = IF g.format # f.format /\ f.pattern \in FieldPatterns /\ f.current \notin held
              /\ f.searches[f.current].phase # "Idle"
           THEN RequestSearch(g, f.pattern) ELSE g
  <2>1. g = [f EXCEPT !.format = IF found THEN "Recognized" ELSE "None",
                      !.sampled = [gen |-> index.lines[1], lines |-> NbLines],
                      !.rule = FormatRecognitionTaken(@, found, NbLines)]
    BY <1>1, <1>3, <1>4, <1>7, <1>10 DEF FileMembers
  <2> QED
    BY <1>14, <2>1, Zenon DEF RecognizeFormat
<1>16. CASE n = g /\ ~(g.format # f.format /\ f.pattern \in FieldPatterns /\ f.current \notin held
                       /\ f.searches[f.current].phase # "Idle")
  <2>1. Own(f) => Own(g)
    BY <1>9, <1>12, <1>16 DEF Own
  <2>2. Exact(f) => Exact(g)
    BY <1>12 DEF Exact
  <2> QED
    BY <1>3, <1>4, <1>5, <1>9, <1>12, <1>13, <1>14, <1>16, <2>1, <2>2
<1>17. CASE n = RequestSearch(g, f.pattern) /\ f.searches[f.current].phase # "Idle"
  <2>1. /\ Loaded(n) /\ Own(n) /\ Exact(n)
        /\ n.searches[n.current].phase \in {"Running", "InvalidPattern"}
        /\ n.searches[n.current].pattern = f.pattern
    BY <1>1, <1>13, <1>17, RequestSearchLoaded
  <2>2. /\ Others(n, g) /\ RuleOthers(n.rule, g.rule) /\ n.pattern = f.pattern
        /\ n.heldBefore = g.heldBefore \ {g.current}
        /\ \A t \in Searches : n.heldAfter[t] = IF t = g.current THEN NoPattern ELSE g.heldAfter[t]
        /\ \A t \in Searches : t # g.current => n.searches[t] = g.searches[t]
    <3>1. /\ SearchesShaped(g) /\ g.limits.start <= g.limits.end /\ g.rule.loadFinishedOnce
          /\ g \in FileMembers
      BY <1>13 DEF Loaded, SearchesShaped
    <3> QED
      BY <1>1, <1>17, <3>1, RequestSearchFacts
  <2>3. /\ n.opened <=> f.opened
        /\ n.made = f.made /\ n.current = f.current /\ n.waiting = f.waiting /\ n.limits = f.limits
        /\ n.marks = f.marks /\ n.heldBefore \subseteq f.heldBefore
        /\ n.sampled = s /\ n.format = m
    BY <1>12, <2>2 DEF Others
  <2>4. /\ n.rule.recognizedFrom = NbLines
        /\ n.rule.formatPending <=> p
        /\ n.rule.firstLoadDone <=> f.rule.firstLoadDone
        /\ n.rule.grew <=> f.rule.grew
        /\ n.rule.truncated <=> f.rule.truncated
        /\ n.rule.savedMarks <=> f.rule.savedMarks
        /\ n.rule.loadedLines = f.rule.loadedLines /\ n.rule.watching = f.rule.watching
    BY <1>9, <1>12, <2>2 DEF RuleOthers
  <2>5. n.rule.formatPending <=> f.rule.formatPending /\ ~found /\ NbLines < SampleDepth
    BY <1>5, <2>4, Zenon
  <2> QED
    BY <1>1, <1>3, <1>4, <1>12, <1>14, <1>17, <2>1, <2>2, <2>3, <2>4, <2>5
<1> QED
  BY <1>15, <1>16, <1>17, Zenon

\* A Search that was asked for is requested by now, or held on with it.
Answered(n, s) ==
    \/ /\ n.searches[s].phase = "Idle" /\ n.heldAfter[s] = asked[s]
       /\ s = n.current => ~IsAutoRefreshAllowed(n.refresh)
    \/ /\ n.searches[s].phase # "Idle" /\ n.searches[s].pattern = asked[s]
       /\ n.heldAfter[s] = NoPattern /\ run.outcome = "Successful"

\* The members when the Searches that waited have been run.
LEMMA KeptFacts ==
    ASSUME TypeInv, RunInv, LinesInv, WaitInv, SearchesInv, FieldInv, FollowInv, Ended,
           NEW load, load = Decision, NEW n,
           n = RunWaitingSearches(ApplySavedMarks(RefreshSearch(Settled(file, load), load), load),
                                  load, file.heldBefore)
    PROVE  /\ Loaded(n) /\ (n.opened <=> file.opened)
           /\ n.made = file.made /\ n.current = file.current /\ n.limits = load.limits
           /\ n.format = file.format /\ n.sampled = file.sampled /\ n.pattern = file.pattern
           /\ n.heldBefore = {} /\ (\A s \in Searches : n.waiting[s] = NoPattern)
           /\ RuleOthers(n.rule, load.rule)
           /\ \A s \in Searches : file.marks[s] => n.marks[s]
           /\ load.appliesMarks /\ NbLines > 0 => n.marks[n.current]
           /\ ~told.borrowed => Own(n)
           /\ /\ ~told.borrowed
              /\ \/ load.continues \/ load.restarts \/ load.runsWaitingSearch
                 \/ (~told.early /\ ~told.apart)
              => Exact(n)
           /\ n.searches[n.current].phase # "Idle" =>
                \/ file.searches[n.current].phase # "Idle"
                \/ load.continues \/ load.restarts \/ load.runsWaitingSearch
           /\ n.current \in file.heldBefore => n.searches[n.current].phase = "Idle"
           /\ \A s \in Searches \ file.made : n.searches[s] = Idle /\ n.heldAfter[s] = NoPattern
           /\ \A s \in Searches :
                /\ asked[s] # NoPattern /\ (s = n.current => ~told.borrowed)
                /\ run.outcome = "Successful" \/ file.heldAfter[s] # NoPattern
                => Answered(n, s)
<1> DEFINE held == file.heldBefore
<1>1. PICK a : a = Settled(file, load)
  OBVIOUS
<1>2. PICK b : b = RefreshSearch(a, load)
  OBVIOUS
<1>3. PICK c : c = ApplySavedMarks(b, load)
  OBVIOUS
<1>4. PICK d : d = IF load.runsWaitingSearch THEN RunWaiting(c, held) ELSE c
  OBVIOUS
<1>5. PICK e : e = IF run.outcome = "Successful" THEN RunWaitingKept(d, held) ELSE d
  OBVIOUS
<1>6. n = [e EXCEPT !.waiting = [s \in Searches |-> NoPattern]]
  BY <1>1, <1>2, <1>3, <1>4, <1>5, Zenon DEF RunWaitingSearches
<1>7. PICK searched : searched = [start |-> file.searches[file.current].start,
                                  end |-> file.searches[file.current].end]
  OBVIOUS
<1>8. Decides(load, file.rule, run.outcome, NbLines, file.refresh, file.limits, searched)
  BY <1>7, DecisionFacts
<1>9. /\ load.continues => IsAutoRefreshAllowed(file.refresh) /\ ~IsFileTruncated(file.refresh)
      /\ load.restarts => IsAutoRefreshAllowed(file.refresh)
      /\ load.runsWaitingSearch <=> file.rule.searchWaits /\ run.outcome = "Successful"
  BY <1>8 DEF Decides
<1>10. file.current \in Searches /\ file \in FileMembers
  BY DEF TypeInv, FileMembers
<1>11. /\ Loaded(a) /\ (a.opened <=> file.opened)
       /\ a.made = file.made /\ a.current = file.current /\ a.waiting = file.waiting
       /\ a.marks = file.marks /\ a.format = file.format /\ a.sampled = file.sampled
       /\ a.pattern = file.pattern /\ a.heldAfter = file.heldAfter /\ a.refresh = file.refresh
       /\ a.limits = load.limits /\ a.rule = load.rule /\ a.heldBefore = {}
       /\ \A s \in Searches :
            /\ a.searches[s].phase = file.searches[s].phase
            /\ a.searches[s].pattern = file.searches[s].pattern
            /\ file.searches[s] = Idle => a.searches[s] = Idle
       /\ ~told.borrowed => Own(a)
       /\ ~told.borrowed /\ ~told.early /\ ~told.apart /\ ~load.continues /\ ~load.restarts => Exact(a)
  BY <1>1, SettledFacts
<1>12. load.continues => a.refresh.state \in {"Static", "Autorefreshing"}
  BY <1>9, <1>11 DEF IsAutoRefreshAllowed, IsFileTruncated
<1>13. /\ Loaded(b) /\ Others(b, a) /\ RuleOthers(b.rule, a.rule)
       /\ b.pattern = a.pattern /\ b.heldBefore \subseteq a.heldBefore
       /\ \A s \in Searches : s # a.current =>
            b.searches[s] = a.searches[s] /\ b.heldAfter[s] = a.heldAfter[s]
       /\ Own(a) => Own(b)
       /\ load.continues \/ load.restarts \/ Exact(a) => Exact(b)
       /\ ~load.continues /\ ~load.restarts => b = a
  BY <1>2, <1>11, <1>12, RefreshSearchFacts
<1>14. /\ Loaded(c) /\ (c.opened <=> b.opened)
       /\ c.made = b.made /\ c.current = b.current /\ c.waiting = b.waiting /\ c.limits = b.limits
       /\ c.format = b.format /\ c.sampled = b.sampled /\ c.rule = b.rule
       /\ c.pattern = b.pattern /\ c.heldBefore = b.heldBefore /\ c.heldAfter = b.heldAfter
       /\ c.searches = b.searches /\ c.refresh = b.refresh
       /\ \A s \in Searches : b.marks[s] => c.marks[s]
       /\ load.appliesMarks /\ NbLines > 0 => c.marks[b.current]
       /\ Own(b) => Own(c)
       /\ Exact(b) => Exact(c)
  <2>1. Loaded(b)
    BY <1>13
  <2> QED
    BY ONLY <1>3, <2>1, ApplySavedMarksFacts, Zenon
<1>15. /\ c.current = file.current /\ c.waiting = file.waiting /\ c.made = file.made
       /\ c.limits = load.limits /\ c.format = file.format /\ c.sampled = file.sampled
       /\ c.pattern = file.pattern /\ c.heldBefore = {} /\ (c.opened <=> file.opened)
       /\ RuleOthers(c.rule, load.rule)
       /\ \A s \in Searches : file.marks[s] => c.marks[s]
       /\ load.appliesMarks /\ NbLines > 0 => c.marks[file.current]
       /\ \A s \in Searches : s # file.current =>
            c.searches[s] = a.searches[s] /\ c.heldAfter[s] = file.heldAfter[s]
       /\ ~load.continues /\ ~load.restarts =>
            c.searches = a.searches /\ c.heldAfter = file.heldAfter /\ c.refresh = file.refresh
  BY <1>11, <1>13, <1>14 DEF Others, RuleOthers
<1>16. /\ load.runsWaitingSearch =>
            /\ Loaded(d) /\ Others(d, c) /\ OnlyCurrent(d, c)
            /\ c.current \in held =>
                 /\ d.heldAfter[c.current] = c.pattern
                 /\ d.searches = c.searches /\ d.rule = c.rule /\ d.refresh = c.refresh
            /\ c.current \notin held =>
                 /\ d.heldAfter[c.current] = NoPattern
                 /\ d.searches[c.current].phase \in {"Running", "InvalidPattern"}
                 /\ d.searches[c.current].pattern = c.pattern
            /\ Own(c) \/ c.current \notin held => Own(d)
            /\ Exact(c) \/ c.current \notin held => Exact(d)
       /\ ~load.runsWaitingSearch => d = c
  BY <1>4, <1>14, RunWaitingFacts
<1>17. /\ Loaded(d) /\ Others(d, c) /\ OnlyCurrent(d, c)
       /\ (Own(c) => Own(d)) /\ (Exact(c) => Exact(d))
  <2>1. Others(c, c) /\ OnlyCurrent(c, c)
    BY DEF Others, OnlyCurrent, RuleOthers
  <2>2. Loaded(c)
    BY <1>14
  <2> QED
    BY ONLY <1>16, <2>1, <2>2
<1>18. d.waiting[d.current] = NoPattern
  BY <1>10, <1>15, <1>17 DEF Others, WaitInv
<1> HIDE DEF held
<1>19. run.outcome = "Successful" =>
           /\ Loaded(e) /\ Others(e, d) /\ e.rule = d.rule /\ e.pattern = d.pattern
           /\ e.heldBefore = d.heldBefore /\ e.refresh = d.refresh
           /\ \A s \in Searches :
                /\ d.waiting[s] = NoPattern =>
                     e.searches[s] = d.searches[s] /\ e.heldAfter[s] = d.heldAfter[s]
                /\ d.waiting[s] # NoPattern /\ s \in held =>
                     e.searches[s] = d.searches[s] /\ e.heldAfter[s] = d.waiting[s]
                /\ d.waiting[s] # NoPattern /\ s \notin held =>
                     /\ e.heldAfter[s] = d.heldAfter[s]
                     /\ e.searches[s].phase \in {"Running", "InvalidPattern"}
                     /\ e.searches[s].pattern = d.waiting[s]
           /\ Own(d) => Own(e)
           /\ Exact(d) => Exact(e)
  BY <1>5, <1>17, <1>18, RunWaitingKeptFacts
<1>20. run.outcome # "Successful" => e = d
  BY <1>5
<1>21. /\ Loaded(e) /\ Others(e, d) /\ e.rule = d.rule /\ e.pattern = d.pattern
       /\ e.heldBefore = d.heldBefore /\ e.refresh = d.refresh
       /\ \A s \in Searches : d.waiting[s] = NoPattern =>
            e.searches[s] = d.searches[s] /\ e.heldAfter[s] = d.heldAfter[s]
       /\ (Own(d) => Own(e)) /\ (Exact(d) => Exact(e))
  BY <1>17, <1>19, <1>20 DEF Others
<1>22. PICK w : w = [s \in Searches |-> NoPattern]
  OBVIOUS
<1>23. w \in [Searches -> Known]
  BY <1>22 DEF Known
<1>24. /\ n \in FileMembers /\ n.opened = e.opened /\ n.rule = e.rule /\ n.refresh = e.refresh
       /\ n.searches = e.searches /\ n.made = e.made /\ n.current = e.current /\ n.pattern = e.pattern
       /\ n.waiting = w /\ n.heldBefore = e.heldBefore /\ n.heldAfter = e.heldAfter
       /\ n.limits = e.limits /\ n.marks = e.marks /\ n.format = e.format /\ n.sampled = e.sampled
  <2>1. e \in FileMembers
    BY <1>21 DEF Loaded
  <2> QED
    BY ONLY <1>6, <1>22, <1>23, <2>1 DEF FileMembers
<1>25. Loaded(n) /\ (Own(e) => Own(n)) /\ (Exact(e) => Exact(n))
  BY <1>21, <1>24 DEF Loaded, Own, Exact
<1>26. /\ n.opened <=> file.opened
       /\ n.made = file.made /\ n.current = file.current /\ n.limits = load.limits
       /\ n.format = file.format /\ n.sampled = file.sampled /\ n.pattern = file.pattern
       /\ n.heldBefore = {} /\ d.waiting = file.waiting /\ d.current = file.current
       /\ \A s \in Searches : file.marks[s] => n.marks[s]
       /\ load.appliesMarks /\ NbLines > 0 => n.marks[n.current]
  BY <1>15, <1>17, <1>21, <1>24 DEF Others, OnlyCurrent
<1>27. RuleOthers(n.rule, load.rule) /\ \A s \in Searches : n.waiting[s] = NoPattern
  BY <1>15, <1>17, <1>21, <1>22, <1>24 DEF RuleOthers, OnlyCurrent
<1>28. ~told.borrowed => Own(n)
  BY <1>11, <1>13, <1>14, <1>17, <1>21, <1>25
<1>29. \/ file.rule.loadFinishedOnce /\ held = {} /\ ~load.runsWaitingSearch
          /\ \A s \in Searches : file.waiting[s] = NoPattern
       \/ ~file.rule.loadFinishedOnce /\ file.refresh.state = "NoSearch"
          /\ ~load.continues /\ ~load.restarts
          /\ \A s \in Searches : file.searches[s].phase = "Idle" /\ file.heldAfter[s] = NoPattern
  BY <1>9 DEF WaitInv, held, IsAutoRefreshAllowed
<1>30. ASSUME ~told.borrowed,
              \/ load.continues \/ load.restarts \/ load.runsWaitingSearch
              \/ (~told.early /\ ~told.apart)
       PROVE  Exact(n)
  <2>1. Exact(d)
    <3>1. CASE load.continues \/ load.restarts
      BY <1>13, <1>14, <1>17, <3>1
    <3>2. CASE load.runsWaitingSearch
      <4>1. file.refresh.state = "NoSearch" /\ ~load.continues /\ ~load.restarts
        BY <1>29, <3>2
      <4>2. Exact(c)
        BY <1>15, <4>1 DEF Exact
      <4> QED
        BY <1>17, <4>2
    <3>3. CASE ~load.continues /\ ~load.restarts /\ ~told.early /\ ~told.apart
      BY <1>11, <1>13, <1>14, <1>17, <1>30, <3>3
    <3> QED
      BY <1>30, <3>1, <3>2, <3>3
  <2> QED
    BY <1>21, <1>25, <2>1
<1>31. e.searches[file.current] = d.searches[file.current] /\ e.heldAfter[file.current] = d.heldAfter[file.current]
  BY <1>10, <1>18, <1>21, <1>26
<1>32. n.searches[n.current].phase # "Idle" =>
           \/ file.searches[n.current].phase # "Idle"
           \/ load.continues \/ load.restarts \/ load.runsWaitingSearch
  BY <1>10, <1>11, <1>15, <1>16, <1>24, <1>26, <1>31
<1>33. n.current \in held => n.searches[n.current].phase = "Idle"
  <2>1. SUFFICES ASSUME file.current \in held PROVE d.searches[file.current].phase = "Idle"
    BY <1>24, <1>26, <1>31
  <2>2. file.searches[file.current].phase = "Idle" /\ ~load.continues /\ ~load.restarts
    BY <1>10, <1>29, <2>1
  <2>3. c.searches = a.searches /\ c.current = file.current
    BY <1>15, <2>2
  <2>4. a.searches[file.current].phase = "Idle"
    BY <1>10, <1>11, <2>2
  <2>5. d.searches = c.searches
    BY <1>16, <2>1, <2>3
  <2> QED
    BY <2>3, <2>4, <2>5
<1>34. ASSUME NEW s \in Searches, s # file.current
       PROVE  d.searches[s] = a.searches[s] /\ d.heldAfter[s] = file.heldAfter[s]
  BY <1>15, <1>17, <1>34 DEF OnlyCurrent
<1>35. ASSUME NEW s \in Searches \ file.made
       PROVE  n.searches[s] = Idle /\ n.heldAfter[s] = NoPattern
  <2>1. s # file.current /\ file.waiting[s] = NoPattern /\ file.searches[s] = Idle /\ file.heldAfter[s] = NoPattern
    BY DEF TypeInv, WaitInv
  <2> QED
    BY <1>11, <1>21, <1>24, <1>26, <1>34, <2>1
<1>36. ASSUME NEW s \in Searches, asked[s] # NoPattern, s = n.current => ~told.borrowed,
              run.outcome = "Successful" \/ file.heldAfter[s] # NoPattern
       PROVE  Answered(n, s)
  <2>1. file.searches[s].phase = "Idle" /\ WaitsWith(file, s) = asked[s]
    BY <1>36 DEF WaitInv, AskedIsKept
  <2>2. n.searches[s] = e.searches[s] /\ n.heldAfter[s] = e.heldAfter[s]
    BY <1>24
  <2>3. a.searches[s].phase = "Idle"
    BY <1>11, <2>1
  <2>4. s = file.current => file.pattern = asked[s] /\ ~IsAutoRefreshAllowed(file.refresh)
                            /\ ~load.continues /\ ~load.restarts
    BY <1>9, <1>26, <1>36 DEF WaitInv
  <2>5. CASE s = file.current /\ file.rule.searchWaits
    <3>1. load.runsWaitingSearch
      <4>1. ~file.rule.loadFinishedOnce
        BY <2>5 DEF WaitInv
      <4>2. file.heldAfter[s] = NoPattern
        BY <1>29, <4>1
      <4> QED
        BY <1>9, <1>36, <2>5, <4>2
    <3>2. /\ c.refresh = file.refresh /\ c.searches = a.searches /\ c.current = s
          /\ c.pattern = asked[s]
      BY <1>15, <2>4, <2>5
    <3>3. n.refresh = d.refresh
      BY <1>21, <1>24
    <3>4. n.searches[s] = d.searches[s] /\ n.heldAfter[s] = d.heldAfter[s]
      BY <1>31, <2>2, <2>5
    <3>5. CASE s \in held
      <4>1. d.heldAfter[s] = asked[s] /\ d.searches = c.searches /\ d.refresh = c.refresh
        BY <1>16, <3>1, <3>2, <3>5
      <4> QED
        BY <2>3, <2>4, <2>5, <3>2, <3>3, <3>4, <4>1 DEF Answered
    <3>6. CASE s \notin held
      <4>1. /\ d.heldAfter[s] = NoPattern /\ d.searches[s].phase \in {"Running", "InvalidPattern"}
            /\ d.searches[s].pattern = asked[s]
        BY <1>16, <3>1, <3>2, <3>6
      <4> QED
        BY <1>9, <3>1, <3>4, <4>1 DEF Answered
    <3> QED
      BY <3>5, <3>6
  <2>6. CASE ~(s = file.current /\ file.rule.searchWaits) /\ file.waiting[s] # NoPattern
    <3>1. s # file.current /\ file.waiting[s] = asked[s]
      BY <1>10, <2>1, <2>6 DEF WaitsWith, WaitInv
    <3>2. file.heldAfter[s] = NoPattern /\ run.outcome = "Successful"
      BY <1>29, <1>36, <2>6
    <3> QED
      BY <1>19, <1>26, <1>34, <2>2, <2>3, <3>1, <3>2 DEF Answered
  <2>7. CASE ~(s = file.current /\ file.rule.searchWaits) /\ file.waiting[s] = NoPattern
    <3>1. file.heldAfter[s] = asked[s]
      BY <2>1, <2>7 DEF WaitsWith
    <3>2. file.rule.loadFinishedOnce /\ ~load.runsWaitingSearch
      BY <1>29, <1>36, <3>1
    <3>3. d = c
      BY <1>16, <3>2
    <3>4. e.searches[s] = c.searches[s] /\ e.heldAfter[s] = c.heldAfter[s]
      BY <1>21, <1>26, <2>7, <3>3
    <3>5. CASE s = file.current
      <4>1. c.searches[s] = a.searches[s] /\ c.heldAfter[s] = file.heldAfter[s] /\ c.refresh = file.refresh
        BY <1>15, <2>4, <3>5
      <4>2. n.refresh = file.refresh
        BY <1>21, <1>24, <3>3, <4>1
      <4> QED
        BY <2>2, <2>3, <2>4, <3>1, <3>4, <3>5, <4>1, <4>2 DEF Answered
    <3>6. CASE s # file.current
      BY <1>15, <1>26, <2>2, <2>3, <3>1, <3>4, <3>6 DEF Answered
    <3> QED
      BY <3>5, <3>6
  <2> QED
    BY <2>5, <2>6, <2>7
<1> QED
  BY <1>25, <1>26, <1>27, <1>28, <1>30, <1>32, <1>33, <1>35, <1>36 DEF held

\* The members after the load.
LEMMA HandledFacts ==
    ASSUME TypeInv, RunInv, LinesInv, WaitInv, SearchesInv, FieldInv, FollowInv,
           HandleLoadingFinished, NEW load, load = Decision, NEW n, n = file'
    PROVE  /\ Loaded(n) /\ (n.opened <=> file.opened)
           /\ n.made = file.made /\ n.current = file.current /\ n.limits = load.limits
           /\ n.pattern = file.pattern
           /\ n.heldBefore = {} /\ (\A s \in Searches : n.waiting[s] = NoPattern)
           /\ n.rule.firstLoadDone /\ ~n.rule.grew /\ ~n.rule.truncated
           /\ n.rule.savedMarks <=> load.rule.savedMarks
           /\ n.rule.loadedLines = NbLines /\ n.rule.watching = load.rule.watching
           /\ \/ /\ file.rule.formatPending /\ NbLines > file.rule.recognizedFrom
                 /\ n.sampled = [gen |-> index.lines[1], lines |-> NbLines]
                 /\ n.rule.recognizedFrom = NbLines
                 /\ n.format # "None" => ~n.rule.formatPending
                 /\ n.format = "None" /\ ~n.rule.formatPending => NbLines >= SampleDepth
              \/ /\ ~(file.rule.formatPending /\ NbLines > file.rule.recognizedFrom)
                 /\ n.format = file.format /\ n.sampled = file.sampled
                 /\ n.rule.recognizedFrom = file.rule.recognizedFrom
                 /\ n.rule.formatPending <=> file.rule.formatPending
           /\ \A s \in Searches : file.marks[s] => n.marks[s]
           /\ load.appliesMarks /\ NbLines > 0 => n.marks[n.current]
           /\ ~told.borrowed => Own(n)
           /\ /\ ~told.borrowed
              /\ \/ load.continues \/ load.restarts \/ load.runsWaitingSearch
                 \/ (~told.early /\ ~told.apart)
              => Exact(n)
           /\ n.searches[n.current].phase # "Idle" =>
                \/ file.searches[n.current].phase # "Idle"
                \/ load.continues \/ load.restarts \/ load.runsWaitingSearch
           /\ \A s \in Searches \ file.made : n.searches[s] = Idle /\ n.heldAfter[s] = NoPattern
           /\ \A s \in Searches :
                /\ asked[s] # NoPattern /\ (s = n.current => ~told.borrowed)
                /\ run.outcome = "Successful" \/ file.heldAfter[s] # NoPattern
                => Answered(n, s)
<1>1. PICK k : k = RunWaitingSearches(ApplySavedMarks(RefreshSearch(Settled(file, load), load), load),
                                      load, file.heldBefore)
  OBVIOUS
<1>2. Ended
  BY DEF HandleLoadingFinished, Ended
<1>3. /\ Loaded(k) /\ (k.opened <=> file.opened)
      /\ k.made = file.made /\ k.current = file.current /\ k.limits = load.limits
      /\ k.format = file.format /\ k.sampled = file.sampled /\ k.pattern = file.pattern
      /\ k.heldBefore = {} /\ (\A s \in Searches : k.waiting[s] = NoPattern)
      /\ RuleOthers(k.rule, load.rule)
      /\ \A s \in Searches : file.marks[s] => k.marks[s]
      /\ load.appliesMarks /\ NbLines > 0 => k.marks[k.current]
      /\ ~told.borrowed => Own(k)
      /\ /\ ~told.borrowed
         /\ \/ load.continues \/ load.restarts \/ load.runsWaitingSearch
            \/ (~told.early /\ ~told.apart)
         => Exact(k)
      /\ k.searches[k.current].phase # "Idle" =>
           \/ file.searches[k.current].phase # "Idle"
           \/ load.continues \/ load.restarts \/ load.runsWaitingSearch
      /\ k.current \in file.heldBefore => k.searches[k.current].phase = "Idle"
      /\ \A s \in Searches \ file.made : k.searches[s] = Idle /\ k.heldAfter[s] = NoPattern
      /\ \A s \in Searches :
           /\ asked[s] # NoPattern /\ (s = k.current => ~told.borrowed)
           /\ run.outcome = "Successful" \/ file.heldAfter[s] # NoPattern
           => Answered(k, s)
  BY <1>1, <1>2, KeptFacts
<1>4. PICK searched : searched = [start |-> file.searches[file.current].start,
                                  end |-> file.searches[file.current].end]
  OBVIOUS
<1>5. Decides(load, file.rule, run.outcome, NbLines, file.refresh, file.limits, searched)
  BY <1>2, <1>4, DecisionFacts
<1>6. /\ load.recognizesFormat <=> file.rule.formatPending /\ NbLines > file.rule.recognizedFrom
      /\ load.rule.formatPending <=> file.rule.formatPending
      /\ load.rule.recognizedFrom = file.rule.recognizedFrom
      /\ load.rule.firstLoadDone /\ ~load.rule.grew /\ ~load.rule.truncated
      /\ load.rule.loadedLines = NbLines
  BY <1>5 DEF Decides
<1>7. /\ k.rule.firstLoadDone /\ ~k.rule.grew /\ ~k.rule.truncated
      /\ k.rule.savedMarks <=> load.rule.savedMarks
      /\ k.rule.loadedLines = NbLines /\ k.rule.watching = load.rule.watching
      /\ k.rule.recognizedFrom = file.rule.recognizedFrom
      /\ k.rule.formatPending <=> file.rule.formatPending
  BY <1>3, <1>6 DEF RuleOthers
<1>8. \/ load.recognizesFormat /\ \E found \in BOOLEAN : n = RecognizeFormat(k, found, file.heldBefore)
      \/ ~load.recognizesFormat /\ n = k
  BY <1>1, Zenon DEF HandleLoadingFinished
<1>9. CASE ~load.recognizesFormat /\ n = k
  BY ONLY <1>3, <1>6, <1>7, <1>9
<1>10. CASE load.recognizesFormat /\ \E found \in BOOLEAN : n = RecognizeFormat(k, found, file.heldBefore)
  <2>1. PICK found \in BOOLEAN : n = RecognizeFormat(k, found, file.heldBefore)
    BY <1>10
  <2>2. NbLines > 0 /\ NbLines \in Nat
    BY <1>6, <1>10, OpenLogFileAssumption DEF TypeInv, FileMembers, Rules, Lines
  <2>3. Loaded(k) /\ (k.current \in file.heldBefore => k.searches[k.current].phase = "Idle")
    BY <1>3
  <2>4. /\ Loaded(n) /\ (n.opened <=> k.opened)
        /\ n.made = k.made /\ n.current = k.current /\ n.waiting = k.waiting /\ n.limits = k.limits
        /\ n.marks = k.marks /\ n.pattern = k.pattern /\ n.heldBefore \subseteq k.heldBefore
        /\ n.sampled = [gen |-> index.lines[1], lines |-> NbLines]
        /\ n.format = IF found THEN "Recognized" ELSE "None"
        /\ n.rule.recognizedFrom = NbLines
        /\ n.rule.formatPending <=> k.rule.formatPending /\ ~found /\ NbLines < SampleDepth
        /\ n.rule.firstLoadDone <=> k.rule.firstLoadDone
        /\ n.rule.grew <=> k.rule.grew
        /\ n.rule.truncated <=> k.rule.truncated
        /\ n.rule.savedMarks <=> k.rule.savedMarks
        /\ n.rule.loadedLines = k.rule.loadedLines /\ n.rule.watching = k.rule.watching
        /\ \A s \in Searches : s # k.current =>
             n.searches[s] = k.searches[s] /\ n.heldAfter[s] = k.heldAfter[s]
        /\ \/ /\ n.searches = k.searches /\ n.heldAfter = k.heldAfter /\ n.refresh = k.refresh
              /\ n.rule.searchRequested <=> k.rule.searchRequested
           \/ /\ k.searches[k.current].phase # "Idle" /\ n.heldAfter[k.current] = NoPattern
              /\ n.searches[k.current].phase \in {"Running", "InvalidPattern"}
              /\ n.searches[k.current].pattern = k.pattern
        /\ Own(k) => Own(n)
        /\ Exact(k) => Exact(n)
    BY <2>1, <2>2, <2>3, RecognizeFormatFacts
  <2>5. /\ file.rule.formatPending /\ NbLines > file.rule.recognizedFrom
        /\ n.format # "None" => ~n.rule.formatPending
        /\ n.format = "None" /\ ~n.rule.formatPending => NbLines >= SampleDepth
    BY <1>6, <1>7, <1>10, <2>2, <2>4, LoadRuleAssumption
  <2>6. n.searches[n.current].phase # "Idle" => k.searches[k.current].phase # "Idle"
    BY <2>4
  <2>7. file.current \in file.made /\ file.current \in Searches
    BY DEF TypeInv, FileMembers
  <2>8. \A s \in Searches \ file.made : n.searches[s] = Idle /\ n.heldAfter[s] = NoPattern
    BY <1>3, <2>4, <2>7
  <2>9. ASSUME NEW s \in Searches, asked[s] # NoPattern, s = n.current => ~told.borrowed,
               run.outcome = "Successful" \/ file.heldAfter[s] # NoPattern
        PROVE  Answered(n, s)
    <3>1. Answered(k, s)
      BY <1>3, <2>4, <2>9
    <3>2. CASE s # k.current
      BY <2>4, <3>1, <3>2 DEF Answered
    <3>3. CASE n.searches = k.searches /\ n.heldAfter = k.heldAfter /\ n.refresh = k.refresh
      BY <2>4, <3>1, <3>3 DEF Answered
    <3>4. CASE s = k.current /\ k.searches[k.current].phase # "Idle" /\ n.heldAfter[k.current] = NoPattern
                /\ n.searches[k.current].phase \in {"Running", "InvalidPattern"}
                /\ n.searches[k.current].pattern = k.pattern
      <4>1. k.pattern = asked[s]
        BY <1>3, <2>9, <2>4, <3>4 DEF WaitInv
      <4> QED
        BY <3>1, <3>4, <4>1 DEF Answered
    <3> QED
      BY <2>4, <3>2, <3>3, <3>4
  <2> QED
    <3>1. /\ Loaded(n) /\ (n.opened <=> file.opened)
          /\ n.made = file.made /\ n.current = file.current /\ n.limits = load.limits
          /\ n.pattern = file.pattern
          /\ n.heldBefore = {} /\ (\A s \in Searches : n.waiting[s] = NoPattern)
          /\ n.rule.firstLoadDone /\ ~n.rule.grew /\ ~n.rule.truncated
          /\ n.rule.savedMarks <=> load.rule.savedMarks
          /\ n.rule.loadedLines = NbLines /\ n.rule.watching = load.rule.watching
          /\ n.sampled = [gen |-> index.lines[1], lines |-> NbLines]
          /\ n.rule.recognizedFrom = NbLines
          /\ \A s \in Searches : file.marks[s] => n.marks[s]
          /\ load.appliesMarks /\ NbLines > 0 => n.marks[n.current]
      BY ONLY <1>3, <1>7, <2>4
    <3>2. /\ ~told.borrowed => Own(n)
          /\ /\ ~told.borrowed
             /\ \/ load.continues \/ load.restarts \/ load.runsWaitingSearch
                \/ (~told.early /\ ~told.apart)
             => Exact(n)
          /\ n.searches[n.current].phase # "Idle" =>
               \/ file.searches[n.current].phase # "Idle"
               \/ load.continues \/ load.restarts \/ load.runsWaitingSearch
      BY ONLY <1>3, <2>4, <2>6
    <3> QED
      BY ONLY <2>5, <2>8, <2>9, <3>1, <3>2
<1> QED
  BY <1>8, <1>9, <1>10

\* Which job runs next.
LEMMA NextJobFacts ==
    ASSUME TypeInv, RunInv, HandleLoadingFinished, NEW load, load = Decision
    PROVE  /\ queue'.running \in Waiting /\ queue'.waiting = NoJob
           /\ queue' \in [running : JobsHere, waiting : Waiting]
           /\ queue'.running \in Fulls <=> queue.waiting \in Fulls
           /\ queue.waiting.kind \in FullKinds <=> queue.waiting \in Fulls
           /\ load.watching = "CheckAgain" => queue'.running # NoJob
           /\ run' = IF queue'.running = NoJob THEN NoRun ELSE Queued
<1>1. FinishJob(Continued(queue, load.watching))
  BY Zenon DEF HandleLoadingFinished
<1>2. queue \in [running : JobsHere, waiting : Waiting] /\ queue.waiting \in Waiting
  BY DEF TypeInv
<1>3. PICK c : c = Continued(queue, load.watching)
  OBVIOUS
<1>4. queue' = StartWaiting(c) /\ run' = IF queue'.running = NoJob THEN NoRun ELSE Queued
  BY <1>1, <1>3 DEF FinishJob
<1>5. queue' = [running |-> c.waiting, waiting |-> NoJob]
  BY <1>4 DEF StartWaiting
<1>6. c.waiting =
         IF load.watching = "CheckAgain" THEN WaitingIndexJob(queue.waiting, Check) ELSE queue.waiting
  <2>1. queue.running # NoJob
    BY DEF RunInv, HandleLoadingFinished, Delivered
  <2> QED
    BY <1>2, <1>3, <2>1, EnqueueFacts DEF Continued
<1>7. WaitingIndexJob(queue.waiting, Check) = IF queue.waiting = NoJob THEN Check ELSE queue.waiting
  BY <1>2, WaitingFacts
<1>8. /\ Check # NoJob /\ NoJob \notin Fulls /\ Check \notin Fulls
      /\ Waiting \subseteq JobsHere /\ NoJob \in Waiting /\ Check \in Waiting
      /\ \A j \in Waiting : j.kind \in FullKinds <=> j \in Fulls
  BY DEF Waiting, JobsHere, Fulls, NoJob, Check, Automatic, Explicit, FullKinds
<1>9. c.waiting \in Waiting /\ (c.waiting \in Fulls <=> queue.waiting \in Fulls)
  BY <1>2, <1>6, <1>7, <1>8
<1>10. load.watching = "CheckAgain" => c.waiting # NoJob
  BY <1>2, <1>6, <1>7, <1>8
<1> QED
  BY <1>2, <1>4, <1>5, <1>8, <1>9, <1>10

\* What is told of a load that ended.
LEMMA ToldFacts ==
    ASSUME TypeInv, HandleLoadingFinished, NEW load, load = Decision
    PROVE  /\ told' \in ToldMembers
           /\ told'.lines = index.lines
           /\ told'.honest <=> told.honest
                 /\ (load.onlyAppended /\ run.outcome = "Successful" => IsPrefix(told.lines, index.lines))
           /\ told'.stopped = told.stopped + (IF Stops(load.watching) THEN 1 ELSE 0)
           /\ load.watching # "Stopped" \/ run.outcome # "Successful" => (told'.stoppedRight <=> told.stoppedRight)
           /\ told'.stopAsked <=> told.stopAsked
           /\ told'.stopFile = told.stopFile
           /\ told'.raced <=> told.raced
           /\ told'.early <=> IF load.continues \/ load.restarts \/ load.runsWaitingSearch
                              THEN queue.waiting.kind \in FullKinds ELSE told.early
           /\ told'.borrowed <=> told.borrowed
           /\ told'.apart <=> told.apart /\ ~load.continues
           /\ told'.narrowed <=> told.narrowed /\ load.limits # Whole(NbLines)
           /\ told'.reloadRaced <=> told.reloadRaced
           /\ told'.marked <=> told.marked /\ (load.appliesMarks => NbLines > 0)
<1>1. PICK ho, st, sr, ea, ap, na, ma :
         /\ ho = (told.honest
                    /\ (Decision.onlyAppended /\ run.outcome = "Successful" => IsPrefix(told.lines, index.lines)))
         /\ st = told.stopped + (IF Stops(Decision.watching) THEN 1 ELSE 0)
         /\ sr = (told.stoppedRight /\ (Decision.watching = "Stopped" /\ run.outcome = "Successful" => LoadedThen))
         /\ ea = IF Decision.continues \/ Decision.restarts \/ Decision.runsWaitingSearch
                 THEN queue.waiting.kind \in FullKinds ELSE told.early
         /\ ap = (told.apart /\ ~Decision.continues)
         /\ na = (told.narrowed /\ Decision.limits # [start |-> 0, end |-> NbLines])
         /\ ma = (told.marked /\ (Decision.appliesMarks => NbLines > 0))
  OBVIOUS
<1>2. told' = [told EXCEPT !.lines = index.lines, !.honest = ho, !.stopped = st, !.stoppedRight = sr,
                   !.early = ea, !.apart = ap, !.narrowed = na, !.marked = ma]
  <2>1. told' = [told EXCEPT !.lines = index.lines,
                    !.honest = @ /\ (Decision.onlyAppended /\ run.outcome = "Successful" => IsPrefix(told.lines, index.lines)),
                    !.stopped = @ + (IF Stops(Decision.watching) THEN 1 ELSE 0),
                    !.stoppedRight = @ /\ (Decision.watching = "Stopped" /\ run.outcome = "Successful" => LoadedThen),
                    !.early = IF Decision.continues \/ Decision.restarts \/ Decision.runsWaitingSearch
                               THEN queue.waiting.kind \in FullKinds ELSE @,
                    !.apart = @ /\ ~Decision.continues,
                    !.narrowed = @ /\ Decision.limits # [start |-> 0, end |-> NbLines],
                    !.marked = @ /\ (Decision.appliesMarks => NbLines > 0)]
    BY Zenon DEF HandleLoadingFinished
  <2> QED
    BY ONLY <1>1, <2>1, Zenon
<1>4. told \in ToldMembers /\ index.lines \in Seq(Generations)
  BY DEF TypeInv
<1>5. ho \in BOOLEAN /\ sr \in BOOLEAN /\ ap \in BOOLEAN /\ na \in BOOLEAN /\ ma \in BOOLEAN
  <2>1. told.honest \in BOOLEAN /\ told.stoppedRight \in BOOLEAN /\ told.apart \in BOOLEAN
        /\ told.narrowed \in BOOLEAN /\ told.marked \in BOOLEAN
    BY <1>4 DEF ToldMembers
  <2> QED
    BY <1>1, <2>1, Zenon
<1>6. ea \in BOOLEAN
  <2>1. told.early \in BOOLEAN /\ (queue.waiting.kind \in FullKinds) \in BOOLEAN
    BY <1>4 DEF ToldMembers
  <2> QED
    BY <1>1, <2>1, Zenon
<1>7. st \in Nat
  BY <1>1, <1>4 DEF ToldMembers
<1>8. /\ told' \in ToldMembers
      /\ told'.lines = index.lines /\ told'.honest = ho /\ told'.stopped = st /\ told'.stoppedRight = sr
      /\ told'.early = ea /\ told'.apart = ap /\ told'.narrowed = na /\ told'.marked = ma
      /\ told'.stopAsked = told.stopAsked /\ told'.stopFile = told.stopFile /\ told'.raced = told.raced
      /\ told'.borrowed = told.borrowed /\ told'.reloadRaced = told.reloadRaced
  <2>1. PICK t : t = told'
    OBVIOUS
  <2>2. t = [told EXCEPT !.lines = index.lines, !.honest = ho, !.stopped = st, !.stoppedRight = sr,
                   !.early = ea, !.apart = ap, !.narrowed = na, !.marked = ma]
    BY <1>2, <2>1
  <2>3. /\ t.lines = index.lines /\ t.honest = ho /\ t.stopped = st /\ t.stoppedRight = sr
        /\ t.early = ea /\ t.apart = ap /\ t.narrowed = na /\ t.marked = ma
        /\ t.stopAsked = told.stopAsked /\ t.stopFile = told.stopFile /\ t.raced = told.raced
        /\ t.borrowed = told.borrowed /\ t.reloadRaced = told.reloadRaced
    BY ONLY <1>4, <2>2 DEF ToldMembers
  <2>4. t \in ToldMembers
    <3>1. PICK v : v = [told EXCEPT !.lines = index.lines, !.honest = ho, !.stopped = st, !.stoppedRight = sr]
      OBVIOUS
    <3>2. v \in ToldMembers
      BY ONLY <1>4, <1>5, <1>7, <3>1 DEF ToldMembers
    <3>3. t = [v EXCEPT !.early = ea, !.apart = ap, !.narrowed = na, !.marked = ma]
      BY ONLY <1>4, <2>2, <3>1 DEF ToldMembers
    <3>4. PICK x : x = [v EXCEPT !.early = ea, !.apart = ap]
      OBVIOUS
    <3>5. x \in ToldMembers
      BY ONLY <1>5, <1>6, <3>2, <3>4 DEF ToldMembers
    <3>6. t = [x EXCEPT !.narrowed = na, !.marked = ma]
      BY ONLY <3>2, <3>3, <3>4 DEF ToldMembers
    <3> QED
      BY ONLY <1>5, <3>5, <3>6 DEF ToldMembers
  <2> QED
    BY <2>1, <2>3, <2>4
<1>9. /\ told'.honest <=> told.honest
            /\ (Decision.onlyAppended /\ run.outcome = "Successful" => IsPrefix(told.lines, index.lines))
      /\ told'.apart <=> told.apart /\ ~Decision.continues
      /\ told'.narrowed <=> told.narrowed /\ Decision.limits # Whole(NbLines)
      /\ told'.marked <=> told.marked /\ (Decision.appliesMarks => NbLines > 0)
  BY ONLY <1>1, <1>8, Zenon DEF Whole
<1>10. Decision.watching # "Stopped" \/ run.outcome # "Successful" => (told'.stoppedRight <=> told.stoppedRight)
  BY ONLY <1>1, <1>8, Zenon
<1>11. told'.early <=> IF Decision.continues \/ Decision.restarts \/ Decision.runsWaitingSearch
                       THEN queue.waiting.kind \in FullKinds ELSE told.early
  BY ONLY <1>1, <1>8, Zenon
<1> QED
  BY ONLY <1>1, <1>8, <1>9, <1>10, <1>11, load = Decision

\* Which Searches are still asked for: not one that was taken over, nor, after
\* a load that failed, one that only waited for it.
LEMMA AskedFacts ==
    ASSUME TypeInv, HandleLoadingFinished
    PROVE  /\ asked' \in [Searches -> Known]
           /\ \A s \in Searches : asked'[s] # NoPattern =>
                /\ asked'[s] = asked[s] /\ (s = file.current => ~told.borrowed)
                /\ run.outcome = "Successful" \/ file.heldAfter[s] # NoPattern
                /\ run.outcome = "Successful" =>
                     ~(/\ WaitsWith(file', s) = NoPattern /\ file'.searches[s].phase # "Idle"
                       /\ file'.searches[s].pattern = asked[s])
<1>1. PICK w : w = IF told.borrowed THEN [asked EXCEPT ![file.current] = NoPattern] ELSE asked
  OBVIOUS
<1>2. asked' = IF run.outcome = "Successful" THEN Requested(file', w)
               ELSE [s \in Searches |-> IF file.heldAfter[s] = NoPattern THEN NoPattern ELSE w[s]]
  <2>1. asked' = IF run.outcome = "Successful"
                 THEN Requested(file', IF told.borrowed THEN [asked EXCEPT ![file.current] = NoPattern] ELSE asked)
                 ELSE [s \in Searches |->
                         IF file.heldAfter[s] = NoPattern THEN NoPattern
                         ELSE (IF told.borrowed THEN [asked EXCEPT ![file.current] = NoPattern] ELSE asked)[s]]
    BY Zenon DEF HandleLoadingFinished
  <2> QED
    BY ONLY <1>1, <2>1
<1>3. asked \in [Searches -> Known] /\ NoPattern \in Known /\ file.current \in Searches
  BY DEF TypeInv, Known, FileMembers
<1>4. /\ w \in [Searches -> Known]
      /\ \A s \in Searches : w[s] # NoPattern => w[s] = asked[s] /\ (s = file.current => ~told.borrowed)
  BY <1>1, <1>3
<1>5. CASE run.outcome = "Successful"
  <2>1. asked' = [s \in Searches |->
            IF WaitsWith(file', s) = NoPattern /\ file'.searches[s].phase # "Idle" /\ file'.searches[s].pattern = w[s]
            THEN NoPattern ELSE w[s]]
    BY <1>2, <1>5, Zenon DEF Requested
  <2> QED
    BY <1>3, <1>4, <1>5, <2>1
<1>6. CASE run.outcome # "Successful"
  BY <1>2, <1>3, <1>4, <1>6
<1> QED
  BY <1>5, <1>6

\* The end of a load leaves the invariant.
LEMMA HandleLoadingFinishedStep ==
    ASSUME IInv, HandleLoadingFinished
    PROVE  IInv'
<1> USE DEF IInv
<1>1. PICK load : load = Decision
  OBVIOUS
<1>2. PICK n : n = file'
  OBVIOUS
<1>3. Ended /\ run.at = "ended"
  BY DEF HandleLoadingFinished, Ended, Delivered
<1>4. PICK searched : searched = [start |-> file.searches[file.current].start,
                                  end |-> file.searches[file.current].end]
  OBVIOUS
<1>5. /\ Decides(load, file.rule, run.outcome, NbLines, file.refresh, file.limits, searched)
      /\ load.limits \in Limits /\ load.limits.end <= NbLines /\ load.limits.start <= load.limits.end
      /\ load.limits.start < load.limits.end \/ (load.limits = Whole(0) /\ NbLines = 0)
      /\ ~told.narrowed => load.limits = Whole(NbLines)
  BY <1>1, <1>3, <1>4, DecisionFacts
<1>6. /\ Loaded(n) /\ (n.opened <=> file.opened)
      /\ n.made = file.made /\ n.current = file.current /\ n.limits = load.limits
      /\ n.pattern = file.pattern
      /\ n.heldBefore = {} /\ (\A s \in Searches : n.waiting[s] = NoPattern)
      /\ n.rule.firstLoadDone /\ ~n.rule.grew /\ ~n.rule.truncated
      /\ n.rule.savedMarks <=> load.rule.savedMarks
      /\ n.rule.loadedLines = NbLines /\ n.rule.watching = load.rule.watching
      /\ \/ /\ file.rule.formatPending /\ NbLines > file.rule.recognizedFrom
            /\ n.sampled = [gen |-> index.lines[1], lines |-> NbLines]
            /\ n.rule.recognizedFrom = NbLines
            /\ n.format # "None" => ~n.rule.formatPending
            /\ n.format = "None" /\ ~n.rule.formatPending => NbLines >= SampleDepth
         \/ /\ ~(file.rule.formatPending /\ NbLines > file.rule.recognizedFrom)
            /\ n.format = file.format /\ n.sampled = file.sampled
            /\ n.rule.recognizedFrom = file.rule.recognizedFrom
            /\ n.rule.formatPending <=> file.rule.formatPending
      /\ \A s \in Searches : file.marks[s] => n.marks[s]
      /\ load.appliesMarks /\ NbLines > 0 => n.marks[n.current]
      /\ ~told.borrowed => Own(n)
      /\ /\ ~told.borrowed
         /\ \/ load.continues \/ load.restarts \/ load.runsWaitingSearch
            \/ (~told.early /\ ~told.apart)
         => Exact(n)
      /\ n.searches[n.current].phase # "Idle" =>
           \/ file.searches[n.current].phase # "Idle"
           \/ load.continues \/ load.restarts \/ load.runsWaitingSearch
      /\ \A s \in Searches \ file.made : n.searches[s] = Idle /\ n.heldAfter[s] = NoPattern
      /\ \A s \in Searches :
           /\ asked[s] # NoPattern /\ (s = n.current => ~told.borrowed)
           /\ run.outcome = "Successful" \/ file.heldAfter[s] # NoPattern
           => Answered(n, s)
  BY <1>1, <1>2, HandledFacts
<1>7. /\ queue'.running \in Waiting /\ queue'.waiting = NoJob
      /\ queue' \in [running : JobsHere, waiting : Waiting]
      /\ queue'.running \in Fulls <=> queue.waiting \in Fulls
      /\ queue.waiting.kind \in FullKinds <=> queue.waiting \in Fulls
      /\ load.watching = "CheckAgain" => queue'.running # NoJob
      /\ run' = IF queue'.running = NoJob THEN NoRun ELSE Queued
  BY <1>1, NextJobFacts
<1>8. /\ told' \in ToldMembers
      /\ told'.lines = index.lines
      /\ told'.honest <=> told.honest
            /\ (load.onlyAppended /\ run.outcome = "Successful" => IsPrefix(told.lines, index.lines))
      /\ told'.stopped = told.stopped + (IF Stops(load.watching) THEN 1 ELSE 0)
      /\ load.watching # "Stopped" \/ run.outcome # "Successful" => (told'.stoppedRight <=> told.stoppedRight)
      /\ told'.stopAsked <=> told.stopAsked
      /\ told'.stopFile = told.stopFile
      /\ told'.raced <=> told.raced
      /\ told'.early <=> IF load.continues \/ load.restarts \/ load.runsWaitingSearch
                         THEN queue.waiting.kind \in FullKinds ELSE told.early
      /\ told'.borrowed <=> told.borrowed
      /\ told'.apart <=> told.apart /\ ~load.continues
      /\ told'.narrowed <=> told.narrowed /\ load.limits # Whole(NbLines)
      /\ told'.reloadRaced <=> told.reloadRaced
      /\ told'.marked <=> told.marked /\ (load.appliesMarks => NbLines > 0)
  BY <1>1, ToldFacts
<1>9. /\ asked' \in [Searches -> Known]
      /\ \A s \in Searches : asked'[s] # NoPattern =>
           /\ asked'[s] = asked[s] /\ (s = file.current => ~told.borrowed)
           /\ run.outcome = "Successful" \/ file.heldAfter[s] # NoPattern
           /\ run.outcome = "Successful" =>
                ~(/\ WaitsWith(file', s) = NoPattern /\ file'.searches[s].phase # "Idle"
                  /\ file'.searches[s].pattern = asked[s])
  BY AskedFacts
<1>10. /\ UNCHANGED <<logFile, unreported, index, linesBefore, counts>>
       /\ watched' \in BOOLEAN /\ posted' \in BOOLEAN
  <2>1. /\ watched' = (watched \/ (run.outcome = "Successful" /\ file.rule.watching = "On"))
        /\ posted' = (posted \/ (~watched /\ watched'))
        /\ UNCHANGED <<logFile, unreported, index, linesBefore, counts>>
    BY Zenon DEF HandleLoadingFinished
  <2> QED
    BY ONLY <2>1, Zenon
<1>11. /\ n \in FileMembers /\ n.rule.loadFinishedOnce /\ ~n.rule.searchWaits
       /\ n.current \in Searches /\ n.current \in n.made /\ NbLines' = NbLines
  BY <1>6, <1>10 DEF Loaded, FileMembers, TypeInv, NbLines
<1>12. /\ Check \notin Fulls /\ Partial \notin Fulls /\ Attach(NoEncoding) \notin Fulls /\ NoJob \notin Fulls
       /\ Attach(NoEncoding) \notin Waiting /\ Partial \notin Waiting
       /\ Check # Attach(NoEncoding) /\ Partial # Attach(NoEncoding) /\ Partial # Check
  BY DEF Fulls, Waiting, Check, Partial, Attach, NoJob, Automatic, Explicit
<1>13. /\ run' \in [at : {"off", "queued", "reading", "ended"}, superseded : BOOLEAN,
                    outcome : {"None"} \cup LoadedOutcomes \cup CheckOutcomes]
       /\ run'.at \in {"off", "queued"} /\ (run'.at = "off" <=> queue'.running = NoJob)
  BY <1>7 DEF NoRun, Queued
<1>14. run.outcome \in LoadedOutcomes /\ queue.running # NoJob /\ queue.running # Check
  BY <1>3 DEF Ended, RunInv, LoadedOutcomes, CheckOutcomes
<1>15. file.opened /\ queue.running \in {Partial, Attach(NoEncoding)} \cup Fulls
  BY <1>3, <1>14 DEF Opening, NoRun, TypeInv, JobsHere, Fulls
<1>16. run.outcome # "Successful" => index = NoLines
  BY <1>3, <1>14 DEF RunInv, LoadedOutcomes
<1>17. TypeInv'
  BY <1>2, <1>7, <1>8, <1>9, <1>10, <1>11, <1>13 DEF TypeInv, NbLines
<1>18. RunInv'
  BY <1>7, <1>10, <1>12, <1>13 DEF RunInv, NbLines
<1>19. Still' /\ ~Added'
  BY <1>13 DEF Still, Added
<1>20. Opening'
  BY <1>2, <1>6, <1>7, <1>11, <1>12, <1>15 DEF Opening
<1>21. LinesInv'
  <2>1. file'.rule.loadedLines = Len(told'.lines) /\ index'.lines = told'.lines
    BY <1>2, <1>6, <1>8, <1>10 DEF NbLines
  <2>2. file'.limits = load.limits /\ file'.rule.loadedLines = NbLines'
    BY <1>2, <1>6, <1>11
  <2>3. ~told'.narrowed => load.limits = Whole(NbLines)
    BY <1>5, <1>8
  <2> QED
    BY <1>5, <1>11, <1>19, <2>1, <2>2, <2>3 DEF LinesInv
<1>22. HonestInv'
  <2>1. load.onlyAppended /\ run.outcome = "Successful" => IsPrefix(told.lines, index.lines)
    <3>1. SUFFICES ASSUME load.onlyAppended, run.outcome = "Successful"
                   PROVE  IsPrefix(told.lines, index.lines)
      OBVIOUS
    <3>2. file.rule.firstLoadDone /\ file.rule.grew /\ ~file.rule.truncated
      BY <1>5, <3>1 DEF Decides
    <3>3. queue.running = Partial
      BY <1>15, <3>2 DEF HonestInv, Opening
    <3>4. Added
      BY <1>3, <3>1, <3>3 DEF Added
    <3>5. /\ told.lines \in Seq(Generations) /\ index.lines \in Seq(Generations)
          /\ Len(told.lines) <= Len(index.lines)
          /\ \A i \in 1..Len(told.lines) : index.lines[i] = told.lines[i]
      BY <3>4 DEF LinesInv, TypeInv, ToldMembers, NbLines
    <3>6. SubSeq(told.lines, 1, Len(told.lines)) = SubSeq(index.lines, 1, Len(told.lines))
      <4>1. /\ SubSeq(told.lines, 1, Len(told.lines)) = told.lines
            /\ SubSeq(index.lines, 1, Len(told.lines)) \in Seq(Generations)
            /\ Len(SubSeq(index.lines, 1, Len(told.lines))) = Len(told.lines)
            /\ \A i \in 1..Len(told.lines) : SubSeq(index.lines, 1, Len(told.lines))[i] = index.lines[i]
        BY <3>5
      <4> QED
        BY <3>5, <4>1
    <3> QED
      BY <3>5, <3>6 DEF IsPrefix
  <2>2. told'.honest
    BY <1>8, <2>1 DEF HonestInv
  <2> QED
    BY <1>2, <1>6, <1>7, <1>12, <2>2 DEF HonestInv
<1>23. ASSUME NEW s \in Searches, asked'[s] # NoPattern
       PROVE  /\ asked'[s] = asked[s] /\ WaitsWith(file', s) = n.heldAfter[s]
              /\ n.searches[s].phase = "Idle" /\ n.heldAfter[s] = asked[s]
              /\ s = n.current => ~told.borrowed /\ ~IsAutoRefreshAllowed(n.refresh)
  <2>1. WaitsWith(file', s) = n.heldAfter[s]
    BY <1>2, <1>6, <1>11 DEF WaitsWith
  <2>2. /\ asked'[s] = asked[s] /\ (s = file.current => ~told.borrowed)
        /\ run.outcome = "Successful" \/ file.heldAfter[s] # NoPattern
        /\ run.outcome = "Successful" =>
              ~(n.heldAfter[s] = NoPattern /\ n.searches[s].phase # "Idle" /\ n.searches[s].pattern = asked[s])
    BY <1>2, <1>9, <1>23, <2>1
  <2>3. Answered(n, s)
    BY <1>6, <1>23, <2>2
  <2> QED
    BY <1>6, <2>1, <2>2, <2>3 DEF Answered
<1>24. WaitInv'
  <2>1. /\ ~file'.rule.loadFinishedOnce =>
              /\ \A s \in Searches : file'.searches[s].phase = "Idle" /\ file'.heldAfter[s] = NoPattern
              /\ file'.refresh.state = "NoSearch"
        /\ file'.rule.loadFinishedOnce =>
              ~file'.rule.searchWaits /\ (\A s \in Searches : file'.waiting[s] = NoPattern) /\ file'.heldBefore = {}
        /\ file'.waiting[file'.current] = NoPattern
    BY <1>2, <1>6, <1>11
  <2>2. ASSUME NEW s \in Searches \ file'.made
        PROVE  /\ file'.searches[s] = Idle
               /\ file'.waiting[s] = NoPattern /\ file'.heldAfter[s] = NoPattern /\ asked'[s] = NoPattern
    <3>1. asked[s] = NoPattern
      BY <1>2, <1>6, <2>2 DEF WaitInv
    <3> QED
      BY <1>2, <1>6, <1>9, <2>2, <3>1
  <2>3. \A s \in Searches : asked'[s] # NoPattern => file'.searches[s].phase = "Idle"
    BY <1>2, <1>23
  <2>4. ~told'.borrowed /\ asked'[file'.current] # NoPattern =>
             file'.pattern = asked'[file'.current] /\ ~IsAutoRefreshAllowed(file'.refresh)
    BY <1>2, <1>6, <1>8, <1>11, <1>23 DEF WaitInv
  <2>5. AskedIsKept'
    BY <1>23 DEF AskedIsKept
  <2> QED
    BY <2>1, <2>2, <2>3, <2>4, <2>5 DEF WaitInv
<1>25. StopInv'
  <2>1. \/ file.rule.watching # "Stopping" /\ load.watching = "None" /\ n.rule.watching = file.rule.watching
        \/ file.rule.watching = "Stopping"
             /\ load.watching = "CheckAgain" /\ n.rule.watching = "Stopping"
        \/ file.rule.watching = "Stopping"
             /\ load.watching = "StoppedStillChanging" /\ n.rule.watching = "Stopped"
        \/ file.rule.watching = "Stopping" /\ run.outcome # "Successful"
             /\ load.watching = "Stopped" /\ n.rule.watching = "Stopped"
    BY <1>5, <1>6 DEF Decides
  <2>2. told'.stoppedRight <=> told.stoppedRight
    BY <1>8, <2>1
  <2>3. told'.stopped = IF n.rule.watching = "Stopped" THEN 1 ELSE 0
    BY <1>8, <2>1 DEF StopInv, Stops
  <2>4. n.rule.watching = "Stopping" => queue'.running # NoJob
    BY <1>3, <1>7, <2>1
  <2>5. n.rule.watching # "On" <=> file.rule.watching # "On"
    BY <2>1
  <2>6. run'.at # "ended"
    BY <1>13
  <2> QED
    BY <1>2, <1>8, <1>10, <2>2, <2>3, <2>4, <2>5, <2>6 DEF StopInv
<1>26. FormatInv'
  <2>1. SUFFICES ASSUME ~told.reloadRaced
                 PROVE  /\ queue'.running \in Fulls => Unrecognized'
                        /\ queue'.running \notin Fulls /\ index.lines # <<>> => Sampled'
                        /\ queue'.running \notin Fulls /\ index.lines = <<>> => Unrecognized' \/ ~index.recorded
    BY <1>7, <1>8, <1>10, <1>12, <1>19 DEF FormatInv, ReadAgain
  <2>2. /\ file.rule.recognizedFrom \in Nat /\ NbLines \in Nat /\ NbLines = Len(index.lines)
        /\ index.lines \in Seq(Generations) /\ told.lines \in Seq(Generations)
        /\ file.sampled.lines \in Nat /\ SampleDepth \in Nat
    BY OpenLogFileAssumption, LoadRuleAssumption DEF TypeInv, FileMembers, Rules, Lines, NbLines, ToldMembers
  <2>3. NbLines = 0 /\ Unrecognized => Unrecognized'
    BY <1>2, <1>6, <2>2 DEF Unrecognized
  <2>4. queue.waiting \in Fulls => index.lines = <<>> /\ Unrecognized
    <3>1. run.superseded => index.lines = <<>>
      BY <1>3, <1>16 DEF RunInv, NoLines
    <3> QED
      BY <1>14, <2>1, <3>1 DEF FormatInv, ReadAgain
  <2>5. index.lines = <<>> <=> NbLines = 0
    BY <2>2
  <2>6. ASSUME queue'.running \notin Fulls, index.lines = <<>>
        PROVE  Unrecognized' \/ ~index.recorded
    <3>1. CASE run.outcome # "Successful"
      BY <1>16, <3>1 DEF NoLines
    <3>2. CASE run.outcome = "Successful" /\ ReadAgain
      BY <2>1, <2>3, <2>5, <2>6, <3>2 DEF FormatInv
    <3>3. CASE run.outcome = "Successful" /\ ~ReadAgain
      <4>1. queue.running = Partial
        BY <1>15, <3>3 DEF ReadAgain
      <4>2. Added /\ ~Still
        BY <1>3, <1>12, <3>3, <4>1 DEF Added, Still
      <4>3. told.lines = <<>>
        BY <2>2, <2>6, <4>2 DEF LinesInv
      <4> QED
        BY <2>1, <2>3, <2>5, <2>6, <3>3, <4>2, <4>3 DEF FormatInv
    <3> QED
      BY <3>1, <3>2, <3>3
  <2>7. ASSUME queue'.running \notin Fulls, index.lines # <<>>
        PROVE  Sampled'
    <3>1. NbLines > 0 /\ run.outcome = "Successful"
      BY <1>16, <2>2, <2>5, <2>7 DEF NoLines
    <3>2. SUFFICES /\ n.sampled.gen = index.lines[1]
                   /\ n.sampled.lines = n.rule.recognizedFrom /\ n.sampled.lines <= NbLines
                   /\ n.format # "None" => ~n.rule.formatPending
                   /\ n.format = "None" =>
                        IF n.rule.formatPending THEN n.sampled.lines = NbLines ELSE n.sampled.lines >= SampleDepth
      BY <1>2, <1>8, <2>2 DEF Sampled
    <3>3. CASE file.rule.formatPending /\ NbLines > file.rule.recognizedFrom
      BY <1>6, <2>2, <3>3
    <3>4. CASE ~(file.rule.formatPending /\ NbLines > file.rule.recognizedFrom)
      <4>1. /\ n.format = file.format /\ n.sampled = file.sampled
            /\ n.rule.recognizedFrom = file.rule.recognizedFrom
            /\ n.rule.formatPending <=> file.rule.formatPending
        BY <1>6, <3>4
      <4>2. ~Unrecognized
        BY <3>1, <3>4 DEF Unrecognized
      <4>3. ~ReadAgain /\ queue.running = Partial
        BY <1>15, <2>1, <4>2 DEF FormatInv, ReadAgain
      <4>4. Added /\ ~Still
        BY <1>3, <1>12, <3>1, <4>3 DEF Added, Still
      <4>5. told.lines # <<>> /\ Sampled
        BY <2>1, <4>2, <4>3, <4>4 DEF FormatInv
      <4>6. index.lines[1] = told.lines[1] /\ Len(told.lines) <= NbLines /\ Len(told.lines) \in Nat
        BY <2>2, <4>4, <4>5 DEF LinesInv
      <4> QED
        BY <2>2, <3>4, <4>1, <4>5, <4>6 DEF Sampled
    <3> QED
      BY <3>3, <3>4
  <2>8. queue'.running \in Fulls => Unrecognized'
    BY <1>7, <2>3, <2>4, <2>5
  <2> QED
    BY <2>6, <2>7, <2>8
<1>27. FieldInv'
  BY <1>2, <1>6, <1>8 DEF FieldInv, Own
<1>28. SearchesInv'
  BY <1>2, <1>6, <1>10 DEF SearchesInv, Loaded, Trusted
<1>29. FollowInv'
  <2>1. file'.refresh.state \in {"Static", "Autorefreshing"} /\ ~told'.borrowed =>
            file'.searches[file'.current].phase # "Idle" /\ file'.searches[file'.current].pattern = file'.pattern
    BY <1>2, <1>6, <1>8 DEF Own
  <2>2. file'.searches[file'.current].phase # "Idle" /\ ~told'.early /\ ~told'.borrowed => ~ReadAgain'
    <3>1. SUFFICES ASSUME n.searches[n.current].phase # "Idle", ~told'.early, ~told.borrowed
                   PROVE  queue.waiting \notin Fulls
      BY <1>2, <1>7, <1>8, <1>12 DEF ReadAgain
    <3>2. CASE load.continues \/ load.restarts \/ load.runsWaitingSearch
      BY <1>7, <1>8, <3>1, <3>2
    <3>3. CASE ~(load.continues \/ load.restarts \/ load.runsWaitingSearch)
      BY <1>6, <1>8, <3>1, <3>3 DEF FollowInv, ReadAgain
    <3> QED
      BY <3>2, <3>3
  <2>3. ~told'.early /\ ~told'.borrowed /\ ~told'.apart => Exact(n)
    BY <1>6, <1>8
  <2>4. file'.refresh.state = "Autorefreshing" /\ ~told'.early /\ ~told'.borrowed /\ ~told'.apart =>
          LET search == file'.searches[file'.current] IN
              /\ search.start = file'.limits.start /\ search.end = file'.limits.end
              /\ \A i \in 1..Len(search.seen) :
                   (i < Len(search.seen) \/ search.phase = "Complete") =>
                       search.seen[i] = index'.lines[search.start + i]
    BY <1>2, <1>10, <2>3 DEF Exact
  <2> QED
    BY <2>1, <2>2, <2>4 DEF FollowInv
<1>30. SavedMarksAreKept'
  <2>1. SUFFICES ASSUME told.marked, load.appliesMarks => NbLines > 0
                 PROVE  n.rule.savedMarks \/ \E s \in n.made : n.marks[s]
    BY <1>2, <1>8 DEF SavedMarksAreKept
  <2>2. CASE \E s \in file.made : file.marks[s]
    <3>1. file.made \subseteq Searches
      BY DEF TypeInv, FileMembers
    <3> QED
      BY <1>6, <2>2, <3>1
  <2>3. CASE file.rule.savedMarks
    BY <1>5, <1>6, <1>11, <2>1, <2>3 DEF Decides
  <2> QED
    BY <2>1, <2>2, <2>3 DEF SavedMarksAreKept
<1> QED
  BY <1>17, <1>18, <1>20, <1>21, <1>22, <1>24, <1>25, <1>26, <1>27, <1>28, <1>29, <1>30

-----------------------------------------------------------------------------
(* The Log File on disk, and the Log Data.                                 *)

\* What is said of the members alone.
LEMMA FileFrame ==
    ASSUME IInv, UNCHANGED <<file, asked, told>>
    PROVE  /\ WaitInv' /\ FieldInv' /\ SavedMarksAreKept'
BY DEF IInv, WaitInv, AskedIsKept, WaitsWith, FieldInv, SavedMarksAreKept

\* A change of the Log File changes nothing that was read of it.
LEMMA ChangedStep ==
    ASSUME IInv, Changed,
           logFile' \in [gen : Generations, lines : Lines], logFile'.gen <= counts.events + 2,
           \/ logFile'.gen = logFile.gen /\ logFile'.lines >= logFile.lines
           \/ logFile'.gen > logFile.gen
    PROVE  IInv'
<1> USE DEF IInv
<1>1. /\ counts.events < MaxEvents /\ counts' = [counts EXCEPT !["events"] = @ + 1]
      /\ unreported' = (unreported \/ watched)
      /\ UNCHANGED <<posted, watched, index, queue, run, linesBefore, file, asked, told>>
  BY DEF Changed, Once, logData
<1>2. /\ counts \in [events : Nat, calls : Nat] /\ logFile \in [gen : Generations, lines : Lines]
      /\ told.stopFile \in [gen : Generations, lines : Lines]
      /\ \A g \in Generations : g \in Nat
      /\ \A l \in Lines : l \in Nat
      /\ MaxEvents \in Nat
  BY OpenLogFileAssumption DEF TypeInv, Generations, Lines, ToldMembers
<1>3. counts' \in [events : Nat, calls : Nat] /\ counts'.events = counts.events + 1
  BY <1>1, <1>2
<1>4. unreported' \in BOOLEAN
  BY <1>1, Zenon
<1>5. NbLines' = NbLines
  BY <1>1 DEF NbLines
<1>6. TypeInv'
  BY <1>1, <1>2, <1>3, <1>4, <1>5 DEF TypeInv
<1>7. RunInv' /\ HonestInv' /\ SearchesInv'
  BY <1>1, <1>5 DEF RunInv, HonestInv, SearchesInv, Trusted
<1>8. Opening'
  BY <1>1 DEF Opening, Still, Unrecognized
<1>9. LinesInv'
  BY <1>1, <1>5 DEF LinesInv, Still, Added
<1>10. StopInv'
  <2>1. told.stopAsked =>
            /\ logFile'.gen >= told.stopFile.gen
            /\ logFile'.gen = told.stopFile.gen => logFile'.lines >= told.stopFile.lines
    BY <1>2 DEF StopInv
  <2>2. told.stopAsked /\ LoadedThen => LoadedThen'
    BY <1>1, <1>2, <1>5 DEF StopInv, LoadedThen
  <2> QED
    BY <1>1, <2>1, <2>2 DEF StopInv
<1>11. FormatInv'
  BY <1>1 DEF FormatInv, ReadAgain, Unrecognized, Sampled, Still
<1>12. FollowInv'
  BY <1>1 DEF FollowInv, ReadAgain, Still, Added
<1>13. WaitInv' /\ FieldInv' /\ SavedMarksAreKept'
  BY <1>1, FileFrame
<1> QED
  BY <1>6, <1>7, <1>8, <1>9, <1>10, <1>11, <1>12, <1>13

LEMMA DiskStep ==
    ASSUME IInv, Grow \/ Truncate
    PROVE  IInv'
<1>1. /\ logFile \in [gen : Generations, lines : Lines] /\ logFile.gen <= counts.events + 1
      /\ counts.events \in Nat /\ MaxEvents \in Nat /\ MaxLines \in Nat
  BY OpenLogFileAssumption DEF IInv, TypeInv
<1>2. CASE Grow
  <2>1. /\ logFile.lines < MaxLines /\ logFile' = [logFile EXCEPT !.lines = @ + 1] /\ Changed
    BY <1>2 DEF Grow
  <2>2. /\ logFile' \in [gen : Generations, lines : Lines] /\ logFile'.gen = logFile.gen
        /\ logFile'.lines = logFile.lines + 1 /\ logFile.lines \in Nat /\ logFile.gen \in Nat
    BY <1>1, <2>1 DEF Lines, Generations
  <2> QED
    BY <1>1, <2>1, <2>2, ChangedStep
<1>3. CASE Truncate
  <2>1. PICK n \in {0} \cup InitialLines : logFile' = [gen |-> logFile.gen + 1, lines |-> n]
    BY <1>3 DEF Truncate
  <2>2. Changed /\ counts.events < MaxEvents
    BY <1>3 DEF Truncate, Changed
  <2>3. n \in Lines /\ logFile.gen \in Nat /\ logFile.gen + 1 \in Generations
    BY <1>1, <2>1, <2>2, OpenLogFileAssumption DEF Lines, Generations
  <2>4. logFile' \in [gen : Generations, lines : Lines] /\ logFile'.gen = logFile.gen + 1
    BY <2>1, <2>3
  <2> QED
    BY <1>1, <2>2, <2>3, <2>4, ChangedStep
<1> QED
  BY <1>2, <1>3

\* What an index run leaves that was not superseded.
LEMMA IndexedFacts ==
    ASSUME TypeInv, NEW n \in Indexed
    PROVE  /\ n \in [lines : Seq(Generations), recorded : BOOLEAN] /\ Len(n.lines) \in Lines
           /\ ~n.recorded => n.lines = <<>>
           /\ queue.running = Partial =>
                /\ n.recorded /\ Len(n.lines) >= NbLines
                /\ \A i \in 1..NbLines : n.lines[i] = index.lines[i]
<1>1. /\ logFile.gen \in Generations /\ logFile.lines \in Nat /\ logFile.lines \in Lines
      /\ index.lines \in Seq(Generations) /\ NbLines \in Nat /\ NbLines \in Lines /\ NbLines = Len(index.lines)
      /\ 0 \in Lines
  BY OpenLogFileAssumption DEF TypeInv, Lines, NbLines
<1>2. CASE n \in {NoLines, [NoLines EXCEPT !.recorded = TRUE]} /\ queue.running # Partial
  <2>1. n = [lines |-> <<>>, recorded |-> FALSE] \/ n = [lines |-> <<>>, recorded |-> TRUE]
    BY <1>2 DEF NoLines
  <2>2. <<>> \in Seq(Generations) /\ Len(<<>>) = 0
    OBVIOUS
  <2>3. n.lines = <<>> /\ n.recorded \in BOOLEAN /\ n \in [lines : Seq(Generations), recorded : BOOLEAN]
    <3>1. CASE n = [lines |-> <<>>, recorded |-> FALSE]
      BY ONLY <2>2, <3>1
    <3>2. CASE n = [lines |-> <<>>, recorded |-> TRUE]
      BY ONLY <2>2, <3>2
    <3> QED
      BY ONLY <2>1, <3>1, <3>2
  <2>4. Len(n.lines) \in Lines
    BY ONLY <1>1, <2>2, <2>3
  <2> QED
    BY ONLY <1>2, <2>3, <2>4
<1>3. CASE n = [lines |-> index.lines \o SubSeq(Content, NbLines + 1, logFile.lines), recorded |-> TRUE]
  <2>1. Content \in Seq(Generations) /\ Len(Content) = logFile.lines
    <3>1. Content \in [1..logFile.lines -> Generations]
      BY <1>1 DEF Content
    <3> QED
      BY <1>1, <3>1
  <2>2. PICK rest : rest = SubSeq(Content, NbLines + 1, logFile.lines)
    OBVIOUS
  <2>3. rest \in Seq(Generations)
        /\ Len(rest) = IF NbLines < logFile.lines THEN logFile.lines - NbLines ELSE 0
    BY <1>1, <2>1, <2>2
  <2>4. /\ index.lines \o rest \in Seq(Generations)
        /\ Len(index.lines \o rest) = NbLines + Len(rest)
        /\ \A i \in 1..NbLines : (index.lines \o rest)[i] = index.lines[i]
    BY <1>1, <2>3
  <2>5. n.lines = index.lines \o rest /\ n.recorded = TRUE
    BY <1>3, <2>2
  <2>6. n \in [lines : Seq(Generations), recorded : BOOLEAN]
    BY <1>3, <2>2, <2>4
  <2>7. Len(n.lines) \in Lines
    BY <1>1, <2>3, <2>4, <2>5 DEF Lines
  <2> QED
    BY <1>1, <2>3, <2>4, <2>5, <2>6, <2>7
<1> QED
  BY <1>2, <1>3 DEF Indexed

\* An index run that begins, or ends.
LEMMA IndexRunStep ==
    ASSUME IInv, BeginFull \/ EndIndex \/ FailIndex
    PROVE  IInv'
<1> USE DEF IInv
<1>1. /\ UNCHANGED <<logFile, unreported, posted, watched, queue, linesBefore, file, asked, told>>
      /\ counts' \in [events : Nat, calls : Nat] /\ counts'.events >= counts.events /\ counts'.events <= MaxEvents
      /\ counts.events \in Nat
  <2>1. UNCHANGED <<logFile, unreported, posted, watched, queue, linesBefore, file, asked, told>>
    BY DEF BeginFull, EndIndex, FailIndex, ownerUnchanged, disk
  <2>2. counts \in [events : Nat, calls : Nat] /\ counts.events <= MaxEvents /\ MaxEvents \in Nat
    BY OpenLogFileAssumption DEF TypeInv
  <2>3. counts' = counts \/ (counts.events < MaxEvents /\ counts' = [counts EXCEPT !["events"] = @ + 1])
    BY DEF BeginFull, EndIndex, FailIndex, Once
  <2> QED
    BY <2>1, <2>2, <2>3
<1>2. queue.running \in JobsHere /\ queue.running # NoJob /\ queue.running # Check
  BY DEF TypeInv, BeginFull, EndIndex, FailIndex, FullKinds, IndexKinds, NoJob, Check
<1>3. /\ Check \notin Fulls /\ Partial \notin Fulls /\ Partial # Attach(NoEncoding) /\ NoJob \notin Fulls
      /\ Check # Attach(NoEncoding) /\ Partial # Check
      /\ queue.running \in {Partial, Attach(NoEncoding)} \cup Fulls
  BY <1>2 DEF Fulls, JobsHere, Check, Partial, Attach, NoJob, Automatic, Explicit
<1>4. \/ /\ BeginFull /\ run.at = "queued" /\ queue.running # Partial
         /\ index' = NoLines /\ run' = [run EXCEPT !.at = "reading"]
      \/ \E outcome \in LoadedOutcomes :
            /\ run' = [run EXCEPT !.at = "ended", !.outcome = outcome]
            /\ run.at = (IF queue.running = Partial THEN "queued" ELSE "reading")
            /\ \/ outcome = "Successful" /\ ~run.superseded /\ index' \in Indexed
               \/ outcome # "Successful" /\ index' = NoLines
  BY DEF BeginFull, EndIndex, FailIndex, EndRun, LoadedOutcomes, FullKinds, Partial
<1>5. PICK outcome \in LoadedOutcomes \cup {"None"} :
         \/ /\ outcome = "None" /\ run.at = "queued" /\ queue.running # Partial
            /\ index' = NoLines /\ run' = [run EXCEPT !.at = "reading"]
         \/ /\ outcome # "None" /\ run' = [run EXCEPT !.at = "ended", !.outcome = outcome]
            /\ run.at = (IF queue.running = Partial THEN "queued" ELSE "reading")
            /\ \/ outcome = "Successful" /\ ~run.superseded /\ index' \in Indexed
               \/ outcome # "Successful" /\ index' = NoLines
  BY <1>4 DEF LoadedOutcomes
<1>6. /\ run' \in [at : {"off", "queued", "reading", "ended"}, superseded : BOOLEAN,
                   outcome : {"None"} \cup LoadedOutcomes \cup CheckOutcomes]
      /\ run'.superseded = run.superseded
      /\ run'.at = IF outcome = "None" THEN "reading" ELSE "ended"
      /\ outcome # "None" => run'.outcome = outcome
      /\ run.at \in {"queued", "reading"}
  BY <1>5 DEF TypeInv
<1>7. /\ index' \in [lines : Seq(Generations), recorded : BOOLEAN] /\ NbLines' \in Lines
      /\ ~index'.recorded => index'.lines = <<>>
      /\ queue.running = Partial /\ outcome = "Successful" =>
           /\ index'.recorded /\ Len(index'.lines) >= NbLines
           /\ \A i \in 1..NbLines : index'.lines[i] = index.lines[i]
  <2>1. CASE index' \in Indexed
    BY <2>1, IndexedFacts DEF NbLines
  <2>2. CASE index' = NoLines /\ outcome # "Successful"
    <3>1. 0 \in Lines
      BY OpenLogFileAssumption DEF Lines
    <3> QED
      BY <2>2, <3>1 DEF NoLines, NbLines
  <2> QED
    BY <1>5, <2>1, <2>2
<1>8. TypeInv'
  <2>1. logFile.gen \in Nat /\ logFile.gen <= counts.events + 1
    BY DEF TypeInv, Generations
  <2>2. logFile.gen <= counts'.events + 1
    BY <1>1, <2>1
  <2> QED
    BY <1>1, <1>6, <1>7, <2>2 DEF TypeInv, NbLines
<1>9. RunInv'
  BY <1>1, <1>2, <1>3, <1>5, <1>6, <1>7 DEF RunInv, LoadedOutcomes, CheckOutcomes
<1>10. ~Still' /\ (Still => run.at = "queued") /\ (Added' => queue.running = Partial /\ outcome = "Successful")
       /\ (queue.running = Partial => Still /\ index.recorded) /\ ~Added
  BY <1>1, <1>2, <1>5, <1>6 DEF Still, Added, RunInv
<1>11. Opening'
  BY <1>1, <1>3, <1>6, <1>10 DEF Opening, NoRun, Unrecognized
<1>12. LinesInv'
  <2>1. Added' => /\ Len(told.lines) <= NbLines' /\ Len(told.lines) = NbLines
                  /\ \A i \in 1..Len(told.lines) : index'.lines[i] = told.lines[i]
    BY <1>7, <1>10 DEF LinesInv, NbLines
  <2>2. Added' => file.limits.end <= NbLines'
    <3>1. file.limits.end \in Nat /\ NbLines \in Nat /\ NbLines' \in Nat
      BY <1>7, OpenLogFileAssumption DEF TypeInv, FileMembers, Limits, Lines
    <3> QED
      BY <1>10, <2>1, <3>1 DEF LinesInv
  <2>3. ~told.narrowed => file.limits = Whole(file.rule.loadedLines)
    BY <1>6 DEF LinesInv
  <2> QED
    BY <1>1, <1>10, <2>1, <2>2, <2>3 DEF LinesInv
<1>13. HonestInv' /\ WaitInv' /\ FieldInv' /\ SavedMarksAreKept'
  BY <1>1, FileFrame DEF HonestInv
<1>14. StopInv'
  BY <1>1, <1>6 DEF StopInv, LoadedOutcomes
<1>15. FormatInv'
  <2>1. SUFFICES ASSUME ~told.reloadRaced
                 PROVE  /\ ReadAgain => Unrecognized
                        /\ queue.waiting \in Fulls /\ queue.running # Check => run'.superseded
                        /\ ~ReadAgain /\ told.lines # <<>> => Sampled
                        /\ ~ReadAgain /\ told.lines = <<>> => Unrecognized
    BY <1>1 DEF FormatInv, ReadAgain, Unrecognized, Sampled
  <2>2. queue.waiting \in Fulls => run'.superseded
    BY <1>2, <1>6, <2>1 DEF FormatInv
  <2>3. ~ReadAgain => queue.running = Partial
    BY <1>3 DEF ReadAgain
  <2> QED
    BY <1>10, <2>1, <2>2, <2>3 DEF FormatInv
<1>16. SearchesInv'
  <2>1. SUFFICES ASSUME NEW s \in Searches, Trusted' PROVE ReadFrom(file.searches[s], index'.lines)
    BY <1>1 DEF SearchesInv
  <2>2. queue.running = Partial /\ outcome = "Successful"
    BY <1>1, <1>3, <1>5, <1>6, <2>1 DEF Trusted, NoLines
  <2>3. ReadFrom(file.searches[s], index.lines)
    BY <1>6, <1>10, <2>2 DEF SearchesInv, Trusted
  <2>4. /\ file.searches[s] \in SearchMembers /\ Len(index.lines) = NbLines /\ NbLines \in Nat
        /\ Len(index'.lines) \in Nat
        /\ file.searches[s].start \in Nat /\ file.searches[s].end \in Nat /\ Len(file.searches[s].seen) \in Nat
    <3>1. file.searches[s] \in SearchMembers
      BY DEF TypeInv, FileMembers
    <3> QED
      BY <1>7, <3>1, OpenLogFileAssumption DEF TypeInv, NbLines, Lines, SearchMembers
  <2>5. Len(index'.lines) >= NbLines /\ \A i \in 1..NbLines : index'.lines[i] = index.lines[i]
    BY ONLY <1>7, <2>2
  <2>6. SUFFICES ASSUME ~file.searches[s].changed
                 PROVE  /\ \A i \in 1..(Len(file.searches[s].seen) - 1) :
                               /\ file.searches[s].start + i <= Len(index'.lines)
                               /\ file.searches[s].seen[i] = index'.lines[file.searches[s].start + i]
                        /\ file.searches[s].phase = "Running" =>
                               file.searches[s].end <= Len(index'.lines) \/ file.searches[s].end <= 1
    BY DEF ReadFrom
  <2>7. /\ \A i \in 1..(Len(file.searches[s].seen) - 1) :
               /\ file.searches[s].start + i <= Len(index.lines)
               /\ file.searches[s].seen[i] = index.lines[file.searches[s].start + i]
        /\ file.searches[s].phase = "Running" =>
               file.searches[s].end <= Len(index.lines) \/ file.searches[s].end <= 1
    BY ONLY <2>3, <2>6 DEF ReadFrom
  <2>8. ASSUME NEW i \in 1..(Len(file.searches[s].seen) - 1)
        PROVE  /\ file.searches[s].start + i <= Len(index'.lines)
               /\ file.searches[s].seen[i] = index'.lines[file.searches[s].start + i]
    <3>1. i \in Nat /\ i >= 1
      BY ONLY <2>4
    <3>2. /\ file.searches[s].start + i \in 1..NbLines
          /\ file.searches[s].start + i <= Len(index'.lines)
          /\ file.searches[s].seen[i] = index.lines[file.searches[s].start + i]
      BY ONLY <2>4, <2>5, <2>7, <2>8, <3>1
    <3> QED
      BY ONLY <2>5, <3>2
  <2>9. file.searches[s].phase = "Running" =>
            file.searches[s].end <= Len(index'.lines) \/ file.searches[s].end <= 1
    BY ONLY <2>4, <2>5, <2>7
  <2> QED
    BY ONLY <2>8, <2>9
<1>17. FollowInv'
  <2>1. SUFFICES ASSUME file.refresh.state = "Autorefreshing", ~told.early, ~told.borrowed, ~told.apart, Added',
                        NEW i \in 1..Len(file.searches[file.current].seen),
                        \/ i < Len(file.searches[file.current].seen)
                        \/ file.searches[file.current].phase = "Complete"
                 PROVE  file.searches[file.current].seen[i]
                            = index'.lines[file.searches[file.current].start + i]
    BY <1>1, <1>10 DEF FollowInv, ReadAgain
  <2>2. PICK search : search = file.searches[file.current]
    OBVIOUS
  <2>3. search \in SearchMembers /\ Shaped(search)
    BY <2>2 DEF TypeInv, FileMembers, SearchesInv
  <2>4. /\ Still /\ search.start = file.limits.start /\ search.end = file.limits.end
        /\ search.seen[i] = index.lines[search.start + i] /\ file.limits.end <= NbLines
    BY <1>10, <2>1, <2>2 DEF FollowInv, LinesInv
  <2>5. search.start + i \in 1..NbLines
    <3>1. search.start \in Nat /\ search.end \in Nat /\ NbLines \in Nat /\ Len(search.seen) \in Nat
      BY <2>3, OpenLogFileAssumption DEF SearchMembers, Lines, TypeInv
    <3>2. Len(search.seen) <= search.end - search.start /\ search.end <= NbLines
      BY <2>3, <2>4 DEF Shaped
    <3>3. i \in 1..Len(search.seen)
      BY <2>1, <2>2
    <3> QED
      BY ONLY <3>1, <3>2, <3>3
  <2> QED
    BY <1>7, <1>10, <2>1, <2>2, <2>4, <2>5
<1> QED
  BY <1>8, <1>9, <1>11, <1>12, <1>13, <1>14, <1>15, <1>16, <1>17

\* A Check compares, and changes nothing: what it finds unchanged is loaded.
LEMMA RunCheckStep ==
    ASSUME IInv, RunCheck
    PROVE  IInv'
<1> USE DEF IInv
<1>1. /\ UNCHANGED <<logFile, unreported, posted, watched, index, queue, linesBefore, file, asked, told, counts>>
      /\ run.at = "queued" /\ queue.running = Check
      /\ run' = [run EXCEPT !.at = "ended", !.outcome = IndexFit]
  BY DEF RunCheck, EndRun, ownerUnchanged, disk
<1>2. IndexFit \in CheckOutcomes
  BY DEF IndexFit, CheckOutcomes
<1>3. /\ run' \in [at : {"off", "queued", "reading", "ended"}, superseded : BOOLEAN,
                   outcome : {"None"} \cup LoadedOutcomes \cup CheckOutcomes]
      /\ run'.at = "ended" /\ run'.outcome = IndexFit
  BY <1>1, <1>2 DEF TypeInv
<1>4. Still /\ Still' /\ ~Added /\ ~Added' /\ NbLines' = NbLines
  BY <1>1, <1>3 DEF Still, Added, NbLines, Check, Partial
<1>5. TypeInv'
  BY <1>1, <1>3, <1>4 DEF TypeInv
<1>6. RunInv'
  BY <1>1, <1>2, <1>3, <1>4 DEF RunInv, CheckOutcomes, IndexFit
<1>7. Opening'
  BY <1>1, <1>3, <1>4 DEF Opening, NoRun, Unrecognized
<1>8. LinesInv'
  BY <1>1, <1>4 DEF LinesInv
<1>9. HonestInv' /\ WaitInv' /\ FieldInv' /\ SavedMarksAreKept'
  BY <1>1, FileFrame DEF HonestInv
<1>10. StopInv'
  <2>1. ASSUME IndexFit = "Unchanged", told.stopAsked PROVE LoadedThen
    <3>1. IsPrefix(index.lines, Content) /\ ~(NbLines < logFile.lines)
      BY <2>1 DEF IndexFit
    <3>2. /\ index.lines \in Seq(Generations) /\ NbLines \in Nat /\ logFile.lines \in Nat
          /\ logFile.gen \in Nat /\ told.stopFile.gen \in Nat /\ told.stopFile.lines \in Nat
          /\ NbLines = Len(index.lines)
      BY OpenLogFileAssumption DEF TypeInv, NbLines, Lines, Generations, ToldMembers
    <3>3. Content \in [1..logFile.lines -> {logFile.gen}]
      BY DEF Content
    <3>4. Content \in Seq({logFile.gen}) /\ Len(Content) = logFile.lines
      BY <3>2, <3>3
    <3>5. NbLines <= logFile.lines /\ SubSeq(index.lines, 1, NbLines) = SubSeq(Content, 1, NbLines)
      BY <3>1, <3>2, <3>4 DEF IsPrefix
    <3>6. \A i \in 1..NbLines : index.lines[i] = logFile.gen
      <4>1. PICK a, b : a = SubSeq(index.lines, 1, NbLines) /\ b = SubSeq(Content, 1, NbLines)
        OBVIOUS
      <4>2. \A i \in 1..NbLines : a[i] = index.lines[i]
        BY ONLY <3>2, <4>1
      <4>3. \A i \in 1..NbLines : b[i] = Content[i] /\ Content[i] = logFile.gen
        BY ONLY <3>2, <3>4, <3>5, <4>1 DEF Content
      <4>4. a = b
        BY ONLY <3>5, <4>1, Zenon
      <4>5. ASSUME NEW i \in 1..NbLines
            PROVE  index.lines[i] = logFile.gen
        <5>1. a[i] = index.lines[i] /\ b[i] = logFile.gen
          BY <4>2, <4>3
        <5> QED
          BY <4>4, <5>1
      <4> QED
        BY <4>5
    <3> QED
      BY <2>1, <3>1, <3>2, <3>6 DEF LoadedThen, StopInv
  <2>2. LoadedThen' <=> LoadedThen
    BY <1>1 DEF LoadedThen, NbLines
  <2> QED
    BY <1>1, <1>3, <2>1, <2>2 DEF StopInv
<1>11. FormatInv'
  BY <1>1, <1>4 DEF FormatInv, ReadAgain, Unrecognized, Sampled
<1>12. SearchesInv'
  BY <1>1, <1>3 DEF SearchesInv, Trusted, Fulls, Check, Automatic, Explicit, Attach
<1>13. FollowInv'
  BY <1>1, <1>4 DEF FollowInv, ReadAgain
<1> QED
  BY <1>5, <1>6, <1>7, <1>8, <1>9, <1>10, <1>11, <1>12, <1>13

-----------------------------------------------------------------------------
(* What its users call about its Searches.                                 *)

\* What such a call leaves of what was told.
ToldOthers(n, t) ==
    /\ n.lines = t.lines /\ n.stopped = t.stopped /\ n.stopFile = t.stopFile
    /\ n.honest <=> t.honest
    /\ n.stoppedRight <=> t.stoppedRight
    /\ n.stopAsked <=> t.stopAsked
    /\ n.raced <=> t.raced
    /\ n.reloadRaced <=> t.reloadRaced

CallsSearch ==
    /\ UNCHANGED <<disk, index, queue, linesBefore>> /\ run' \in {run, Interrupted(run)}
    /\ Once("calls") \/ counts' = counts
    /\ file' \in FileMembers /\ file'.current \in file'.made
    /\ file'.opened <=> file.opened
    /\ file'.format = file.format /\ file'.sampled = file.sampled
    /\ RuleOthers(file'.rule, file.rule)
    /\ told' \in ToldMembers /\ ToldOthers(told', told)
    /\ asked' \in [Searches -> Known]

\* It touches no Log Line, and no decision of the Load Rule but for the Search.
LEMMA CallFrame ==
    ASSUME IInv, CallsSearch
    PROVE  /\ TypeInv' /\ RunInv' /\ Opening' /\ HonestInv' /\ StopInv' /\ FormatInv'
           /\ file'.limits = file.limits /\ (told'.narrowed <=> told.narrowed) => LinesInv'
           /\ (Still' <=> Still) /\ (Added' <=> Added) /\ (Trusted' <=> Trusted) /\ (ReadAgain' <=> ReadAgain)
           /\ NbLines' = NbLines
<1> USE DEF IInv
<1>1. /\ UNCHANGED <<logFile, unreported, posted, watched, index, queue, linesBefore>>
  BY DEF CallsSearch, disk
<1>12. /\ run' \in [at : {"off", "queued", "reading", "ended"}, superseded : BOOLEAN,
                    outcome : {"None"} \cup LoadedOutcomes \cup CheckOutcomes]
       /\ run'.at = run.at /\ run'.outcome = run.outcome
       /\ (run.superseded => run'.superseded)
       /\ run.at = "off" => run' = run
       /\ run.at = "ended" => (run'.superseded <=> run.superseded)
  <2>1. PICK r : r = [run EXCEPT !.superseded = TRUE]
    OBVIOUS
  <2>2. run' = run \/ (run' = r /\ run.at \in {"queued", "reading"})
    BY <2>1, Zenon DEF CallsSearch, Interrupted
  <2> QED
    BY <2>1, <2>2 DEF TypeInv
<1>2. /\ file' \in FileMembers /\ file'.current \in file'.made
      /\ (file'.opened <=> file.opened)
      /\ file'.format = file.format /\ file'.sampled = file.sampled
      /\ RuleOthers(file'.rule, file.rule)
      /\ told' \in ToldMembers /\ ToldOthers(told', told)
      /\ asked' \in [Searches -> Known]
  BY DEF CallsSearch
<1>3. /\ (Still' <=> Still) /\ (Added' <=> Added) /\ (Trusted' <=> Trusted) /\ (ReadAgain' <=> ReadAgain)
      /\ NbLines' = NbLines
  BY <1>12, <1>1 DEF Still, Added, Trusted, ReadAgain, NbLines
<1>4. TypeInv'
  <2>1. counts' \in [events : Nat, calls : Nat] /\ counts'.events = counts.events
    BY DEF TypeInv, CallsSearch, Once
  <2> QED
    BY <1>12, <1>1, <1>2, <1>3, <2>1 DEF TypeInv
<1>5. RunInv'
  BY <1>12, <1>1, <1>3 DEF RunInv
<1>6. Unrecognized' <=> Unrecognized
  BY <1>2 DEF Unrecognized, RuleOthers
<1>7. Opening'
  BY <1>12, <1>1, <1>2, <1>3, <1>6 DEF Opening, RuleOthers, ToldOthers, NoRun
<1>8. HonestInv'
  BY <1>1, <1>2 DEF HonestInv, RuleOthers, ToldOthers
<1>9. StopInv'
  <2>1. LoadedThen' <=> LoadedThen
    BY <1>1, <1>2, <1>3 DEF LoadedThen, ToldOthers
  <2> QED
    BY <1>12, <1>1, <1>2, <2>1 DEF StopInv, RuleOthers, ToldOthers
<1>10. FormatInv'
  <2>1. Sampled' <=> Sampled
    BY <1>2 DEF Sampled, RuleOthers, ToldOthers
  <2> QED
    BY <1>12, <1>1, <1>2, <1>3, <1>6, <2>1 DEF FormatInv, ToldOthers
<1>11. file'.limits = file.limits /\ (told'.narrowed <=> told.narrowed) => LinesInv'
  BY <1>12, <1>1, <1>2, <1>3 DEF LinesInv, RuleOthers, ToldOthers
<1> QED
  BY <1>3, <1>4, <1>5, <1>7, <1>8, <1>9, <1>10, <1>11

\* A Search requested by its users is one of the Log Lines there are, too.
LEMMA RequestNow ==
    ASSUME IInv, NEW s \in Searches, NEW p \in Known
    PROVE  LET n == Request(file.searches[s], p, file.limits, file.format) IN
           /\ n \in SearchMembers /\ Shaped(n) /\ n.phase \in {"Running", "InvalidPattern"}
           /\ n.pattern = p /\ n.start = file.limits.start /\ n.end = file.limits.end
           /\ n.reader = IF p \in FieldPatterns THEN file.format ELSE "None"
           /\ Trusted => ReadFrom(n, index.lines)
           /\ Still \/ Added => \A i \in 1..(Len(n.seen) - 1) : n.seen[i] = index.lines[n.start + i]
<1> USE DEF IInv
<1>1. /\ file.searches[s] \in SearchMembers /\ file.limits \in Limits /\ file.format \in FormatNames
      /\ Shaped(file.searches[s])
  BY DEF TypeInv, FileMembers, SearchesInv
<1>2. file.limits.start <= file.limits.end /\ file.limits.start \in Nat /\ file.limits.end \in Nat /\ NbLines \in Nat
  BY <1>1, OpenLogFileAssumption DEF LinesInv, Limits, Lines, Whole, TypeInv
<1>3. PICK n : n = Request(file.searches[s], p, file.limits, file.format)
  OBVIOUS
<1>4. /\ n \in SearchMembers /\ Shaped(n) /\ n.phase \in {"Running", "InvalidPattern"}
      /\ n.pattern = p /\ n.start = file.limits.start /\ n.end = file.limits.end
      /\ n.reader = IF p \in FieldPatterns THEN file.format ELSE "None"
      /\ \A lines : ReadFrom(file.searches[s], lines) /\ file.limits.end <= Len(lines) =>
           /\ ReadFrom(n, lines)
           /\ \A i \in 1..(Len(n.seen) - 1) : n.seen[i] = lines[n.start + i]
      /\ file.limits.end = 0 => n.seen = <<>>
  BY <1>1, <1>2, <1>3, RequestFacts
<1>5. Trusted => Still \/ Added
  BY DEF Trusted, Still, Added, RunInv, TypeInv, JobsHere, Fulls, NoLines, LoadedOutcomes, CheckOutcomes
<1>6. CASE Trusted
  <2>1. ReadFrom(file.searches[s], index.lines) /\ file.limits.end <= Len(index.lines)
    BY <1>5, <1>6 DEF SearchesInv, LinesInv, NbLines
  <2> QED
    BY <1>3, <1>4, <2>1
<1>7. CASE ~Trusted
  <2>1. Still \/ Added => index.lines = <<>>
    BY <1>7 DEF Trusted, Still, Added, RunInv, Fulls, Check, Attach, Automatic, Explicit, Partial
  <2>2. Still \/ Added => n.seen = <<>>
    BY <1>2, <1>4, <2>1 DEF LinesInv, NbLines
  <2> QED
    BY <1>3, <1>4, <1>7, <2>2
<1> QED
  BY <1>6, <1>7

\* The current Search is left, for one of those made by then.
Left(s, made) ==
    [KeepWaitingSearch(file) EXCEPT
        !.rule = WaitingSearchDropped(@), !.searches[file.current] = Stop(@), !.made = made, !.current = s]

LEMMA LeftFacts ==
    ASSUME TypeInv, SearchesInv, NEW s \in Searches, NEW made \in SUBSET Searches
    PROVE  LET n == Left(s, made) IN
           /\ n \in FileMembers /\ (n.opened <=> file.opened)
           /\ n.rule = WaitingSearchDropped(file.rule) /\ n.refresh = file.refresh
           /\ n.made = made /\ n.current = s /\ n.pattern = file.pattern
           /\ n.heldBefore = file.heldBefore /\ n.heldAfter = file.heldAfter
           /\ n.limits = file.limits /\ n.marks = file.marks
           /\ n.format = file.format /\ n.sampled = file.sampled
           /\ \A t \in Searches :
                /\ n.waiting[t] = IF t = file.current /\ file.rule.searchWaits THEN file.pattern ELSE file.waiting[t]
                /\ n.searches[t] = IF t = file.current THEN Stop(file.searches[t]) ELSE file.searches[t]
<1>1. file \in FileMembers /\ file.rule \in Rules(Lines) /\ file.current \in Searches /\ file.pattern \in Known
      /\ file.waiting \in [Searches -> Known] /\ file.searches \in [Searches -> SearchMembers]
  BY DEF TypeInv, FileMembers
<1>2. PICK w : w = IF file.rule.searchWaits THEN [file.waiting EXCEPT ![file.current] = file.pattern] ELSE file.waiting
  OBVIOUS
<1>3. /\ w \in [Searches -> Known]
      /\ \A t \in Searches :
            w[t] = IF t = file.current /\ file.rule.searchWaits THEN file.pattern ELSE file.waiting[t]
  <2>1. CASE file.rule.searchWaits
    BY <1>1, <1>2, <2>1
  <2>2. CASE ~file.rule.searchWaits
    BY <1>1, <1>2, <2>2
  <2> QED
    BY <2>1, <2>2
<1>4. PICK k : k = KeepWaitingSearch(file)
  OBVIOUS
<1>5. k = [file EXCEPT !.waiting = w]
  <2>1. CASE file.rule.searchWaits
    BY <1>1, <1>2, <1>4, <2>1 DEF KeepWaitingSearch, FileMembers
  <2>2. CASE ~file.rule.searchWaits
    BY <1>1, <1>2, <1>4, <2>2 DEF KeepWaitingSearch, FileMembers
  <2> QED
    BY <2>1, <2>2
<1>6. /\ k \in FileMembers /\ k.waiting = w /\ (k.opened <=> file.opened) /\ k.rule = file.rule
      /\ k.refresh = file.refresh /\ k.searches = file.searches /\ k.pattern = file.pattern
      /\ k.heldBefore = file.heldBefore /\ k.heldAfter = file.heldAfter
      /\ k.limits = file.limits /\ k.marks = file.marks /\ k.format = file.format /\ k.sampled = file.sampled
  BY ONLY <1>1, <1>3, <1>5 DEF FileMembers
<1>7. PICK h : h = [file.searches EXCEPT ![file.current] = Stop(file.searches[file.current])]
  OBVIOUS
<1>8. /\ h \in [Searches -> SearchMembers]
      /\ \A t \in Searches : h[t] = IF t = file.current THEN Stop(file.searches[t]) ELSE file.searches[t]
  <2>1. Stop(file.searches[file.current]) \in SearchMembers
    BY <1>1, StopFacts DEF SearchesInv
  <2> QED
    BY <1>1, <1>7, <2>1
<1>9. PICK r : r = WaitingSearchDropped(file.rule)
  OBVIOUS
<1>10. r \in Rules(Lines)
  BY <1>1, <1>9, RuleFacts
<1>11. PICK n : n = Left(s, made)
  OBVIOUS
<1>12. n = [k EXCEPT !.rule = r, !.searches = h, !.made = made, !.current = s]
  <2>1. n = [k EXCEPT !.rule = WaitingSearchDropped(k.rule),
                      !.searches = [k.searches EXCEPT ![file.current] = Stop(k.searches[file.current])],
                      !.made = made, !.current = s]
    BY <1>4, <1>6, <1>11 DEF Left, FileMembers
  <2> QED
    BY ONLY <1>6, <1>7, <1>9, <2>1, Zenon
<1>13. /\ n \in FileMembers /\ n.waiting = k.waiting /\ (n.opened <=> k.opened) /\ n.rule = r
       /\ n.refresh = k.refresh /\ n.searches = h /\ n.pattern = k.pattern
       /\ n.made = made /\ n.current = s
       /\ n.heldBefore = k.heldBefore /\ n.heldAfter = k.heldAfter
       /\ n.limits = k.limits /\ n.marks = k.marks /\ n.format = k.format /\ n.sampled = k.sampled
  BY ONLY <1>6, <1>8, <1>10, <1>12, s \in Searches, made \in SUBSET Searches DEF FileMembers
<1> QED
  BY <1>3, <1>6, <1>8, <1>9, <1>11, <1>13

\* What the two calls have in common that leave the current Search.
LEMMA LeftStep ==
    ASSUME IInv, UNCHANGED <<searchCall, asked>>, Once("calls"), told' = [told EXCEPT !.borrowed = TRUE],
           NEW s \in Searches \ {file.current}, NEW made \in SUBSET Searches,
           file.made \subseteq made, made \subseteq file.made \cup {s}, s \in made,
           \/ file' = Left(s, made) /\ file.waiting[s] = NoPattern
           \/ /\ file.waiting[s] # NoPattern
              /\ file' = [Left(s, made) EXCEPT !.pattern = file.waiting[s], !.waiting[s] = NoPattern,
                                               !.rule = SearchRequested(@)]
    PROVE  IInv'
<1> USE DEF IInv
<1>1. PICK n : n = Left(s, made)
  OBVIOUS
<1>2. /\ n \in FileMembers /\ (n.opened <=> file.opened)
      /\ n.rule = WaitingSearchDropped(file.rule) /\ n.refresh = file.refresh
      /\ n.made = made /\ n.current = s /\ n.pattern = file.pattern
      /\ n.heldBefore = file.heldBefore /\ n.heldAfter = file.heldAfter
      /\ n.limits = file.limits /\ n.marks = file.marks
      /\ n.format = file.format /\ n.sampled = file.sampled
      /\ \A t \in Searches :
           /\ n.waiting[t] = IF t = file.current /\ file.rule.searchWaits THEN file.pattern ELSE file.waiting[t]
           /\ n.searches[t] = IF t = file.current THEN Stop(file.searches[t]) ELSE file.searches[t]
  BY <1>1, LeftFacts
<1>3. /\ file.rule \in Rules(Lines) /\ file.waiting \in [Searches -> Known] /\ file \in FileMembers
      /\ n.rule \in Rules(Lines) /\ n.waiting \in [Searches -> Known]
  BY <1>2 DEF TypeInv, FileMembers
<1>4. /\ RuleOthers(n.rule, file.rule) /\ ~n.rule.searchWaits
      /\ n.rule.searchRequested <=> file.rule.searchRequested
  <2>1. PICK r : r = WaitingSearchDropped(file.rule)
    OBVIOUS
  <2>2. RuleOthers(r, file.rule) /\ ~r.searchWaits /\ (r.searchRequested <=> file.rule.searchRequested)
    BY <1>3, <2>1, RuleFacts
  <2>3. n.rule = r
    BY <1>2, <2>1
  <2> QED
    BY <2>2, <2>3
<1>5. PICK m : m = file'
  OBVIOUS
<1>6. /\ m \in FileMembers /\ (m.opened <=> file.opened) /\ RuleOthers(m.rule, file.rule)
      /\ m.refresh = file.refresh /\ m.made = made /\ m.current = s
      /\ m.heldBefore = file.heldBefore /\ m.heldAfter = file.heldAfter /\ m.limits = file.limits
      /\ m.marks = file.marks /\ m.format = file.format /\ m.sampled = file.sampled /\ m.searches = n.searches
      /\ \A t \in Searches : m.waiting[t] = IF t = s THEN NoPattern ELSE n.waiting[t]
      /\ \/ file.waiting[s] = NoPattern /\ ~m.rule.searchWaits
         \/ /\ file.waiting[s] # NoPattern /\ m.pattern = file.waiting[s]
            /\ m.rule.searchWaits <=> ~file.rule.loadFinishedOnce
  <2>1. CASE m = n /\ file.waiting[s] = NoPattern
    BY <1>2, <1>4, <2>1
  <2>2. CASE /\ file.waiting[s] # NoPattern
             /\ m = [n EXCEPT !.pattern = file.waiting[s], !.waiting[s] = NoPattern, !.rule = SearchRequested(@)]
    <3>1. PICK w : w = [n.waiting EXCEPT ![s] = NoPattern]
      OBVIOUS
    <3>2. w \in [Searches -> Known] /\ \A t \in Searches : w[t] = IF t = s THEN NoPattern ELSE n.waiting[t]
      BY <1>3, <3>1 DEF Known
    <3>3. PICK r : r = SearchRequested(n.rule)
      OBVIOUS
    <3>4. /\ r \in Rules(Lines) /\ RuleOthers(r, n.rule)
          /\ r.searchWaits <=> n.rule.searchWaits \/ ~n.rule.loadFinishedOnce
      BY <1>3, <3>3, RuleFacts
    <3>5. PICK p \in Known : p = file.waiting[s]
      BY <1>3
    <3>6. m = [n EXCEPT !.pattern = p, !.waiting = w, !.rule = r]
      BY <1>2, <2>2, <3>1, <3>3, <3>5 DEF FileMembers
    <3>7. /\ m \in FileMembers /\ (m.opened <=> n.opened) /\ m.rule = r /\ m.waiting = w /\ m.pattern = p
          /\ m.refresh = n.refresh /\ m.made = n.made /\ m.current = n.current
          /\ m.heldBefore = n.heldBefore /\ m.heldAfter = n.heldAfter /\ m.limits = n.limits
          /\ m.marks = n.marks /\ m.format = n.format /\ m.sampled = n.sampled /\ m.searches = n.searches
      BY ONLY <1>2, <3>2, <3>4, <3>6 DEF FileMembers
    <3>8. RuleOthers(r, file.rule) /\ (r.searchWaits <=> ~file.rule.loadFinishedOnce)
      BY <1>4, <3>4 DEF RuleOthers
    <3> QED
      BY <1>2, <2>2, <3>2, <3>5, <3>7, <3>8
  <2> QED
    BY <1>1, <1>5, <2>1, <2>2
<1>7. told' \in ToldMembers /\ ToldOthers(told', told) /\ told'.borrowed
      /\ (told'.marked <=> told.marked) /\ (told'.narrowed <=> told.narrowed)
  BY DEF TypeInv, ToldMembers, ToldOthers
<1>8. CallsSearch
  BY <1>5, <1>6, <1>7 DEF CallsSearch, searchCall, logData, TypeInv
<1>9. /\ TypeInv' /\ RunInv' /\ Opening' /\ HonestInv' /\ StopInv' /\ FormatInv' /\ LinesInv'
      /\ Trusted' <=> Trusted
  BY <1>5, <1>6, <1>7, <1>8, CallFrame
<1>10. asked' = asked /\ index' = index
  BY DEF searchCall, logData
<1>11. \A t \in Searches : m.searches[t].phase = "Idle" <=> file.searches[t].phase = "Idle"
  <2> TAKE t \in Searches
  <2>1. file.searches[t] \in SearchMembers /\ Shaped(file.searches[t])
    BY <1>3 DEF SearchesInv, FileMembers
  <2> QED
    BY <1>2, <1>6, <2>1, StopFacts
<1>12. SearchesInv'
  <2> SUFFICES ASSUME NEW t \in Searches
               PROVE  Shaped(m.searches[t]) /\ (Trusted => ReadFrom(m.searches[t], index.lines))
    BY <1>5, <1>9, <1>10 DEF SearchesInv
  <2>1. /\ file.searches[t] \in SearchMembers /\ Shaped(file.searches[t])
        /\ Trusted => ReadFrom(file.searches[t], index.lines)
    BY <1>3 DEF SearchesInv, FileMembers
  <2> QED
    BY <1>2, <1>6, <2>1, StopFacts
<1>13. WaitInv'
  <2>1. /\ m.rule.loadFinishedOnce <=> file.rule.loadFinishedOnce
        /\ file.rule.loadFinishedOnce => file.waiting[s] = NoPattern
    BY <1>6 DEF RuleOthers, WaitInv
  <2>2. ~m.rule.loadFinishedOnce =>
          /\ \A t \in Searches : m.searches[t].phase = "Idle" /\ m.heldAfter[t] = NoPattern
          /\ m.refresh.state = "NoSearch"
    BY <1>6, <1>11, <2>1 DEF WaitInv
  <2>3. m.rule.loadFinishedOnce =>
          ~m.rule.searchWaits /\ (\A t \in Searches : m.waiting[t] = NoPattern) /\ m.heldBefore = {}
    BY <1>2, <1>6, <2>1 DEF WaitInv
  <2>4. \A t \in Searches \ m.made :
          /\ m.searches[t] = Idle
          /\ m.waiting[t] = NoPattern /\ m.heldAfter[t] = NoPattern /\ asked[t] = NoPattern
    BY <1>2, <1>6 DEF WaitInv, TypeInv
  <2>5. \A t \in Searches : asked[t] # NoPattern => WaitsWith(m, t) = asked[t]
    <3> SUFFICES ASSUME NEW t \in Searches, asked[t] # NoPattern
                 PROVE  WaitsWith(m, t) = asked[t]
      OBVIOUS
    <3>1. WaitsWith(file, t) = asked[t] /\ asked[t] # NoPattern
      BY DEF WaitInv, AskedIsKept
    <3> QED
      BY <1>2, <1>6, <2>1, <3>1 DEF WaitsWith, WaitInv
  <2>6. m.waiting[m.current] = NoPattern
    BY <1>6
  <2>7. \A t \in Searches : asked[t] # NoPattern => m.searches[t].phase = "Idle"
    BY <1>11 DEF WaitInv
  <2> QED
    BY <1>5, <1>7, <1>10, <2>2, <2>3, <2>4, <2>5, <2>6, <2>7 DEF WaitInv, AskedIsKept
<1>14. FieldInv' /\ FollowInv'
  BY <1>7 DEF FieldInv, FollowInv
<1>15. SavedMarksAreKept'
  BY <1>5, <1>6, <1>7 DEF SavedMarksAreKept, RuleOthers
<1> QED
  BY <1>9, <1>12, <1>13, <1>14, <1>15

LEMMA LeavingStep ==
    ASSUME IInv, StartAnotherSearch \/ MakeSearchCurrent
    PROVE  IInv'
<1>1. TypeInv /\ file \in FileMembers /\ file.current \in file.made /\ file.made \subseteq Searches
  BY DEF IInv, TypeInv, FileMembers
<1>2. CASE StartAnotherSearch
  <2>1. PICK s \in Searches \ file.made :
           file' = [KeepWaitingSearch(file) EXCEPT
                       !.rule = WaitingSearchDropped(@), !.searches[file.current] = Stop(@),
                       !.made = @ \cup {s}, !.current = s]
    BY <1>2, Zenon DEF StartAnotherSearch
  <2>2. Once("calls") /\ told' = [told EXCEPT !.borrowed = TRUE] /\ UNCHANGED <<searchCall, asked>>
    BY <1>2 DEF StartAnotherSearch, Called
  <2>3. KeepWaitingSearch(file).made = file.made
    BY <1>1 DEF KeepWaitingSearch, FileMembers
  <2>4. PICK made : made = file.made \cup {s}
    OBVIOUS
  <2>5. file' = Left(s, made)
    BY <2>1, <2>3, <2>4 DEF Left
  <2>6. file.waiting[s] = NoPattern /\ s # file.current
    BY <1>1 DEF IInv, WaitInv
  <2>7. made \in SUBSET Searches /\ file.made \subseteq made /\ made \subseteq file.made \cup {s} /\ s \in made
    BY <1>1, <2>4
  <2> QED
    BY <2>2, <2>5, <2>6, <2>7, LeftStep
<1>3. CASE MakeSearchCurrent
  <2>1. PICK s \in file.made \ {file.current} :
           LET made == [KeepWaitingSearch(file) EXCEPT
                           !.rule = WaitingSearchDropped(@), !.searches[file.current] = Stop(@),
                           !.current = s]
           IN  file' = IF made.waiting[s] = NoPattern THEN made
                       ELSE [made EXCEPT !.pattern = made.waiting[s], !.waiting[s] = NoPattern,
                                         !.rule = SearchRequested(@)]
    BY <1>3, Zenon DEF MakeSearchCurrent
  <2>2. Once("calls") /\ told' = [told EXCEPT !.borrowed = TRUE] /\ UNCHANGED <<searchCall, asked>>
    BY <1>3 DEF MakeSearchCurrent, Called
  <2>3. PICK n : n = Left(s, file.made)
    OBVIOUS
  <2>4. n = [KeepWaitingSearch(file) EXCEPT
                !.rule = WaitingSearchDropped(@), !.searches[file.current] = Stop(@), !.current = s]
    <3>1. PICK k : k = KeepWaitingSearch(file)
      OBVIOUS
    <3>2. k \in [{"opened", "rule", "refresh", "searches", "made", "current", "pattern", "waiting", "heldBefore",
                  "heldAfter", "limits", "marks", "format", "sampled"} -> UNION {{k[x]} : x \in DOMAIN k}]
          /\ k.made = file.made
      BY <1>1, <3>1 DEF KeepWaitingSearch, FileMembers
    <3> QED
      BY <2>3, <3>1, <3>2 DEF Left
  <2>5. file' = IF n.waiting[s] = NoPattern THEN n
                ELSE [n EXCEPT !.pattern = n.waiting[s], !.waiting[s] = NoPattern, !.rule = SearchRequested(@)]
    BY ONLY <2>1, <2>4
  <2>6. s \in Searches \ {file.current} /\ n.waiting[s] = file.waiting[s]
    BY <1>1, <2>3, LeftFacts DEF IInv
  <2>7. \/ file' = n /\ file.waiting[s] = NoPattern
        \/ /\ file.waiting[s] # NoPattern
           /\ file' = [n EXCEPT !.pattern = file.waiting[s], !.waiting[s] = NoPattern, !.rule = SearchRequested(@)]
    BY ONLY <2>5, <2>6, Zenon
  <2> QED
    BY <1>1, <2>2, <2>3, <2>6, <2>7, LeftStep
<1> QED
  BY <1>2, <1>3

\* A call about another Search leaves what is said of the current one.
LEMMA OtherSearchFrame ==
    ASSUME IInv, CallsSearch, NEW m, m = file',
           m.current = file.current, m.searches[m.current] = file.searches[m.current],
           m.refresh = file.refresh, m.rule = file.rule, m.pattern = file.pattern, m.limits = file.limits,
           told'.early <=> told.early, told'.borrowed <=> told.borrowed,
           told'.apart <=> told.apart, told'.narrowed <=> told.narrowed
    PROVE  FieldInv' /\ FollowInv' /\ LinesInv'
<1> USE DEF IInv
<1>1. /\ (Still' <=> Still) /\ (Added' <=> Added) /\ (ReadAgain' <=> ReadAgain) /\ index' = index
      /\ LinesInv' /\ m.format = file.format
  BY CallFrame DEF CallsSearch, logData
<1>2. FieldInv'
  BY <1>1 DEF FieldInv
<1>3. FollowInv'
  BY <1>1 DEF FollowInv
<1> QED
  BY <1>1, <1>2, <1>3

LEMMA RequestKeptSearchStep ==
    ASSUME IInv, RequestKeptSearch
    PROVE  IInv'
<1> USE DEF IInv
<1>1. /\ file \in FileMembers /\ file.current \in file.made /\ file.made \subseteq Searches
      /\ file.rule \in Rules(Lines) /\ file.waiting \in [Searches -> Known] /\ asked \in [Searches -> Known]
      /\ Patterns \subseteq Known /\ NoPattern \in Known
  BY DEF TypeInv, FileMembers, Known
<1>2. PICK s \in file.made \ {file.current}, p \in Patterns :
        /\ file' = IF file.rule.loadFinishedOnce
                   THEN RequestOn([StopHolding(file, s) EXCEPT !.waiting[s] = NoPattern], s, p)
                   ELSE [StopHolding(file, s) EXCEPT !.waiting[s] = p]
        /\ asked' = [asked EXCEPT ![s] = IF file.rule.loadFinishedOnce THEN NoPattern ELSE p]
  BY Zenon DEF RequestKeptSearch
<1>3. Once("calls") /\ UNCHANGED <<searchCall, told>>
  BY DEF RequestKeptSearch, Called
<1>4. PICK free : free = StopHolding(file, s)
  OBVIOUS
<1>5. /\ free \in FileMembers /\ Others(free, file) /\ free.rule = file.rule /\ free.refresh = file.refresh
      /\ free.searches = file.searches /\ free.pattern = file.pattern
      /\ free.heldBefore = file.heldBefore \ {s}
      /\ \A t \in Searches : free.heldAfter[t] = IF t = s THEN NoPattern ELSE file.heldAfter[t]
  BY <1>1, <1>4, StopHoldingFacts
<1>6. PICK q \in Known : q = IF file.rule.loadFinishedOnce THEN NoPattern ELSE p
  BY <1>1
<1>7. PICK w : w = [file.waiting EXCEPT ![s] = q]
  OBVIOUS
<1>8. w \in [Searches -> Known] /\ \A t \in Searches : w[t] = IF t = s THEN q ELSE file.waiting[t]
  BY <1>1, <1>7
<1>9. PICK g : g = [free EXCEPT !.waiting = w]
  OBVIOUS
<1>10. /\ g \in FileMembers /\ g.waiting = w /\ (g.opened <=> free.opened) /\ g.rule = free.rule
       /\ g.refresh = free.refresh /\ g.searches = free.searches /\ g.made = free.made
       /\ g.current = free.current /\ g.pattern = free.pattern /\ g.heldBefore = free.heldBefore
       /\ g.heldAfter = free.heldAfter /\ g.limits = free.limits /\ g.marks = free.marks
       /\ g.format = free.format /\ g.sampled = free.sampled
  BY ONLY <1>5, <1>8, <1>9 DEF FileMembers
<1>11. g = [free EXCEPT !.waiting[s] = q]
  BY <1>5, <1>7, <1>9 DEF Others, FileMembers
<1>12. file' = IF file.rule.loadFinishedOnce THEN RequestOn(g, s, p) ELSE g
  BY ONLY <1>2, <1>4, <1>6, <1>11, Zenon
<1>13. PICK m : m = file'
  OBVIOUS
<1>14. PICK n : n = Request(file.searches[s], p, file.limits, file.format)
  OBVIOUS
<1>15. /\ n \in SearchMembers /\ Shaped(n) /\ n.phase \in {"Running", "InvalidPattern"}
       /\ Trusted => ReadFrom(n, index.lines)
  BY <1>1, <1>14, RequestNow
<1>16. /\ m \in FileMembers /\ Others(m, g) /\ m.rule = g.rule /\ m.refresh = g.refresh
       /\ m.pattern = g.pattern /\ m.heldBefore = g.heldBefore /\ m.heldAfter = g.heldAfter
       /\ \A t \in Searches : m.searches[t] = IF t = s /\ file.rule.loadFinishedOnce THEN n ELSE file.searches[t]
  <2>1. CASE file.rule.loadFinishedOnce
    <3>1. SearchesShaped(g) /\ g.limits.start <= g.limits.end
      <4>1. file.limits.start <= file.limits.end
        BY <1>1, OpenLogFileAssumption DEF LinesInv, Limits, Lines, Whole, FileMembers
      <4> QED
        BY <1>5, <1>10, <4>1 DEF SearchesInv, SearchesShaped, Others
    <3>2. s \in Searches /\ p \in Known
      BY <1>1
    <3>3. m = RequestOn(g, s, p)
      BY <1>12, <1>13, <2>1
    <3>4. /\ m \in FileMembers /\ Others(m, g) /\ m.rule = g.rule /\ m.refresh = g.refresh
          /\ m.pattern = g.pattern /\ m.heldBefore = g.heldBefore /\ m.heldAfter = g.heldAfter
          /\ \A t \in Searches : m.searches[t] = IF t = s THEN Request(g.searches[s], p, g.limits, g.format)
                                                 ELSE g.searches[t]
      BY <1>10, <3>1, <3>2, <3>3, RequestOnFacts
    <3>5. Request(g.searches[s], p, g.limits, g.format) = n
      BY <1>5, <1>10, <1>14 DEF Others
    <3> QED
      BY <1>5, <1>10, <2>1, <3>4, <3>5
  <2>2. CASE ~file.rule.loadFinishedOnce
    BY <1>5, <1>10, <1>12, <1>13, <2>2 DEF Others
  <2> QED
    BY <2>1, <2>2
<1>17. /\ (m.opened <=> file.opened) /\ m.rule = file.rule /\ m.refresh = file.refresh /\ m.made = file.made
       /\ m.current = file.current /\ m.pattern = file.pattern /\ m.heldBefore = file.heldBefore \ {s}
       /\ m.limits = file.limits /\ m.marks = file.marks /\ m.format = file.format /\ m.sampled = file.sampled
       /\ \A t \in Searches :
            /\ m.waiting[t] = IF t = s THEN q ELSE file.waiting[t]
            /\ m.heldAfter[t] = IF t = s THEN NoPattern ELSE file.heldAfter[t]
  BY <1>5, <1>8, <1>10, <1>16 DEF Others
<1>18. asked' \in [Searches -> Known] /\ \A t \in Searches : asked'[t] = IF t = s THEN q ELSE asked[t]
  <2>1. asked' = [asked EXCEPT ![s] = q]
    BY ONLY <1>2, <1>6, Zenon
  <2> QED
    BY <1>1, <2>1
<1>19. CallsSearch
  <2>1. ToldOthers(told, told) /\ told \in ToldMembers /\ RuleOthers(file.rule, file.rule)
    BY DEF ToldOthers, TypeInv, RuleOthers
  <2> QED
    BY <1>1, <1>3, <1>13, <1>16, <1>17, <1>18, <2>1 DEF CallsSearch, searchCall, logData
<1>20. /\ TypeInv' /\ RunInv' /\ Opening' /\ HonestInv' /\ StopInv' /\ FormatInv' /\ (Trusted' <=> Trusted)
  BY <1>19, CallFrame
<1>21. FieldInv' /\ FollowInv' /\ LinesInv'
  <2>1. m.searches[m.current] = file.searches[m.current]
    BY <1>1, <1>16, <1>17
  <2> QED
    BY <1>3, <1>13, <1>17, <1>19, <2>1, OtherSearchFrame
<1>22. SearchesInv'
  BY <1>3, <1>13, <1>15, <1>16, <1>20 DEF SearchesInv, searchCall, logData
<1>23. WaitInv'
  <2>1. ~m.rule.loadFinishedOnce =>
          /\ \A t \in Searches : m.searches[t].phase = "Idle" /\ m.heldAfter[t] = NoPattern
          /\ m.refresh.state = "NoSearch"
    BY <1>16, <1>17 DEF WaitInv
  <2>2. m.rule.loadFinishedOnce =>
          ~m.rule.searchWaits /\ (\A t \in Searches : m.waiting[t] = NoPattern) /\ m.heldBefore = {}
    BY <1>6, <1>17 DEF WaitInv
  <2>3. m.waiting[m.current] = NoPattern
    BY <1>1, <1>17 DEF WaitInv
  <2>4. \A t \in Searches \ m.made :
          /\ m.searches[t] = Idle
          /\ m.waiting[t] = NoPattern /\ m.heldAfter[t] = NoPattern /\ asked'[t] = NoPattern
    BY <1>1, <1>16, <1>17, <1>18 DEF WaitInv
  <2>5. \A t \in Searches : asked'[t] # NoPattern => m.searches[t].phase = "Idle" /\ WaitsWith(m, t) = asked'[t]
    <3> SUFFICES ASSUME NEW t \in Searches, asked'[t] # NoPattern
                 PROVE  m.searches[t].phase = "Idle" /\ WaitsWith(m, t) = asked'[t]
      OBVIOUS
    <3>1. CASE t = s
      BY <1>1, <1>6, <1>16, <1>17, <1>18, <3>1 DEF WaitInv, WaitsWith
    <3>2. CASE t # s
      BY <1>16, <1>17, <1>18, <3>2 DEF WaitInv, AskedIsKept, WaitsWith
    <3> QED
      BY <3>1, <3>2
  <2>6. ~told.borrowed /\ asked'[m.current] # NoPattern =>
           m.pattern = asked'[m.current] /\ ~IsAutoRefreshAllowed(m.refresh)
    BY <1>1, <1>17, <1>18 DEF WaitInv
  <2> QED
    BY <1>3, <1>13, <2>1, <2>2, <2>3, <2>4, <2>5, <2>6 DEF WaitInv, AskedIsKept
<1>24. SavedMarksAreKept'
  BY <1>3, <1>13, <1>17 DEF SavedMarksAreKept
<1> QED
  BY <1>20, <1>21, <1>22, <1>23, <1>24

LEMMA DropKeptSearchStep ==
    ASSUME IInv, DropKeptSearch
    PROVE  IInv'
<1> USE DEF IInv
<1>1. /\ file \in FileMembers /\ file.current \in file.made /\ file.made \subseteq Searches
      /\ file.rule \in Rules(Lines) /\ file.waiting \in [Searches -> Known] /\ asked \in [Searches -> Known]
      /\ file.searches \in [Searches -> SearchMembers] /\ file.marks \in [Searches -> BOOLEAN]
      /\ NoPattern \in Known /\ told \in ToldMembers
  BY DEF TypeInv, FileMembers, Known
<1>2. PICK s \in file.made \ {file.current} :
        /\ file' = [StopHolding(file, s) EXCEPT !.made = @ \ {s}, !.waiting[s] = NoPattern,
                       !.searches[s] = Idle, !.marks[s] = FALSE]
        /\ asked' = [asked EXCEPT ![s] = NoPattern]
  BY Zenon DEF DropKeptSearch
<1>3. Once("calls") /\ UNCHANGED searchCall
  BY DEF DropKeptSearch, Called
<1>4. PICK stay \in BOOLEAN : stay = (file.rule.savedMarks \/ \E t \in file'.made : file.marks[t])
  BY Zenon
<1>5. told' = [told EXCEPT !.marked = @ /\ stay]
  <2>1. told' = [told EXCEPT !.marked = @ /\ (file.rule.savedMarks \/ \E t \in file'.made : file.marks[t])]
    BY Zenon DEF DropKeptSearch
  <2> QED
    BY ONLY <1>4, <2>1, Zenon
<1>6. PICK free : free = StopHolding(file, s)
  OBVIOUS
<1>7. /\ free \in FileMembers /\ Others(free, file) /\ free.rule = file.rule /\ free.refresh = file.refresh
      /\ free.searches = file.searches /\ free.pattern = file.pattern
      /\ free.heldBefore = file.heldBefore \ {s}
      /\ \A t \in Searches : free.heldAfter[t] = IF t = s THEN NoPattern ELSE file.heldAfter[t]
  BY <1>1, <1>6, StopHoldingFacts
<1>8. PICK w, h, k, made :
         /\ w = [file.waiting EXCEPT ![s] = NoPattern] /\ h = [file.searches EXCEPT ![s] = Idle]
         /\ k = [file.marks EXCEPT ![s] = FALSE] /\ made = file.made \ {s}
  OBVIOUS
<1>9. /\ w \in [Searches -> Known] /\ h \in [Searches -> SearchMembers] /\ k \in [Searches -> BOOLEAN]
      /\ made \in SUBSET Searches
      /\ \A t \in Searches :
            /\ w[t] = IF t = s THEN NoPattern ELSE file.waiting[t]
            /\ h[t] = IF t = s THEN Idle ELSE file.searches[t]
            /\ t # s => k[t] = file.marks[t]
  BY <1>1, <1>8, IdleFacts
<1>10. PICK m : m = file'
  OBVIOUS
<1>11. m = [free EXCEPT !.made = made, !.waiting = w, !.searches = h, !.marks = k]
  BY <1>2, <1>6, <1>7, <1>8, <1>10 DEF Others, FileMembers
<1>12. /\ m \in FileMembers /\ m.waiting = w /\ m.searches = h /\ m.marks = k /\ m.made = made
       /\ (m.opened <=> free.opened) /\ m.rule = free.rule /\ m.refresh = free.refresh
       /\ m.current = free.current /\ m.pattern = free.pattern /\ m.heldBefore = free.heldBefore
       /\ m.heldAfter = free.heldAfter /\ m.limits = free.limits
       /\ m.format = free.format /\ m.sampled = free.sampled
  BY ONLY <1>7, <1>9, <1>11 DEF FileMembers
<1>13. /\ (m.opened <=> file.opened) /\ m.rule = file.rule /\ m.refresh = file.refresh
       /\ m.current = file.current /\ m.pattern = file.pattern /\ m.heldBefore = file.heldBefore \ {s}
       /\ m.limits = file.limits /\ m.format = file.format /\ m.sampled = file.sampled
       /\ m.made = file.made \ {s} /\ m.current \in m.made
       /\ \A t \in Searches : m.heldAfter[t] = IF t = s THEN NoPattern ELSE file.heldAfter[t]
  BY <1>1, <1>7, <1>8, <1>12 DEF Others
<1>14. asked' \in [Searches -> Known] /\ \A t \in Searches : asked'[t] = IF t = s THEN NoPattern ELSE asked[t]
  BY <1>1, <1>2
<1>15. /\ told' \in ToldMembers /\ ToldOthers(told', told)
       /\ (told'.early <=> told.early) /\ (told'.borrowed <=> told.borrowed)
       /\ (told'.apart <=> told.apart) /\ (told'.narrowed <=> told.narrowed)
       /\ (told'.marked <=> told.marked /\ stay)
  <2>1. PICK c \in BOOLEAN : c <=> told.marked /\ stay
    BY Zenon
  <2>2. (told.marked /\ stay) = c
    BY <1>1, <2>1, Zenon DEF ToldMembers
  <2>3. told' = [told EXCEPT !.marked = told.marked /\ stay]
    BY ONLY <1>5
  <2>4. told' = [told EXCEPT !.marked = c]
    BY ONLY <2>2, <2>3, Zenon
  <2> QED
    BY ONLY <1>1, <2>1, <2>4 DEF ToldMembers, ToldOthers
<1>16. CallsSearch
  <2>1. RuleOthers(file.rule, file.rule)
    BY DEF RuleOthers
  <2> QED
    BY <1>3, <1>10, <1>12, <1>13, <1>14, <1>15, <2>1 DEF CallsSearch, searchCall, logData
<1>17. /\ TypeInv' /\ RunInv' /\ Opening' /\ HonestInv' /\ StopInv' /\ FormatInv' /\ (Trusted' <=> Trusted)
  BY <1>16, CallFrame
<1>18. FieldInv' /\ FollowInv' /\ LinesInv'
  <2>1. m.searches[m.current] = file.searches[m.current]
    BY <1>1, <1>9, <1>12, <1>13
  <2> QED
    BY <1>10, <1>13, <1>15, <1>16, <2>1, OtherSearchFrame
<1>19. SearchesInv'
  BY <1>3, <1>9, <1>10, <1>12, <1>17, IdleFacts DEF SearchesInv, searchCall, logData
<1>20. WaitInv'
  <2>1. ~m.rule.loadFinishedOnce =>
          /\ \A t \in Searches : m.searches[t].phase = "Idle" /\ m.heldAfter[t] = NoPattern
          /\ m.refresh.state = "NoSearch"
    BY <1>9, <1>12, <1>13 DEF WaitInv, Idle
  <2>2. m.rule.loadFinishedOnce =>
          ~m.rule.searchWaits /\ (\A t \in Searches : m.waiting[t] = NoPattern) /\ m.heldBefore = {}
    BY <1>9, <1>12, <1>13 DEF WaitInv
  <2>3. m.waiting[m.current] = NoPattern
    BY <1>1, <1>9, <1>12, <1>13 DEF WaitInv
  <2>4. \A t \in Searches \ m.made :
          /\ m.searches[t] = Idle
          /\ m.waiting[t] = NoPattern /\ m.heldAfter[t] = NoPattern /\ asked'[t] = NoPattern
    BY <1>1, <1>9, <1>12, <1>13, <1>14 DEF WaitInv
  <2>5. \A t \in Searches : asked'[t] # NoPattern => m.searches[t].phase = "Idle" /\ WaitsWith(m, t) = asked'[t]
    BY <1>9, <1>12, <1>13, <1>14 DEF WaitInv, AskedIsKept, WaitsWith
  <2>6. ~told'.borrowed /\ asked'[m.current] # NoPattern =>
           m.pattern = asked'[m.current] /\ ~IsAutoRefreshAllowed(m.refresh)
    BY <1>1, <1>13, <1>14, <1>15 DEF WaitInv
  <2> QED
    BY <1>10, <2>1, <2>2, <2>3, <2>4, <2>5, <2>6 DEF WaitInv, AskedIsKept
<1>21. SavedMarksAreKept'
  <2>1. told'.marked => file.rule.savedMarks \/ \E t \in m.made : file.marks[t]
    BY <1>4, <1>10, <1>15
  <2>2. \A t \in m.made : file.marks[t] => m.marks[t]
    BY <1>1, <1>9, <1>12, <1>13
  <2> QED
    BY <1>10, <1>13, <2>1, <2>2 DEF SavedMarksAreKept
<1> QED
  BY <1>17, <1>18, <1>19, <1>20, <1>21

\* The current Search was requested, or waits to be.
LEMMA RequestedCurrent ==
    ASSUME IInv, CallsSearch, NEW p \in Known, NEW m, m = file',
           m.current = file.current, m.limits = file.limits, m.pattern = p, m.rule.searchRequested,
           told'.early <=> Rereading, ~told'.borrowed,
           ~file.rule.loadFinishedOnce =>
                m.searches[m.current].phase = "Idle" /\ m.refresh.state = "NoSearch",
           file.rule.loadFinishedOnce =>
                m.searches[m.current] = Request(file.searches[m.current], p, file.limits, file.format)
    PROVE  FieldInv' /\ FollowInv'
<1> USE DEF IInv
<1>1. /\ (Still' <=> Still) /\ (Added' <=> Added) /\ (ReadAgain' <=> ReadAgain) /\ index' = index
      /\ m.format = file.format /\ file.current \in Searches
  BY CallFrame DEF CallsSearch, logData, TypeInv, FileMembers
<1>2. PICK n : n = Request(file.searches[m.current], p, file.limits, file.format)
  OBVIOUS
<1>3. /\ n.phase \in {"Running", "InvalidPattern"}
      /\ n.pattern = p /\ n.start = file.limits.start /\ n.end = file.limits.end
      /\ n.reader = IF p \in FieldPatterns THEN file.format ELSE "None"
      /\ Still \/ Added => \A i \in 1..(Len(n.seen) - 1) : n.seen[i] = index.lines[n.start + i]
      /\ n.seen \in Seq(Generations \cup {0})
  <2>1. n \in SearchMembers
    BY <1>1, <1>2, RequestNow
  <2> QED
    BY <1>1, <1>2, <2>1, RequestNow DEF SearchMembers
<1>4. m.searches[m.current] = n \/ (m.searches[m.current].phase = "Idle" /\ m.refresh.state = "NoSearch")
  BY <1>2
<1>5. FieldInv'
  BY <1>1, <1>3, <1>4 DEF FieldInv
<1>6. ~Rereading => ~ReadAgain
  BY DEF Rereading, ReadAgain, Fulls, FullKinds, Automatic, Explicit, Attach
<1>7. FollowInv'
  <2>1. CASE m.searches[m.current].phase = "Idle" /\ m.refresh.state = "NoSearch"
    BY <1>1, <2>1 DEF FollowInv
  <2>2. CASE m.searches[m.current] = n
    <3>1. \A i \in 1..Len(n.seen) : i < Len(n.seen) => i \in 1..(Len(n.seen) - 1)
      BY <1>3
    <3>2. Still \/ Added => \A i \in 1..Len(n.seen) :
              (i < Len(n.seen) \/ n.phase = "Complete") => n.seen[i] = index.lines[n.start + i]
      BY <1>3, <3>1
    <3> QED
      BY <1>1, <1>3, <1>6, <2>2, <3>2 DEF FollowInv
  <2> QED
    BY <1>4, <2>1, <2>2
<1> QED
  BY <1>5, <1>7

LEMMA SearchAskedStep ==
    ASSUME IInv, SearchAsked
    PROVE  IInv'
<1> USE DEF IInv
<1>1. /\ file \in FileMembers /\ file.current \in file.made /\ file.made \subseteq Searches
      /\ file.current \in Searches /\ asked \in [Searches -> Known]
      /\ Patterns \subseteq Known /\ NoPattern \in Known /\ NoPattern \notin Patterns /\ told \in ToldMembers
  BY OpenLogFileAssumption DEF TypeInv, FileMembers, Known
<1>2. PICK p \in Patterns :
        /\ file' = RequestSearch(file, p)
        /\ asked' = [asked EXCEPT ![file.current] = IF file.rule.loadFinishedOnce THEN NoPattern ELSE p]
  BY Zenon DEF SearchAsked
<1>3. Once("calls") /\ UNCHANGED searchCall
  BY DEF SearchAsked, Called
<1>4. PICK again \in BOOLEAN : again = Rereading
  BY Zenon DEF Rereading
<1>5. told' = [told EXCEPT !.early = again, !.borrowed = FALSE, !.apart = FALSE]
  <2>1. told' = [told EXCEPT !.early = Rereading, !.borrowed = FALSE, !.apart = FALSE]
    BY Zenon DEF SearchAsked
  <2> QED
    BY ONLY <1>4, <2>1, Zenon
<1>6. /\ told' \in ToldMembers /\ ToldOthers(told', told) /\ (told'.early <=> again) /\ ~told'.borrowed
      /\ (told'.narrowed <=> told.narrowed) /\ (told'.marked <=> told.marked)
  BY ONLY <1>1, <1>4, <1>5 DEF ToldMembers, ToldOthers
<1>7. PICK m : m = file'
  OBVIOUS
<1>8. /\ m \in FileMembers /\ Others(m, file) /\ RuleOthers(m.rule, file.rule)
      /\ m.rule.searchRequested
      /\ m.rule.searchWaits <=> file.rule.searchWaits \/ ~file.rule.loadFinishedOnce
      /\ m.pattern = p /\ m.heldBefore = file.heldBefore \ {file.current}
      /\ \A s \in Searches : m.heldAfter[s] = IF s = file.current THEN NoPattern ELSE file.heldAfter[s]
      /\ ~file.rule.loadFinishedOnce => m.searches = file.searches /\ m.refresh = file.refresh
      /\ file.rule.loadFinishedOnce =>
           \A s \in Searches :
              m.searches[s] = IF s = file.current THEN Request(file.searches[s], p, file.limits, file.format)
                              ELSE file.searches[s]
  <2>1. SearchesShaped(file) /\ file.limits.start <= file.limits.end
    BY <1>1, OpenLogFileAssumption DEF LinesInv, Limits, Lines, Whole, FileMembers, SearchesInv, SearchesShaped
  <2>2. p \in Known /\ m = RequestSearch(file, p)
    BY <1>1, <1>2, <1>7
  <2> QED
    BY <1>1, <2>1, <2>2, RequestSearchFacts
<1>9. /\ (m.opened <=> file.opened) /\ m.made = file.made /\ m.current = file.current
      /\ m.waiting = file.waiting /\ m.limits = file.limits
      /\ m.marks = file.marks /\ m.format = file.format /\ m.sampled = file.sampled
      /\ (m.rule.loadFinishedOnce <=> file.rule.loadFinishedOnce)
      /\ (m.rule.savedMarks <=> file.rule.savedMarks)
  BY <1>8 DEF Others, RuleOthers
<1>10. PICK q \in Known : q = IF file.rule.loadFinishedOnce THEN NoPattern ELSE p
  BY <1>1
<1>11. /\ asked' \in [Searches -> Known]
       /\ \A s \in Searches : asked'[s] = IF s = file.current THEN q ELSE asked[s]
  BY <1>1, <1>2, <1>10
<1>12. CallsSearch
  BY <1>1, <1>3, <1>6, <1>7, <1>8, <1>9, <1>11 DEF CallsSearch, searchCall, logData
<1>13. /\ TypeInv' /\ RunInv' /\ Opening' /\ HonestInv' /\ StopInv' /\ FormatInv' /\ LinesInv'
       /\ Trusted' <=> Trusted
  BY <1>6, <1>7, <1>9, <1>12, CallFrame
<1>14. FieldInv' /\ FollowInv'
  <2>1. ~file.rule.loadFinishedOnce =>
            m.searches[m.current].phase = "Idle" /\ m.refresh.state = "NoSearch"
    BY <1>1, <1>8, <1>9 DEF WaitInv
  <2>2. file.rule.loadFinishedOnce =>
            m.searches[m.current] = Request(file.searches[m.current], p, file.limits, file.format)
    BY <1>1, <1>8, <1>9
  <2>3. p \in Known /\ (told'.early <=> Rereading)
    BY <1>1, <1>4, <1>6
  <2> QED
    BY <1>6, <1>7, <1>8, <1>9, <1>12, <2>1, <2>2, <2>3, RequestedCurrent
<1>15. SearchesInv'
  <2> SUFFICES ASSUME NEW s \in Searches
               PROVE  Shaped(m.searches[s]) /\ (Trusted => ReadFrom(m.searches[s], index.lines))
    BY <1>3, <1>7, <1>13 DEF SearchesInv, searchCall, logData
  <2>1. PICK n : n = Request(file.searches[s], p, file.limits, file.format)
    OBVIOUS
  <2>2. Shaped(n) /\ (Trusted => ReadFrom(n, index.lines))
    BY <1>1, <2>1, RequestNow
  <2>3. m.searches[s] = n \/ m.searches[s] = file.searches[s]
    BY <1>8, <2>1
  <2> QED
    BY <2>2, <2>3 DEF SearchesInv
<1>16. WaitInv'
  <2>1. ~m.rule.loadFinishedOnce =>
          /\ \A t \in Searches : m.searches[t].phase = "Idle" /\ m.heldAfter[t] = NoPattern
          /\ m.refresh.state = "NoSearch"
    BY <1>8, <1>9 DEF WaitInv
  <2>2. m.rule.loadFinishedOnce =>
          ~m.rule.searchWaits /\ (\A t \in Searches : m.waiting[t] = NoPattern) /\ m.heldBefore = {}
    BY <1>8, <1>9 DEF WaitInv
  <2>3. m.waiting[m.current] = NoPattern
    BY <1>9 DEF WaitInv
  <2>4. \A t \in Searches \ m.made :
          /\ m.searches[t] = Idle
          /\ m.waiting[t] = NoPattern /\ m.heldAfter[t] = NoPattern /\ asked'[t] = NoPattern
    BY <1>1, <1>8, <1>9, <1>11 DEF WaitInv
  <2>5. \A t \in Searches : asked'[t] # NoPattern => m.searches[t].phase = "Idle" /\ WaitsWith(m, t) = asked'[t]
    <3> SUFFICES ASSUME NEW t \in Searches, asked'[t] # NoPattern
                 PROVE  m.searches[t].phase = "Idle" /\ WaitsWith(m, t) = asked'[t]
      OBVIOUS
    <3>1. CASE t = file.current
      BY <1>8, <1>9, <1>10, <1>11, <3>1 DEF WaitInv, WaitsWith
    <3>2. CASE t # file.current
      BY <1>8, <1>9, <1>11, <3>2 DEF WaitInv, AskedIsKept, WaitsWith
    <3> QED
      BY <3>1, <3>2
  <2>6. asked'[m.current] # NoPattern => m.pattern = asked'[m.current] /\ ~IsAutoRefreshAllowed(m.refresh)
    BY <1>1, <1>8, <1>9, <1>10, <1>11 DEF WaitInv, IsAutoRefreshAllowed
  <2> QED
    BY <1>7, <2>1, <2>2, <2>3, <2>4, <2>5, <2>6 DEF WaitInv, AskedIsKept
<1>17. SavedMarksAreKept'
  BY <1>6, <1>7, <1>9 DEF SavedMarksAreKept
<1> QED
  BY <1>13, <1>14, <1>15, <1>16, <1>17

LEMMA ReleaseHeldSearchesStep ==
    ASSUME IInv, ReleaseHeldSearches
    PROVE  IInv'
<1> USE DEF IInv
<1>1. /\ file \in FileMembers /\ file.current \in file.made /\ file.made \subseteq Searches
      /\ file.current \in Searches /\ asked \in [Searches -> Known]
      /\ file.heldAfter \in [Searches -> Known] /\ file.searches \in [Searches -> SearchMembers]
      /\ NoPattern \in Known /\ told \in ToldMembers
  BY DEF TypeInv, FileMembers, Known
<1>2. PICK g : g = [file EXCEPT !.heldBefore = {}, !.heldAfter = [s \in Searches |-> NoPattern],
                       !.searches = [s \in Searches |->
                           IF file.heldAfter[s] = NoPattern \/ s = file.current THEN @[s]
                           ELSE Request(@[s], file.heldAfter[s], file.limits, file.format)]]
  OBVIOUS
<1>3. PICK again \in BOOLEAN : again = Rereading
  BY Zenon DEF Rereading
<1>4. PICK p \in Known : p = file.heldAfter[file.current]
  BY <1>1
<1>5. /\ file' = IF p = NoPattern THEN g ELSE RequestSearch(g, p)
      /\ told' = IF p = NoPattern THEN told
                 ELSE [told EXCEPT !.early = again, !.borrowed = FALSE, !.apart = FALSE]
  <2>1. /\ file' = IF file.heldAfter[file.current] = NoPattern THEN g ELSE RequestSearch(g, file.heldAfter[file.current])
        /\ told' = IF file.heldAfter[file.current] = NoPattern THEN told
                   ELSE [told EXCEPT !.early = Rereading, !.borrowed = FALSE, !.apart = FALSE]
    BY <1>2, Zenon DEF ReleaseHeldSearches
  <2> QED
    BY ONLY <1>3, <1>4, <2>1, Zenon
<1>6. Once("calls") /\ UNCHANGED searchCall /\ asked' = Requested(file', asked)
  BY Zenon DEF ReleaseHeldSearches, Called
<1>7. PICK h : h = [s \in Searches |->
                      IF file.heldAfter[s] = NoPattern \/ s = file.current THEN file.searches[s]
                      ELSE Request(file.searches[s], file.heldAfter[s], file.limits, file.format)]
  OBVIOUS
<1>8. ASSUME NEW s \in Searches
      PROVE  LET n == Request(file.searches[s], file.heldAfter[s], file.limits, file.format) IN
             /\ n \in SearchMembers /\ Shaped(n) /\ n.phase \in {"Running", "InvalidPattern"}
             /\ n.pattern = file.heldAfter[s] /\ (Trusted => ReadFrom(n, index.lines))
  BY <1>1, RequestNow
<1>9. /\ h \in [Searches -> SearchMembers]
      /\ \A s \in Searches :
            /\ Shaped(h[s]) /\ (Trusted => ReadFrom(h[s], index.lines))
            /\ file.heldAfter[s] = NoPattern \/ s = file.current => h[s] = file.searches[s]
            /\ file.heldAfter[s] # NoPattern /\ s # file.current =>
                  h[s].phase # "Idle" /\ h[s].pattern = file.heldAfter[s]
  <2>1. ASSUME NEW s \in Searches
        PROVE  /\ h[s] \in SearchMembers
               /\ Shaped(h[s]) /\ (Trusted => ReadFrom(h[s], index.lines))
               /\ file.heldAfter[s] = NoPattern \/ s = file.current => h[s] = file.searches[s]
               /\ file.heldAfter[s] # NoPattern /\ s # file.current =>
                     h[s].phase # "Idle" /\ h[s].pattern = file.heldAfter[s]
    <3>1. PICK n : n = Request(file.searches[s], file.heldAfter[s], file.limits, file.format)
      OBVIOUS
    <3>2. /\ n \in SearchMembers /\ Shaped(n) /\ n.phase \in {"Running", "InvalidPattern"}
          /\ n.pattern = file.heldAfter[s] /\ (Trusted => ReadFrom(n, index.lines))
      BY <1>8, <3>1
    <3>3. h[s] = IF file.heldAfter[s] = NoPattern \/ s = file.current THEN file.searches[s] ELSE n
      BY <1>7, <3>1
    <3> QED
      BY <1>1, <3>2, <3>3 DEF SearchesInv
  <2>2. h = [s \in Searches |-> h[s]]
    BY <1>7
  <2> QED
    BY <2>1, <2>2
<1>10. PICK a : a = [s \in Searches |-> NoPattern]
  OBVIOUS
<1>11. a \in [Searches -> Known] /\ \A s \in Searches : a[s] = NoPattern
  BY <1>1, <1>10
<1>12. g = [file EXCEPT !.heldBefore = {}, !.heldAfter = a, !.searches = h]
  BY <1>1, <1>2, <1>7, <1>10 DEF FileMembers
<1>13. /\ g \in FileMembers /\ Others(g, file) /\ g.rule = file.rule /\ g.refresh = file.refresh
       /\ g.searches = h /\ g.heldAfter = a /\ g.heldBefore = {} /\ g.pattern = file.pattern
  BY ONLY <1>1, <1>9, <1>11, <1>12 DEF FileMembers, Others
<1>14. PICK m : m = file'
  OBVIOUS
<1>15. PICK n : n = Request(file.searches[file.current], p, file.limits, file.format)
  OBVIOUS
<1>16. /\ Shaped(n) /\ n.phase \in {"Running", "InvalidPattern"} /\ n.pattern = p
       /\ Trusted => ReadFrom(n, index.lines)
  BY <1>1, <1>15, RequestNow
<1>17. ~file.rule.loadFinishedOnce => (\A s \in Searches : file.heldAfter[s] = NoPattern) /\ p = NoPattern
  BY <1>1, <1>4 DEF WaitInv
<1>18. /\ m \in FileMembers /\ Others(m, file) /\ RuleOthers(m.rule, file.rule)
       /\ m.rule.searchWaits <=> file.rule.searchWaits
       /\ m.heldBefore = {} /\ (\A s \in Searches : m.heldAfter[s] = NoPattern)
       /\ \A s \in Searches : m.searches[s] = IF p # NoPattern /\ s = file.current THEN n ELSE h[s]
       /\ p = NoPattern => m.rule = file.rule /\ m.refresh = file.refresh /\ m.pattern = file.pattern
       /\ p # NoPattern => m.rule.searchRequested /\ m.pattern = p
  <2>1. CASE p = NoPattern
    <3>1. m = g
      BY <1>5, <1>14, <2>1
    <3>2. RuleOthers(file.rule, file.rule)
      BY DEF RuleOthers
    <3> QED
      BY <1>11, <1>13, <2>1, <3>1, <3>2
  <2>2. CASE p # NoPattern
    <3>1. SearchesShaped(g) /\ g.limits.start <= g.limits.end
      <4>1. file.limits.start <= file.limits.end
        BY <1>1, OpenLogFileAssumption DEF LinesInv, Limits, Lines, Whole, FileMembers
      <4> QED
        BY <1>9, <1>13, <4>1 DEF SearchesShaped, Others
    <3>2. m = RequestSearch(g, p)
      BY <1>5, <1>14, <2>2
    <3>3. /\ m \in FileMembers /\ Others(m, g) /\ RuleOthers(m.rule, g.rule)
          /\ m.rule.searchRequested
          /\ m.rule.searchWaits <=> g.rule.searchWaits \/ ~g.rule.loadFinishedOnce
          /\ m.pattern = p /\ m.heldBefore = g.heldBefore \ {g.current}
          /\ \A s \in Searches : m.heldAfter[s] = IF s = g.current THEN NoPattern ELSE g.heldAfter[s]
          /\ g.rule.loadFinishedOnce =>
               \A s \in Searches :
                  m.searches[s] = IF s = g.current THEN Request(g.searches[s], p, g.limits, g.format)
                                  ELSE g.searches[s]
      BY <1>13, <3>1, <3>2, RequestSearchFacts
    <3>4. file.rule.loadFinishedOnce
      BY <1>17, <2>2
    <3>5. g.current = file.current /\ Request(g.searches[g.current], p, g.limits, g.format) = n
      BY <1>1, <1>9, <1>13, <1>15 DEF Others
    <3>6. Others(m, file)
      BY <1>13, <3>3 DEF Others
    <3> QED
      BY <1>11, <1>13, <2>2, <3>3, <3>4, <3>5, <3>6
  <2> QED
    BY <2>1, <2>2
<1>19. /\ (m.opened <=> file.opened) /\ m.made = file.made /\ m.current = file.current
       /\ m.waiting = file.waiting /\ m.limits = file.limits
       /\ m.marks = file.marks /\ m.format = file.format /\ m.sampled = file.sampled
       /\ (m.rule.loadFinishedOnce <=> file.rule.loadFinishedOnce)
       /\ (m.rule.savedMarks <=> file.rule.savedMarks)
  BY <1>18 DEF Others, RuleOthers
<1>20. /\ told' \in ToldMembers /\ ToldOthers(told', told)
       /\ (told'.narrowed <=> told.narrowed) /\ (told'.marked <=> told.marked)
       /\ p = NoPattern => told' = told
       /\ p # NoPattern => (told'.early <=> again) /\ ~told'.borrowed
  <2>1. CASE p = NoPattern
    BY <1>1, <1>5, <2>1 DEF ToldOthers
  <2>2. CASE p # NoPattern
    <3>1. told' = [told EXCEPT !.early = again, !.borrowed = FALSE, !.apart = FALSE]
      BY ONLY <1>5, <2>2, Zenon
    <3> QED
      BY ONLY <1>1, <1>3, <2>2, <3>1 DEF ToldMembers, ToldOthers
  <2> QED
    BY <2>1, <2>2
<1>21. /\ asked' \in [Searches -> Known]
       /\ \A s \in Searches : asked'[s] # NoPattern =>
             /\ asked'[s] = asked[s]
             /\ ~(WaitsWith(m, s) = NoPattern /\ m.searches[s].phase # "Idle" /\ m.searches[s].pattern = asked[s])
  BY <1>1, <1>6, <1>14 DEF Requested
<1>22. CallsSearch
  BY <1>1, <1>6, <1>14, <1>18, <1>19, <1>20, <1>21 DEF CallsSearch, searchCall, logData
<1>23. /\ TypeInv' /\ RunInv' /\ Opening' /\ HonestInv' /\ StopInv' /\ FormatInv' /\ LinesInv'
       /\ Trusted' <=> Trusted
  BY <1>14, <1>19, <1>20, <1>22, CallFrame
<1>24. FieldInv' /\ FollowInv'
  <2>1. CASE p = NoPattern
    <3>1. m.searches[m.current] = file.searches[m.current]
      BY <1>1, <1>9, <1>18, <1>19, <2>1
    <3> QED
      BY <1>14, <1>18, <1>19, <1>20, <1>22, <2>1, <3>1, OtherSearchFrame
  <2>2. CASE p # NoPattern
    <3>1. file.rule.loadFinishedOnce
      BY <1>17, <2>2
    <3>2. m.searches[m.current] = Request(file.searches[m.current], p, file.limits, file.format)
      BY <1>1, <1>15, <1>18, <1>19, <2>2
    <3>3. told'.early <=> Rereading
      BY <1>3, <1>20, <2>2
    <3> QED
      BY <1>14, <1>18, <1>19, <1>20, <1>22, <2>2, <3>1, <3>2, <3>3, RequestedCurrent
  <2> QED
    BY <2>1, <2>2
<1>25. SearchesInv'
  BY <1>6, <1>9, <1>14, <1>16, <1>18, <1>23 DEF SearchesInv, searchCall, logData
<1>26. WaitInv'
  <2>1. ~m.rule.loadFinishedOnce =>
          /\ \A t \in Searches : m.searches[t].phase = "Idle" /\ m.heldAfter[t] = NoPattern
          /\ m.refresh.state = "NoSearch"
    BY <1>9, <1>17, <1>18, <1>19 DEF WaitInv
  <2>2. m.rule.loadFinishedOnce =>
          ~m.rule.searchWaits /\ (\A t \in Searches : m.waiting[t] = NoPattern) /\ m.heldBefore = {}
    BY <1>18, <1>19 DEF WaitInv
  <2>3. m.waiting[m.current] = NoPattern
    BY <1>19 DEF WaitInv
  <2>4. \A t \in Searches \ m.made :
          /\ m.searches[t] = Idle
          /\ m.waiting[t] = NoPattern /\ m.heldAfter[t] = NoPattern /\ asked'[t] = NoPattern
    BY <1>1, <1>9, <1>18, <1>19, <1>21 DEF WaitInv
  <2>5. ASSUME NEW t \in Searches, asked'[t] # NoPattern
        PROVE  /\ ~file.rule.loadFinishedOnce
               /\ m.searches[t].phase = "Idle" /\ WaitsWith(m, t) = asked'[t]
    <3>1. asked'[t] = asked[t] /\ WaitsWith(file, t) = asked[t] /\ file.searches[t].phase = "Idle"
      BY <1>21, <2>5 DEF WaitInv, AskedIsKept
    <3>2. CASE file.rule.loadFinishedOnce
      <4>1. file.heldAfter[t] = asked[t] /\ WaitsWith(m, t) = NoPattern
        BY <1>18, <1>19, <3>1, <3>2 DEF WaitsWith, WaitInv
      <4>2. m.searches[t].phase # "Idle" /\ m.searches[t].pattern = asked[t]
        BY <1>4, <1>9, <1>16, <1>18, <2>5, <3>1, <4>1
      <4> QED
        BY <1>21, <2>5, <4>1, <4>2
    <3>3. CASE ~file.rule.loadFinishedOnce
      BY <1>9, <1>17, <1>18, <1>19, <3>1, <3>3 DEF WaitsWith
    <3> QED
      BY <3>2, <3>3
  <2>6. ~told'.borrowed /\ asked'[m.current] # NoPattern =>
           m.pattern = asked'[m.current] /\ ~IsAutoRefreshAllowed(m.refresh)
    BY <1>1, <1>17, <1>18, <1>19, <1>20, <1>21, <2>5 DEF WaitInv
  <2> QED
    BY <1>14, <2>1, <2>2, <2>3, <2>4, <2>5, <2>6 DEF WaitInv, AskedIsKept
<1>27. SavedMarksAreKept'
  BY <1>14, <1>19, <1>20 DEF SavedMarksAreKept
<1> QED
  BY <1>23, <1>24, <1>25, <1>26, <1>27

\* A call about the current Search that requests nothing: it may stop the
\* Search or clear it, hold the Searches that wait, and set what it is
\* followed with.
SettingCall(m, c) ==
    LET search == file.searches[file.current]
    IN  /\ CallsSearch /\ m = file' /\ c = m.searches[file.current]
        /\ m.made = file.made /\ m.current = file.current /\ m.waiting = file.waiting
        /\ m.marks = file.marks /\ m.pattern = file.pattern
        /\ told'.early <=> told.early
        /\ told'.marked <=> told.marked
        /\ \A s \in Searches :
              /\ s # file.current => m.searches[s] = file.searches[s]
              /\ m.heldAfter[s] = NoPattern \/ m.heldAfter[s] = file.heldAfter[s]
              /\ asked'[s] # NoPattern =>
                    asked'[s] = asked[s] /\ WaitsWith(m, s) = WaitsWith(file, s)
        /\ c = Idle \/ c = search \/ c = Stop(search)
        /\ m.rule.searchWaits => file.rule.searchWaits
        /\ file.rule.loadFinishedOnce => m.heldBefore = {}
        /\ file.refresh.state = "NoSearch" => m.refresh.state = "NoSearch"
        /\ IsAutoRefreshAllowed(m.refresh) => IsAutoRefreshAllowed(file.refresh) \/ m.refresh.state = "Autorefreshing"
        /\ \/ c = Idle /\ m.refresh.state = "NoSearch" /\ asked'[file.current] = NoPattern
           \/ /\ c = search \/ c = Stop(search)
              /\ told'.borrowed <=> told.borrowed
              /\ m.rule.searchRequested <=> file.rule.searchRequested
              /\ m.refresh.state \in {"Static", "Autorefreshing"} => file.refresh.state \in {"Static", "Autorefreshing"}
        /\ \/ m.refresh.state # "Autorefreshing" \/ told'.apart
           \/ /\ file.refresh.state = "Autorefreshing" /\ m.limits = file.limits
              /\ c = search \/ c = Stop(search)
              /\ told'.apart <=> told.apart

LEMMA SettingCallStep ==
    ASSUME IInv, LinesInv', NEW m, NEW c, SettingCall(m, c)
    PROVE  IInv'
<1> USE DEF IInv
<1>1. PICK search : search = file.searches[file.current]
  OBVIOUS
<1>2. /\ CallsSearch /\ m = file' /\ c = m.searches[file.current]
      /\ m.made = file.made /\ m.current = file.current /\ m.waiting = file.waiting
      /\ m.marks = file.marks /\ m.pattern = file.pattern
      /\ (told'.early <=> told.early) /\ (told'.marked <=> told.marked)
      /\ \A s \in Searches :
            /\ s # file.current => m.searches[s] = file.searches[s]
            /\ m.heldAfter[s] = NoPattern \/ m.heldAfter[s] = file.heldAfter[s]
            /\ asked'[s] # NoPattern =>
                  asked'[s] = asked[s] /\ WaitsWith(m, s) = WaitsWith(file, s)
      /\ c = Idle \/ c = search \/ c = Stop(search)
      /\ m.rule.searchWaits => file.rule.searchWaits
      /\ file.rule.loadFinishedOnce => m.heldBefore = {}
      /\ file.refresh.state = "NoSearch" => m.refresh.state = "NoSearch"
      /\ IsAutoRefreshAllowed(m.refresh) => IsAutoRefreshAllowed(file.refresh) \/ m.refresh.state = "Autorefreshing"
  BY <1>1 DEF SettingCall
<1>3. \/ c = Idle /\ m.refresh.state = "NoSearch" /\ asked'[file.current] = NoPattern
      \/ /\ c = search \/ c = Stop(search)
         /\ told'.borrowed <=> told.borrowed
         /\ m.rule.searchRequested <=> file.rule.searchRequested
         /\ m.refresh.state \in {"Static", "Autorefreshing"} => file.refresh.state \in {"Static", "Autorefreshing"}
  BY <1>1 DEF SettingCall
<1>4. \/ m.refresh.state # "Autorefreshing" \/ told'.apart
      \/ /\ file.refresh.state = "Autorefreshing" /\ m.limits = file.limits
         /\ c = search \/ c = Stop(search)
         /\ told'.apart <=> told.apart
  BY <1>1 DEF SettingCall
<1>5. /\ file.current \in Searches /\ search \in SearchMembers /\ Shaped(search)
      /\ Trusted => ReadFrom(search, index.lines)
  BY <1>1 DEF TypeInv, FileMembers, SearchesInv
<1>6. /\ TypeInv' /\ RunInv' /\ Opening' /\ HonestInv' /\ StopInv' /\ FormatInv'
      /\ (Still' <=> Still) /\ (Added' <=> Added) /\ (Trusted' <=> Trusted) /\ (ReadAgain' <=> ReadAgain)
  BY <1>2, CallFrame
<1>7. /\ index' = index /\ m.format = file.format
      /\ (m.rule.loadFinishedOnce <=> file.rule.loadFinishedOnce)
      /\ (m.rule.savedMarks <=> file.rule.savedMarks)
  BY <1>2 DEF CallsSearch, logData, RuleOthers
<1>8. /\ Shaped(c) /\ (Trusted => ReadFrom(c, index.lines))
      /\ c # Idle => /\ c.phase = "Idle" <=> search.phase = "Idle"
                     /\ c.phase = "Complete" <=> search.phase = "Complete"
                     /\ c.pattern = search.pattern /\ c.reader = search.reader
                     /\ c.start = search.start /\ c.end = search.end /\ c.seen = search.seen
  <2>1. CASE c = Idle
    BY <2>1, IdleFacts
  <2>2. CASE c = search
    BY <1>5, <2>2
  <2>3. CASE c = Stop(search)
    BY <1>5, <2>3, StopFacts
  <2> QED
    BY <1>2, <2>1, <2>2, <2>3
<1>9. SearchesInv'
  <2>1. \A s \in Searches : m.searches[s] = c \/ m.searches[s] = file.searches[s]
    BY <1>2
  <2> QED
    BY <1>2, <1>6, <1>7, <1>8, <2>1 DEF SearchesInv
<1>10. search.phase = "Idle" => c.phase = "Idle"
  BY <1>8 DEF Idle
<1>11. WaitInv'
  <2>1. ~m.rule.loadFinishedOnce =>
          /\ \A t \in Searches : m.searches[t].phase = "Idle" /\ m.heldAfter[t] = NoPattern
          /\ m.refresh.state = "NoSearch"
    BY <1>1, <1>2, <1>5, <1>7, <1>10 DEF WaitInv
  <2>2. m.rule.loadFinishedOnce =>
          ~m.rule.searchWaits /\ (\A t \in Searches : m.waiting[t] = NoPattern) /\ m.heldBefore = {}
    BY <1>2, <1>7 DEF WaitInv
  <2>3. m.waiting[m.current] = NoPattern
    BY <1>2 DEF WaitInv
  <2>4. \A t \in Searches \ m.made :
          /\ m.searches[t] = Idle
          /\ m.waiting[t] = NoPattern /\ m.heldAfter[t] = NoPattern /\ asked'[t] = NoPattern
    BY <1>2 DEF WaitInv, TypeInv
  <2>5. \A t \in Searches : asked'[t] # NoPattern => m.searches[t].phase = "Idle" /\ WaitsWith(m, t) = asked'[t]
    BY <1>1, <1>2, <1>10 DEF WaitInv, AskedIsKept
  <2>6. ~told'.borrowed /\ asked'[m.current] # NoPattern =>
           m.pattern = asked'[m.current] /\ ~IsAutoRefreshAllowed(m.refresh)
    <3>1. SUFFICES ASSUME ~told'.borrowed, asked'[file.current] # NoPattern
                   PROVE  m.pattern = asked'[file.current] /\ ~IsAutoRefreshAllowed(m.refresh)
      BY <1>2
    <3>2. /\ ~told.borrowed
          /\ m.refresh.state = "Autorefreshing" => file.refresh.state \in {"Static", "Autorefreshing"}
      BY <1>3, <3>1
    <3>3. asked'[file.current] = asked[file.current] /\ search.phase = "Idle"
      BY <1>1, <1>2, <1>5, <3>1 DEF WaitInv
    <3>4. m.refresh.state # "Autorefreshing"
      BY <1>1, <3>2, <3>3 DEF FollowInv
    <3> QED
      BY <1>2, <3>1, <3>2, <3>3, <3>4 DEF WaitInv
  <2> QED
    BY <1>2, <2>1, <2>2, <2>3, <2>4, <2>5, <2>6 DEF WaitInv, AskedIsKept
<1>12. FieldInv'
  <2>1. CASE c.phase = "Idle"
    BY <1>2, <2>1 DEF FieldInv
  <2>2. CASE c.phase # "Idle"
    <3>1. /\ c # Idle
          /\ told'.borrowed <=> told.borrowed
          /\ m.rule.searchRequested <=> file.rule.searchRequested
      BY <1>3, <2>2 DEF Idle
    <3> QED
      BY <1>1, <1>2, <1>7, <1>8, <2>2, <3>1 DEF FieldInv
  <2> QED
    BY <2>1, <2>2
<1>13. FollowInv'
  <2>1. CASE c = Idle /\ m.refresh.state = "NoSearch"
    BY <1>2, <2>1 DEF FollowInv, Idle
  <2>2. CASE /\ c # Idle \/ c = search
             /\ told'.borrowed <=> told.borrowed
             /\ m.refresh.state \in {"Static", "Autorefreshing"} => file.refresh.state \in {"Static", "Autorefreshing"}
    <3>1. /\ c.phase = "Idle" <=> search.phase = "Idle"
          /\ c.phase = "Complete" <=> search.phase = "Complete"
          /\ c.pattern = search.pattern
          /\ c.start = search.start /\ c.end = search.end /\ c.seen = search.seen
      BY <1>8, <2>2
    <3>2. m.refresh.state \in {"Static", "Autorefreshing"} /\ ~told'.borrowed =>
              c.phase # "Idle" /\ c.pattern = m.pattern
      BY <1>1, <1>2, <2>2, <3>1 DEF FollowInv
    <3>3. c.phase # "Idle" /\ ~told'.early /\ ~told'.borrowed => ~ReadAgain
      BY <1>1, <1>2, <2>2, <3>1 DEF FollowInv
    <3>4. m.refresh.state = "Autorefreshing" /\ ~told'.early /\ ~told'.borrowed /\ ~told'.apart =>
              /\ c.start = m.limits.start /\ c.end = m.limits.end
              /\ Still \/ Added =>
                   \A i \in 1..Len(c.seen) :
                      (i < Len(c.seen) \/ c.phase = "Complete") => c.seen[i] = index.lines[c.start + i]
      BY <1>1, <1>2, <1>4, <2>2, <3>1 DEF FollowInv
    <3> QED
      BY <1>2, <1>6, <1>7, <3>2, <3>3, <3>4 DEF FollowInv
  <2>3. ASSUME c = Stop(search), c = Idle PROVE c = search
    <3>1. c.phase = "Idle" /\ search.phase = "Idle"
      <4>1. c.phase = "Idle"
        BY <2>3 DEF Idle
      <4>2. Stop(search).phase = (IF search.phase = "Running" THEN "Interrupted" ELSE search.phase)
        BY <1>5, StopFacts
      <4> QED
        BY ONLY <2>3, <4>1, <4>2
    <3> QED
      BY <2>3, <3>1 DEF Stop
  <2> QED
    BY <1>3, <2>1, <2>2, <2>3
<1>14. SavedMarksAreKept'
  BY <1>2, <1>7 DEF SavedMarksAreKept
<1> QED
  BY <1>6, <1>9, <1>11, <1>12, <1>13, <1>14

\* What a call that changes members one by one leaves, told of or not.
LEMMA ToldFrame ==
    ASSUME TypeInv
    PROVE  /\ ToldOthers(told, told) /\ told \in ToldMembers /\ RuleOthers(file.rule, file.rule)
           /\ LET n == [told EXCEPT !.apart = TRUE] IN
              /\ n \in ToldMembers /\ ToldOthers(n, told) /\ n.apart
              /\ (n.early <=> told.early) /\ (n.borrowed <=> told.borrowed)
              /\ (n.marked <=> told.marked) /\ (n.narrowed <=> told.narrowed)
           /\ LET n == [told EXCEPT !.borrowed = FALSE] IN
              /\ n \in ToldMembers /\ ToldOthers(n, told) /\ ~n.borrowed
              /\ (n.early <=> told.early) /\ (n.apart <=> told.apart)
              /\ (n.marked <=> told.marked) /\ (n.narrowed <=> told.narrowed)
<1>1. told \in ToldMembers
  BY DEF TypeInv
<1>2. ToldOthers(told, told) /\ RuleOthers(file.rule, file.rule)
  BY DEF ToldOthers, RuleOthers
<1>3. ASSUME NEW n, n = [told EXCEPT !.apart = TRUE]
      PROVE  /\ n \in ToldMembers /\ ToldOthers(n, told) /\ n.apart
             /\ (n.early <=> told.early) /\ (n.borrowed <=> told.borrowed)
             /\ (n.marked <=> told.marked) /\ (n.narrowed <=> told.narrowed)
  BY ONLY <1>1, <1>3 DEF ToldMembers, ToldOthers
<1>4. ASSUME NEW n, n = [told EXCEPT !.borrowed = FALSE]
      PROVE  /\ n \in ToldMembers /\ ToldOthers(n, told) /\ ~n.borrowed
             /\ (n.early <=> told.early) /\ (n.apart <=> told.apart)
             /\ (n.marked <=> told.marked) /\ (n.narrowed <=> told.narrowed)
  BY ONLY <1>1, <1>4 DEF ToldMembers, ToldOthers
<1> QED
  BY <1>1, <1>2, <1>3, <1>4, Zenon

LEMMA ClearSearchStep ==
    ASSUME IInv, ClearSearch
    PROVE  IInv'
<1> USE DEF IInv
<1>1. /\ file \in FileMembers /\ file.current \in file.made /\ file.current \in Searches
      /\ file.rule \in Rules(Lines) /\ file.refresh \in AutoRefresh /\ asked \in [Searches -> Known]
      /\ file.searches \in [Searches -> SearchMembers] /\ NoPattern \in Known
  BY DEF TypeInv, FileMembers, Known
<1>2. /\ file' = [StopHolding(file, file.current) EXCEPT
                    !.rule = SearchCleared(@), !.searches[file.current] = Idle, !.refresh = ResetState(@)]
      /\ asked' = [asked EXCEPT ![file.current] = NoPattern]
      /\ told' = [told EXCEPT !.borrowed = FALSE]
      /\ Once("calls") /\ UNCHANGED searchCall
  BY Zenon DEF ClearSearch, Called
<1>3. PICK g : g = StopHolding(file, file.current)
  OBVIOUS
<1>4. /\ g \in FileMembers /\ Others(g, file) /\ g.rule = file.rule /\ g.refresh = file.refresh
      /\ g.searches = file.searches /\ g.pattern = file.pattern
      /\ g.heldBefore = file.heldBefore \ {file.current}
      /\ \A t \in Searches : g.heldAfter[t] = IF t = file.current THEN NoPattern ELSE file.heldAfter[t]
  BY <1>1, <1>3, StopHoldingFacts
<1>5. PICK r, a, h : /\ r = SearchCleared(file.rule) /\ a = ResetState(file.refresh)
                     /\ h = [file.searches EXCEPT ![file.current] = Idle]
  OBVIOUS
<1>6. /\ r \in Rules(Lines) /\ RuleOthers(r, file.rule) /\ ~r.searchWaits
      /\ a \in AutoRefresh /\ a.state = "NoSearch"
  BY <1>1, <1>5, RuleFacts, AutoRefreshFacts
<1>7. h \in [Searches -> SearchMembers] /\ \A t \in Searches : h[t] = IF t = file.current THEN Idle ELSE file.searches[t]
  BY <1>1, <1>5, IdleFacts
<1>8. PICK m : m = file'
  OBVIOUS
<1>9. m = [g EXCEPT !.rule = r, !.searches = h, !.refresh = a]
  BY <1>2, <1>3, <1>4, <1>5, <1>8 DEF FileMembers
<1>10. /\ m \in FileMembers /\ m.rule = r /\ m.searches = h /\ m.refresh = a
       /\ m.pattern = g.pattern /\ m.heldBefore = g.heldBefore /\ m.heldAfter = g.heldAfter /\ Others(m, g)
  BY ONLY <1>4, <1>6, <1>7, <1>9 DEF FileMembers, Others
<1>11. Others(m, file)
  BY <1>4, <1>10 DEF Others
<1>12. /\ told' \in ToldMembers /\ ToldOthers(told', told) /\ ~told'.borrowed
       /\ (told'.early <=> told.early) /\ (told'.apart <=> told.apart)
       /\ (told'.marked <=> told.marked) /\ (told'.narrowed <=> told.narrowed)
  BY <1>2, ToldFrame
<1>13. asked' \in [Searches -> Known] /\ \A t \in Searches : asked'[t] = IF t = file.current THEN NoPattern ELSE asked[t]
  BY <1>1, <1>2
<1>14. CallsSearch
  BY <1>1, <1>2, <1>6, <1>8, <1>10, <1>11, <1>12, <1>13 DEF CallsSearch, searchCall, logData, Others
<1>15. LinesInv'
  BY <1>8, <1>11, <1>12, <1>14, CallFrame DEF Others
<1>16. SettingCall(m, Idle)
  <2>1. /\ m.made = file.made /\ m.current = file.current /\ m.waiting = file.waiting
        /\ m.marks = file.marks /\ m.pattern = file.pattern /\ m.heldBefore \subseteq file.heldBefore
    BY <1>4, <1>10, <1>11 DEF Others
  <2>2. ASSUME NEW s \in Searches
        PROVE  /\ s # file.current => m.searches[s] = file.searches[s]
               /\ m.heldAfter[s] = NoPattern \/ m.heldAfter[s] = file.heldAfter[s]
               /\ asked'[s] # NoPattern => asked'[s] = asked[s] /\ WaitsWith(m, s) = WaitsWith(file, s)
    BY <1>4, <1>7, <1>10, <1>13, <2>1 DEF WaitsWith
  <2>3. /\ m.searches[file.current] = Idle /\ ~m.rule.searchWaits /\ m.refresh.state = "NoSearch"
        /\ asked'[file.current] = NoPattern
    BY <1>1, <1>6, <1>7, <1>10, <1>13
  <2>4. file.rule.loadFinishedOnce => m.heldBefore = {}
    BY <2>1 DEF WaitInv
  <2> QED
    BY <1>8, <1>12, <1>14, <2>1, <2>2, <2>3, <2>4 DEF SettingCall, IsAutoRefreshAllowed
<1> QED
  BY <1>15, <1>16, SettingCallStep

LEMMA StopSearchStep ==
    ASSUME IInv, StopSearch
    PROVE  IInv'
<1> USE DEF IInv
<1>1. /\ file \in FileMembers /\ file.current \in file.made /\ file.current \in Searches
      /\ file.rule \in Rules(Lines) /\ file.refresh \in AutoRefresh /\ asked \in [Searches -> Known]
      /\ file.searches \in [Searches -> SearchMembers] /\ NoPattern \in Known
      /\ Shaped(file.searches[file.current])
  BY DEF TypeInv, FileMembers, Known, SearchesInv
<1>2. /\ file' = [StopHolding(file, file.current) EXCEPT
                    !.rule = WaitingSearchDropped(@), !.searches[file.current] = Stop(@), !.refresh = Suspend(@)]
      /\ asked' = [asked EXCEPT ![file.current] = NoPattern]
      /\ told' = told
      /\ Once("calls") /\ UNCHANGED searchCall
  BY Zenon DEF StopSearch, Called
<1>3. PICK g : g = StopHolding(file, file.current)
  OBVIOUS
<1>4. /\ g \in FileMembers /\ Others(g, file) /\ g.rule = file.rule /\ g.refresh = file.refresh
      /\ g.searches = file.searches /\ g.pattern = file.pattern
      /\ g.heldBefore = file.heldBefore \ {file.current}
      /\ \A t \in Searches : g.heldAfter[t] = IF t = file.current THEN NoPattern ELSE file.heldAfter[t]
  BY <1>1, <1>3, StopHoldingFacts
<1>5. PICK r, a, c, h : /\ r = WaitingSearchDropped(file.rule) /\ a = Suspend(file.refresh)
                        /\ c = Stop(file.searches[file.current])
                        /\ h = [file.searches EXCEPT ![file.current] = c]
  OBVIOUS
<1>6. /\ r \in Rules(Lines) /\ RuleOthers(r, file.rule) /\ ~r.searchWaits
      /\ (r.searchRequested <=> file.rule.searchRequested)
  BY <1>1, <1>5, RuleFacts
<1>7. /\ a \in AutoRefresh
      /\ a.state \in {"Static", "Autorefreshing"} => file.refresh.state \in {"Static", "Autorefreshing"}
      /\ a.state # "Autorefreshing" /\ (file.refresh.state = "NoSearch" => a.state = "NoSearch")
      /\ IsAutoRefreshAllowed(a) => IsAutoRefreshAllowed(file.refresh)
  BY <1>1, <1>5, AutoRefreshFacts
<1>8. h \in [Searches -> SearchMembers] /\ \A t \in Searches : h[t] = IF t = file.current THEN c ELSE file.searches[t]
  BY <1>1, <1>5, StopFacts
<1>9. PICK m : m = file'
  OBVIOUS
<1>10. m = [g EXCEPT !.rule = r, !.searches = h, !.refresh = a]
  <2>1. m = [g EXCEPT !.rule = WaitingSearchDropped(g.rule),
                      !.searches = [g.searches EXCEPT ![file.current] = Stop(g.searches[file.current])],
                      !.refresh = Suspend(g.refresh)]
    BY <1>2, <1>3, <1>4, <1>9 DEF FileMembers
  <2> QED
    BY ONLY <1>4, <1>5, <2>1, Zenon
<1>11. /\ m \in FileMembers /\ m.rule = r /\ m.searches = h /\ m.refresh = a
       /\ m.pattern = g.pattern /\ m.heldBefore = g.heldBefore /\ m.heldAfter = g.heldAfter /\ Others(m, g)
  BY ONLY <1>4, <1>6, <1>7, <1>8, <1>10 DEF FileMembers, Others
<1>12. Others(m, file)
  BY <1>4, <1>11 DEF Others
<1>13. asked' \in [Searches -> Known] /\ \A t \in Searches : asked'[t] = IF t = file.current THEN NoPattern ELSE asked[t]
  BY <1>1, <1>2
<1>14. CallsSearch
  BY <1>1, <1>2, <1>6, <1>9, <1>11, <1>12, <1>13, ToldFrame DEF CallsSearch, searchCall, logData, Others
<1>15. LinesInv'
  BY <1>2, <1>9, <1>12, <1>14, CallFrame DEF Others
<1>16. SettingCall(m, c)
  <2>1. /\ m.made = file.made /\ m.current = file.current /\ m.waiting = file.waiting
        /\ m.marks = file.marks /\ m.pattern = file.pattern /\ m.heldBefore \subseteq file.heldBefore
    BY <1>4, <1>11, <1>12 DEF Others
  <2>2. ASSUME NEW s \in Searches
        PROVE  /\ s # file.current => m.searches[s] = file.searches[s]
               /\ m.heldAfter[s] = NoPattern \/ m.heldAfter[s] = file.heldAfter[s]
               /\ asked'[s] # NoPattern => asked'[s] = asked[s] /\ WaitsWith(m, s) = WaitsWith(file, s)
    BY <1>4, <1>8, <1>11, <1>13, <2>1 DEF WaitsWith
  <2>3. m.searches[file.current] = c /\ c = Stop(file.searches[file.current])
    BY <1>1, <1>5, <1>8, <1>11
  <2>4. file.rule.loadFinishedOnce => m.heldBefore = {}
    BY <2>1 DEF WaitInv
  <2> QED
    BY <1>2, <1>6, <1>7, <1>9, <1>11, <1>14, <2>1, <2>2, <2>3, <2>4 DEF SettingCall
<1> QED
  BY <1>15, <1>16, SettingCallStep

LEMMA FollowCallStep ==
    ASSUME IInv, ChangeSearchExpression \/ AskAutoRefresh
    PROVE  IInv'
<1> USE DEF IInv
<1>1. /\ file \in FileMembers /\ file.current \in file.made /\ file.refresh \in AutoRefresh
      /\ asked \in [Searches -> Known]
  BY DEF TypeInv, FileMembers
<1>2. /\ asked' = asked /\ Once("calls") /\ UNCHANGED searchCall
      /\ \/ file' = [file EXCEPT !.refresh = Suspend(@)] /\ told' = told
         \/ /\ file' = [file EXCEPT !.refresh = SetAutoRefresh(@, ~file.refresh.requested)]
            /\ told' = [told EXCEPT !.apart = TRUE]
  BY Zenon DEF ChangeSearchExpression, AskAutoRefresh, Called
<1>3. PICK a : \/ a = Suspend(file.refresh) /\ file' = [file EXCEPT !.refresh = a] /\ told' = told
               \/ /\ a = SetAutoRefresh(file.refresh, ~file.refresh.requested)
                  /\ file' = [file EXCEPT !.refresh = a] /\ told' = [told EXCEPT !.apart = TRUE]
  BY <1>2
<1>4. /\ a \in AutoRefresh
      /\ a.state \in {"Static", "Autorefreshing"} => file.refresh.state \in {"Static", "Autorefreshing"}
      /\ file.refresh.state = "NoSearch" => a.state = "NoSearch"
      /\ IsAutoRefreshAllowed(a) => IsAutoRefreshAllowed(file.refresh) \/ a.state = "Autorefreshing"
      /\ a.state # "Autorefreshing" \/ told'.apart
  <2>1. CASE a = Suspend(file.refresh)
    BY <1>1, <2>1, AutoRefreshFacts
  <2>2. CASE a = SetAutoRefresh(file.refresh, ~file.refresh.requested) /\ told' = [told EXCEPT !.apart = TRUE]
    <3>1. PICK wanted \in BOOLEAN : wanted = ~file.refresh.requested
      BY Zenon
    <3>2. a = SetAutoRefresh(file.refresh, wanted)
      BY ONLY <2>2, <3>1, Zenon
    <3>3. IsAutoRefreshAllowed(a) => IsAutoRefreshAllowed(file.refresh) \/ a.state = "Autorefreshing"
      BY <1>1, <3>2 DEF SetAutoRefresh, IsAutoRefreshAllowed, AutoRefresh, RefreshStates
    <3>4. told'.apart
      BY <2>2, ToldFrame
    <3>5. PICK n : n = SetAutoRefresh(file.refresh, wanted)
      OBVIOUS
    <3>6. /\ n \in AutoRefresh
          /\ n.state \in {"Static", "Autorefreshing"} => file.refresh.state \in {"Static", "Autorefreshing"}
          /\ file.refresh.state = "NoSearch" => n.state = "NoSearch"
      BY <1>1, <3>1, <3>5, AutoRefreshFacts
    <3> QED
      BY <3>2, <3>3, <3>4, <3>5, <3>6
  <2> QED
    BY <1>3, <2>1, <2>2
<1>5. PICK m : m = file'
  OBVIOUS
<1>6. m = [file EXCEPT !.refresh = a]
  BY <1>3, <1>5
<1>7. /\ m \in FileMembers /\ m.refresh = a /\ Others(m, file) /\ m.rule = file.rule /\ m.pattern = file.pattern
      /\ m.heldBefore = file.heldBefore /\ m.heldAfter = file.heldAfter /\ m.searches = file.searches
  BY ONLY <1>1, <1>4, <1>6 DEF FileMembers, Others
<1>8. /\ told' \in ToldMembers /\ ToldOthers(told', told)
      /\ (told'.early <=> told.early) /\ (told'.borrowed <=> told.borrowed)
      /\ (told'.marked <=> told.marked) /\ (told'.narrowed <=> told.narrowed)
  BY <1>3, ToldFrame
<1>9. CallsSearch
  BY <1>1, <1>2, <1>5, <1>7, <1>8, ToldFrame DEF CallsSearch, searchCall, logData, Others
<1>10. LinesInv'
  BY <1>5, <1>7, <1>8, <1>9, CallFrame DEF Others
<1>11. SettingCall(m, file.searches[file.current])
  <2>1. /\ m.made = file.made /\ m.current = file.current /\ m.waiting = file.waiting /\ m.marks = file.marks
    BY <1>7 DEF Others
  <2>2. \A s \in Searches : WaitsWith(m, s) = WaitsWith(file, s)
    BY <1>7, <2>1 DEF WaitsWith
  <2>3. file.rule.loadFinishedOnce => m.heldBefore = {}
    BY <1>7 DEF WaitInv
  <2> QED
    BY <1>2, <1>4, <1>5, <1>7, <1>8, <1>9, <2>1, <2>2, <2>3 DEF SettingCall
<1> QED
  BY <1>10, <1>11, SettingCallStep

LEMMA SetSearchLimitsStep ==
    ASSUME IInv, SetSearchLimits
    PROVE  IInv'
<1> USE DEF IInv
<1>1. /\ file \in FileMembers /\ file.current \in file.made /\ asked \in [Searches -> Known] /\ told \in ToldMembers
  BY DEF TypeInv, FileMembers
<1>2. PICK limits \in Limits :
           /\ limits.start < limits.end /\ limits.end <= NbLines
           /\ file' = [file EXCEPT !.limits = limits]
           /\ told' = [told EXCEPT !.apart = TRUE, !.narrowed = limits # [start |-> 0, end |-> NbLines]]
  BY Zenon DEF SetSearchLimits
<1>3. /\ asked' = asked /\ Once("calls") /\ UNCHANGED searchCall
  BY DEF SetSearchLimits, Called
<1>4. PICK narrow \in BOOLEAN : narrow = (limits # [start |-> 0, end |-> NbLines])
  BY Zenon
<1>5. told' = [told EXCEPT !.apart = TRUE, !.narrowed = narrow]
  BY ONLY <1>2, <1>4, Zenon
<1>6. /\ told' \in ToldMembers /\ ToldOthers(told', told) /\ told'.apart /\ (told'.narrowed <=> narrow)
      /\ (told'.early <=> told.early) /\ (told'.borrowed <=> told.borrowed) /\ (told'.marked <=> told.marked)
  BY ONLY <1>1, <1>4, <1>5 DEF ToldMembers, ToldOthers
<1>7. PICK m : m = file'
  OBVIOUS
<1>8. /\ m \in FileMembers /\ m.limits = limits /\ m.refresh = file.refresh
      /\ m.rule = file.rule /\ m.pattern = file.pattern
      /\ m.heldBefore = file.heldBefore /\ m.heldAfter = file.heldAfter /\ m.searches = file.searches
      /\ (m.opened <=> file.opened) /\ m.made = file.made /\ m.current = file.current
      /\ m.waiting = file.waiting /\ m.marks = file.marks /\ m.format = file.format /\ m.sampled = file.sampled
  BY <1>1, <1>2, <1>7 DEF FileMembers
<1>9. CallsSearch
  BY <1>1, <1>3, <1>6, <1>7, <1>8, ToldFrame DEF CallsSearch, searchCall, logData
<1>10. LinesInv'
  <2>1. /\ (Still' <=> Still) /\ (Added' <=> Added) /\ NbLines' = NbLines
        /\ index' = index /\ queue' = queue /\ run' = run /\ told'.lines = told.lines
    BY <1>3, <1>6, <1>9, CallFrame DEF searchCall, logData, ToldOthers
  <2>2. ~narrow => limits = Whole(NbLines)
    BY <1>4 DEF Whole
  <2>3. NbLines = Len(told.lines) \/ ~Still
    BY DEF LinesInv, NbLines
  <2>4. ~told'.narrowed =>
          \/ limits = Whole(file.rule.loadedLines)
          \/ run.at = "ended" /\ queue.running # Check /\ limits = Whole(NbLines)
    <3>1. CASE Still
      BY <1>6, <2>2, <2>3, <3>1 DEF LinesInv
    <3>2. CASE ~Still
      <4>1. run.at # "reading"
        <5>1. NbLines > 0
          BY <1>2, OpenLogFileAssumption DEF Limits, Lines, TypeInv
        <5> QED
          BY <5>1 DEF RunInv, NoLines, NbLines
      <4> QED
        BY <1>6, <2>2, <3>2, <4>1 DEF Still, TypeInv
    <3> QED
      BY <3>1, <3>2
  <2> QED
    BY <1>2, <1>7, <1>8, <2>1, <2>4 DEF LinesInv
<1>11. SettingCall(m, file.searches[file.current])
  <2>1. \A s \in Searches : WaitsWith(m, s) = WaitsWith(file, s)
    BY <1>8 DEF WaitsWith
  <2>2. file.rule.loadFinishedOnce => m.heldBefore = {}
    BY <1>8 DEF WaitInv
  <2> QED
    BY <1>3, <1>6, <1>7, <1>8, <1>9, <2>1, <2>2 DEF SettingCall
<1> QED
  BY <1>10, <1>11, SettingCallStep

LEMMA HoldWaitingSearchesStep ==
    ASSUME IInv, HoldWaitingSearches
    PROVE  IInv'
<1> USE DEF IInv
<1>1. /\ file \in FileMembers /\ file.current \in file.made /\ asked \in [Searches -> Known] /\ told \in ToldMembers
  BY DEF TypeInv, FileMembers
<1>2. PICK held \in SUBSET Searches : file' = [file EXCEPT !.heldBefore = held]
  BY DEF HoldWaitingSearches
<1>3. /\ asked' = asked /\ told' = told /\ Once("calls") /\ UNCHANGED searchCall /\ ~file.rule.loadFinishedOnce
  BY DEF HoldWaitingSearches, Called
<1>4. PICK m : m = file'
  OBVIOUS
<1>5. /\ m \in FileMembers /\ m.limits = file.limits /\ m.refresh = file.refresh
      /\ m.rule = file.rule /\ m.pattern = file.pattern
      /\ m.heldAfter = file.heldAfter /\ m.searches = file.searches
      /\ (m.opened <=> file.opened) /\ m.made = file.made /\ m.current = file.current
      /\ m.waiting = file.waiting /\ m.marks = file.marks /\ m.format = file.format /\ m.sampled = file.sampled
  BY <1>1, <1>2, <1>4 DEF FileMembers
<1>6. CallsSearch
  BY <1>1, <1>3, <1>4, <1>5, ToldFrame DEF CallsSearch, searchCall, logData
<1>7. LinesInv'
  BY <1>3, <1>4, <1>5, <1>6, CallFrame
<1>8. SettingCall(m, file.searches[file.current])
  <2>1. \A s \in Searches : WaitsWith(m, s) = WaitsWith(file, s)
    BY <1>5 DEF WaitsWith
  <2> QED
    BY <1>3, <1>4, <1>5, <1>6, <2>1 DEF SettingCall
<1> QED
  BY <1>7, <1>8, SettingCallStep

LEMMA StopLoadingStep ==
    ASSUME IInv, StopLoading
    PROVE  IInv'
<1> USE DEF IInv
<1>1. /\ file \in FileMembers /\ file.current \in file.made /\ file.current \in Searches
      /\ file.searches \in [Searches -> SearchMembers] /\ asked \in [Searches -> Known]
      /\ Shaped(file.searches[file.current])
  BY DEF TypeInv, FileMembers, SearchesInv
<1>2. /\ file' = [file EXCEPT !.searches[file.current] = Stop(@)]
      /\ run' = Interrupted(run) /\ Once("calls")
      /\ UNCHANGED <<disk, index, queue, linesBefore, asked, told>>
  BY DEF StopLoading, Called
<1>3. PICK c, h : c = Stop(file.searches[file.current]) /\ h = [file.searches EXCEPT ![file.current] = c]
  OBVIOUS
<1>4. h \in [Searches -> SearchMembers] /\ \A t \in Searches : h[t] = IF t = file.current THEN c ELSE file.searches[t]
  BY <1>1, <1>3, StopFacts
<1>5. PICK m : m = file'
  OBVIOUS
<1>6. m = [file EXCEPT !.searches = h]
  BY <1>1, <1>2, <1>3, <1>5 DEF FileMembers
<1>7. /\ m \in FileMembers /\ m.searches = h /\ Others(m, file) /\ m.rule = file.rule
      /\ m.pattern = file.pattern /\ m.refresh = file.refresh
      /\ m.heldBefore = file.heldBefore /\ m.heldAfter = file.heldAfter
  BY ONLY <1>1, <1>4, <1>6 DEF FileMembers, Others
<1>8. CallsSearch
  BY <1>1, <1>2, <1>5, <1>7, ToldFrame DEF CallsSearch, Others
<1>9. LinesInv'
  BY <1>2, <1>5, <1>7, <1>8, CallFrame DEF Others
<1>10. SettingCall(m, c)
  <2>1. /\ m.made = file.made /\ m.current = file.current /\ m.waiting = file.waiting
        /\ m.marks = file.marks /\ m.limits = file.limits
    BY <1>7 DEF Others
  <2>2. \A s \in Searches : WaitsWith(m, s) = WaitsWith(file, s)
    BY <1>7, <2>1 DEF WaitsWith
  <2>3. file.rule.loadFinishedOnce => m.heldBefore = {}
    BY <1>7 DEF WaitInv
  <2>4. /\ m.searches[file.current] = c /\ c = Stop(file.searches[file.current])
        /\ \A s \in Searches : s # file.current => m.searches[s] = file.searches[s]
    BY <1>1, <1>3, <1>4, <1>7
  <2>5. asked' = asked /\ told' = told
    BY <1>2
  <2> QED
    BY <1>5, <1>7, <1>8, <2>1, <2>2, <2>3, <2>4, <2>5 DEF SettingCall
<1> QED
  BY <1>9, <1>10, SettingCallStep

\* A Search that completes reads the Log Lines there are.
LEMMA SearchCompletesStep ==
    ASSUME IInv, SearchCompletes
    PROVE  IInv'
<1> USE DEF IInv
<1>1. /\ file \in FileMembers /\ file.current \in file.made /\ file.made \subseteq Searches
      /\ file.searches \in [Searches -> SearchMembers] /\ asked \in [Searches -> Known]
      /\ file.limits \in Limits
  BY DEF TypeInv, FileMembers
<1>2. PICK s \in file.made : /\ file.searches[s].phase = "Running"
                             /\ file' = [file EXCEPT !.searches[s] = Completed(@)]
  BY DEF SearchCompletes
<1>3. UNCHANGED <<disk, index, queue, run, linesBefore, asked, told, counts>>
  BY DEF SearchCompletes, logData
<1>4. PICK search : search = file.searches[s]
  OBVIOUS
<1>5. search \in SearchMembers /\ Shaped(search) /\ (Trusted => ReadFrom(search, index.lines)) /\ search.phase = "Running"
  BY <1>1, <1>2, <1>4 DEF SearchesInv
<1>6. PICK n, h : n = Completed(search) /\ h = [file.searches EXCEPT ![s] = n]
  OBVIOUS
<1>7. /\ n \in SearchMembers /\ Shaped(n) /\ n.phase = "Complete"
      /\ n.pattern = search.pattern /\ n.reader = search.reader
      /\ n.start = search.start /\ n.end = search.end
      /\ Trusted => ReadFrom(n, index.lines)
      /\ search.end <= NbLines /\ (\A i \in 1..(Len(search.seen) - 1) :
                                      search.seen[i] = index.lines[search.start + i])
           => \A i \in 1..Len(n.seen) : n.seen[i] = index.lines[n.start + i]
  BY <1>5, <1>6, CompletedFacts
<1>8. h \in [Searches -> SearchMembers] /\ \A t \in Searches : h[t] = IF t = s THEN n ELSE file.searches[t]
  BY <1>1, <1>6, <1>7
<1>9. PICK m : m = file'
  OBVIOUS
<1>10. m = [file EXCEPT !.searches = h]
  BY <1>1, <1>2, <1>4, <1>6, <1>9 DEF FileMembers
<1>11. /\ m \in FileMembers /\ m.searches = h /\ Others(m, file) /\ m.rule = file.rule
       /\ m.pattern = file.pattern /\ m.refresh = file.refresh
       /\ m.heldBefore = file.heldBefore /\ m.heldAfter = file.heldAfter
  BY ONLY <1>1, <1>8, <1>10 DEF FileMembers, Others
<1>12. /\ m.made = file.made /\ m.current = file.current /\ m.waiting = file.waiting
       /\ m.marks = file.marks /\ m.limits = file.limits /\ m.format = file.format
  BY <1>11 DEF Others
<1>13. CallsSearch
  BY <1>1, <1>3, <1>9, <1>11, ToldFrame DEF CallsSearch, Others
<1>14. /\ TypeInv' /\ RunInv' /\ Opening' /\ HonestInv' /\ StopInv' /\ FormatInv' /\ LinesInv'
       /\ (Still' <=> Still) /\ (Added' <=> Added) /\ (Trusted' <=> Trusted) /\ (ReadAgain' <=> ReadAgain)
  BY <1>3, <1>9, <1>12, <1>13, CallFrame
<1>15. SearchesInv'
  BY <1>3, <1>7, <1>8, <1>9, <1>11, <1>14 DEF SearchesInv
<1>16. WaitInv'
  <2>1. s \in Searches /\ file.rule.loadFinishedOnce /\ asked[s] = NoPattern
    BY <1>1, <1>2 DEF WaitInv
  <2>2. \A t \in Searches : WaitsWith(m, t) = WaitsWith(file, t)
    BY <1>11, <1>12 DEF WaitsWith
  <2>3. \A t \in Searches : t # s => m.searches[t] = file.searches[t]
    BY <1>8, <1>11
  <2>4. \A t \in Searches \ m.made :
          /\ m.searches[t] = Idle
          /\ m.waiting[t] = NoPattern /\ m.heldAfter[t] = NoPattern /\ asked[t] = NoPattern
    BY <1>2, <1>11, <1>12, <2>3 DEF WaitInv
  <2>5. \A t \in Searches : asked[t] # NoPattern => m.searches[t].phase = "Idle" /\ WaitsWith(m, t) = asked[t]
    BY <2>1, <2>2, <2>3 DEF WaitInv, AskedIsKept
  <2> QED
    BY <1>3, <1>9, <1>11, <1>12, <2>1, <2>4, <2>5 DEF WaitInv, AskedIsKept
<1>17. FieldInv' /\ FollowInv'
  <2>1. CASE s = file.current
    <3>1. m.searches[m.current] = n /\ file.searches[file.current] = search
      BY <1>1, <1>4, <1>8, <1>11, <1>12, <2>1
    <3>2. FieldInv'
      BY <1>3, <1>5, <1>7, <1>9, <1>11, <1>12, <3>1 DEF FieldInv
    <3>3. ASSUME m.refresh.state = "Autorefreshing", ~told.early, ~told.borrowed, ~told.apart
          PROVE  /\ n.start = m.limits.start /\ n.end = m.limits.end
                 /\ Still \/ Added => \A i \in 1..Len(n.seen) : n.seen[i] = index.lines[n.start + i]
      <4>1. /\ search.start = file.limits.start /\ search.end = file.limits.end
            /\ Still \/ Added =>
                 \A i \in 1..Len(search.seen) :
                    i < Len(search.seen) => search.seen[i] = index.lines[search.start + i]
        BY <1>11, <3>1, <3>3 DEF FollowInv
      <4>2. \A i \in 1..(Len(search.seen) - 1) : i \in 1..Len(search.seen) /\ i < Len(search.seen)
        BY <1>5 DEF SearchMembers
      <4>3. Still \/ Added => search.end <= NbLines
        BY <4>1 DEF LinesInv
      <4> QED
        BY <1>7, <1>12, <4>1, <4>2, <4>3
    <3>4. /\ m.refresh.state \in {"Static", "Autorefreshing"} /\ ~told.borrowed => n.pattern = m.pattern
          /\ ~told.early /\ ~told.borrowed => ~ReadAgain
      BY <1>5, <1>7, <1>11, <3>1 DEF FollowInv
    <3>5. FollowInv'
      BY <1>3, <1>7, <1>9, <1>12, <1>14, <3>1, <3>3, <3>4 DEF FollowInv
    <3> QED
      BY <3>2, <3>5
  <2>2. CASE s # file.current
    <3>1. m.searches[m.current] = file.searches[file.current]
      BY <1>1, <1>8, <1>11, <1>12, <2>2
    <3> QED
      BY <1>3, <1>9, <1>11, <1>12, <1>13, <3>1, OtherSearchFrame
  <2> QED
    BY <2>1, <2>2
<1>18. SavedMarksAreKept'
  BY <1>3, <1>9, <1>11, <1>12 DEF SavedMarksAreKept
<1> QED
  BY <1>14, <1>15, <1>16, <1>17, <1>18

-----------------------------------------------------------------------------
(* What a Check found.                                                     *)

LEMMA RunFacts ==
    /\ NoRun = [at |-> "off", superseded |-> FALSE, outcome |-> "None"]
    /\ Queued = [at |-> "queued", superseded |-> FALSE, outcome |-> "None"]
<1>1. NoRun = [at |-> "off", superseded |-> FALSE, outcome |-> "None"]
  BY DEF NoRun
<1>2. Queued = [NoRun EXCEPT !.at = "queued"]
  BY DEF Queued
<1> QED
  BY <1>1, <1>2

\* The queue after the Check has ended, a job having arrived or not.
AfterCheck ==
    /\ Delivered /\ run.outcome \in CheckOutcomes
    /\ UNCHANGED <<logFile, unreported, posted, watched, index, asked, counts>>
    /\ linesBefore' \in Lines
    /\ queue' \in [running : JobsHere, waiting : Waiting]
    /\ queue'.running # Attach(NoEncoding) /\ queue'.waiting = NoJob
    /\ run' = IF queue'.running = NoJob THEN NoRun ELSE Queued
    /\ queue'.running = Partial => index.recorded /\ linesBefore' = NbLines
    /\ queue'.running \in Fulls => file'.rule.truncated
    /\ file' \in FileMembers /\ file'.current \in file'.made
    /\ file'.opened <=> file.opened
    /\ file'.limits = file.limits /\ file'.rule.loadedLines = file.rule.loadedLines
    /\ file'.rule.loadFinishedOnce <=> file.rule.loadFinishedOnce
    /\ told' \in ToldMembers /\ told'.lines = told.lines
    /\ told'.honest <=> told.honest
    /\ told'.narrowed <=> told.narrowed

LEMMA AfterCheckFrame ==
    ASSUME IInv, AfterCheck
    PROVE  /\ TypeInv' /\ RunInv' /\ Opening' /\ LinesInv' /\ HonestInv'
           /\ Still /\ Still' /\ (Trusted' <=> Trusted) /\ run'.at # "ended" /\ queue.running = Check
           /\ (ReadAgain <=> queue.waiting \in Fulls) /\ (ReadAgain' <=> queue'.running \in Fulls)
           /\ file.opened /\ file.rule.loadFinishedOnce
<1> USE DEF IInv
<1>1. /\ Delivered /\ run.outcome \in CheckOutcomes
      /\ UNCHANGED <<logFile, unreported, posted, watched, index, asked, counts>>
      /\ linesBefore' \in Lines
      /\ queue' \in [running : JobsHere, waiting : Waiting]
      /\ queue'.running # Attach(NoEncoding) /\ queue'.waiting = NoJob
      /\ run' = IF queue'.running = NoJob THEN NoRun ELSE Queued
      /\ queue'.running = Partial => index.recorded /\ linesBefore' = NbLines
      /\ queue'.running \in Fulls => file'.rule.truncated
  BY DEF AfterCheck
<1>2. /\ file' \in FileMembers /\ file'.current \in file'.made
      /\ (file'.opened <=> file.opened)
      /\ file'.limits = file.limits /\ file'.rule.loadedLines = file.rule.loadedLines
      /\ (file'.rule.loadFinishedOnce <=> file.rule.loadFinishedOnce)
      /\ told' \in ToldMembers /\ told'.lines = told.lines
      /\ (told'.honest <=> told.honest)
      /\ (told'.narrowed <=> told.narrowed)
  BY DEF AfterCheck
<1>3. queue.running = Check /\ run.at = "ended"
  BY <1>1 DEF RunInv, Delivered
<1>4. /\ Check \notin Fulls /\ NoJob \notin Fulls /\ Check # Attach(NoEncoding) /\ NoJob # Attach(NoEncoding)
      /\ Check # NoJob /\ Check # Partial
  BY DEF Check, NoJob, Partial, Attach, Fulls, Automatic, Explicit
<1>5. /\ run' \in [at : {"off", "queued", "reading", "ended"}, superseded : BOOLEAN,
                   outcome : {"None"} \cup LoadedOutcomes \cup CheckOutcomes]
      /\ run'.at = IF queue'.running = NoJob THEN "off" ELSE "queued"
  <2>1. /\ NoRun = [at |-> "off", superseded |-> FALSE, outcome |-> "None"]
        /\ Queued = [at |-> "queued", superseded |-> FALSE, outcome |-> "None"]
    BY RunFacts
  <2>2. PICK q : q = queue'.running
    OBVIOUS
  <2>3. PICK n : n = run'
    OBVIOUS
  <2>4. n = IF q = NoJob THEN NoRun ELSE Queued
    BY ONLY <1>1, <2>2, <2>3, Zenon
  <2>5. CASE q = NoJob
    <3>1. n = [at |-> "off", superseded |-> FALSE, outcome |-> "None"]
      BY ONLY <2>1, <2>4, <2>5
    <3> QED
      BY ONLY <2>2, <2>3, <2>5, <3>1
  <2>6. CASE q # NoJob
    <3>1. n = [at |-> "queued", superseded |-> FALSE, outcome |-> "None"]
      BY ONLY <2>1, <2>4, <2>6
    <3> QED
      BY ONLY <2>2, <2>3, <2>6, <3>1
  <2> QED
    BY <2>5, <2>6
<1>6. Still /\ Still' /\ ~Added /\ ~Added' /\ NbLines' = NbLines
  BY <1>1, <1>3, <1>4, <1>5 DEF Still, Added, NbLines
<1>7. Trusted' <=> Trusted
  BY <1>1, <1>3, <1>4, <1>5 DEF Trusted
<1>8. /\ (ReadAgain <=> queue.waiting \in Fulls)
      /\ (ReadAgain' <=> queue'.running \in Fulls)
  BY <1>1, <1>3, <1>4 DEF ReadAgain
<1>9. file.opened /\ file.rule.loadFinishedOnce
  BY <1>3, <1>4 DEF Opening, NoJobs
<1>10. TypeInv'
  BY <1>1, <1>2, <1>5, <1>6 DEF TypeInv
<1>11. RunInv'
  BY <1>1, <1>5, <1>6 DEF RunInv
<1>12. Opening'
  BY <1>1, <1>2, <1>9 DEF Opening
<1>13. LinesInv'
  BY <1>1, <1>2, <1>3, <1>6 DEF LinesInv
<1>14. HonestInv'
  BY <1>1, <1>2, <1>4 DEF HonestInv
<1> QED
  BY <1>3, <1>5, <1>6, <1>7, <1>8, <1>9, <1>10, <1>11, <1>12, <1>13, <1>14

LEMMA HandleFileGrewStep ==
    ASSUME IInv, HandleFileGrew
    PROVE  IInv'
<1> USE DEF IInv
<1>1. /\ run.at = "ended" /\ run.outcome = "DataAdded" /\ linesBefore' = NbLines
      /\ file' = [file EXCEPT !.rule = GrewOnDisk(@)]
      /\ FinishJob(Enqueue(queue, Partial))
      /\ UNCHANGED <<logFile, unreported, posted, watched, index, asked, told, counts>>
  BY DEF HandleFileGrew, Delivered, disk
<1>2. queue.running = Check /\ queue \in [running : JobsHere, waiting : Waiting] /\ index.recorded
  BY <1>1 DEF RunInv, TypeInv, CheckOutcomes
<1>3. /\ Check # NoJob /\ Partial # NoJob /\ NoJob \notin Fulls /\ Partial \notin Fulls
      /\ Waiting \subseteq JobsHere /\ NoJob \in Waiting /\ Partial \in JobsHere
      /\ \A w \in Waiting : w # Attach(NoEncoding) /\ w # Partial
      /\ Partial # Attach(NoEncoding)
  BY DEF Check, NoJob, Partial, Attach, Fulls, Automatic, Explicit, Waiting, JobsHere
<1>4. PICK j : j = WaitingIndexJob(queue.waiting, Partial)
  OBVIOUS
<1>5. j = (IF queue.waiting = NoJob THEN Partial ELSE queue.waiting)
  BY <1>2, <1>4, WaitingFacts
<1>6. queue' = [running |-> j, waiting |-> NoJob]
  <2>1. StartWaiting(Enqueue(queue, Partial)) = [running |-> j, waiting |-> NoJob]
    BY <1>2, <1>3, <1>4, EnqueueFacts
  <2> QED
    BY <1>1, <2>1 DEF FinishJob
<1>7. /\ queue' \in [running : JobsHere, waiting : Waiting] /\ queue'.running = j /\ queue'.waiting = NoJob
      /\ j # NoJob /\ j # Attach(NoEncoding)
      /\ (j \in Fulls <=> queue.waiting \in Fulls) /\ (j = Partial <=> queue.waiting = NoJob)
  BY <1>2, <1>3, <1>5, <1>6
<1>8. run' = IF queue'.running = NoJob THEN NoRun ELSE Queued
  BY <1>1 DEF FinishJob
<1>9. PICK m : m = file'
  OBVIOUS
<1>10. PICK r : r = GrewOnDisk(file.rule)
  OBVIOUS
<1>11. /\ file \in FileMembers /\ file.rule \in Rules(Lines)
  BY DEF TypeInv, FileMembers
<1>12. /\ r \in Rules(Lines) /\ r.loadedLines = file.rule.loadedLines /\ r.watching = file.rule.watching
       /\ r.recognizedFrom = file.rule.recognizedFrom
       /\ (r.loadFinishedOnce <=> file.rule.loadFinishedOnce) /\ (r.truncated <=> file.rule.truncated)
       /\ (r.searchRequested <=> file.rule.searchRequested) /\ (r.searchWaits <=> file.rule.searchWaits)
       /\ (r.savedMarks <=> file.rule.savedMarks) /\ (r.formatPending <=> file.rule.formatPending)
  BY <1>10, <1>11 DEF GrewOnDisk, Rules
<1>13. m = [file EXCEPT !.rule = r]
  BY <1>1, <1>9, <1>10
<1>14. /\ m \in FileMembers /\ m.rule = r /\ Others(m, file) /\ m.pattern = file.pattern
       /\ m.refresh = file.refresh /\ m.searches = file.searches
       /\ m.heldBefore = file.heldBefore /\ m.heldAfter = file.heldAfter
  BY ONLY <1>11, <1>12, <1>13 DEF FileMembers, Others
<1>15. /\ (m.opened <=> file.opened) /\ m.made = file.made /\ m.current = file.current /\ m.waiting = file.waiting
       /\ m.limits = file.limits /\ m.marks = file.marks /\ m.format = file.format /\ m.sampled = file.sampled
  BY <1>14 DEF Others
<1>16. AfterCheck
  <2>1. j \in Fulls => file.rule.truncated
    BY <1>2, <1>7 DEF HonestInv
  <2> QED
    BY <1>1, <1>2, <1>7, <1>8, <1>9, <1>12, <1>14, <1>15, <2>1 DEF AfterCheck, Delivered, CheckOutcomes, TypeInv
<1>17. /\ TypeInv' /\ RunInv' /\ Opening' /\ LinesInv' /\ HonestInv'
       /\ Still /\ Still' /\ (Trusted' <=> Trusted) /\ run'.at # "ended"
       /\ (ReadAgain <=> queue.waiting \in Fulls) /\ (ReadAgain' <=> queue'.running \in Fulls)
  BY <1>16, AfterCheckFrame
<1>18. ReadAgain' <=> ReadAgain
  BY <1>7, <1>17
<1>19. WaitInv'
  <2>1. \A s \in Searches : WaitsWith(m, s) = WaitsWith(file, s)
    BY <1>12, <1>14, <1>15 DEF WaitsWith
  <2> QED
    BY <1>1, <1>9, <1>12, <1>14, <1>15, <2>1 DEF WaitInv, AskedIsKept
<1>20. StopInv'
  BY <1>1, <1>7, <1>9, <1>12, <1>14, <1>17 DEF StopInv
<1>21. FormatInv'
  <2>1. (Unrecognized' <=> Unrecognized) /\ (Sampled' <=> Sampled)
    BY <1>1, <1>9, <1>12, <1>14, <1>15 DEF Unrecognized, Sampled
  <2> QED
    BY <1>1, <1>2, <1>3, <1>7, <1>17, <1>18, <2>1 DEF FormatInv
<1>22. FieldInv' /\ SearchesInv' /\ FollowInv' /\ SavedMarksAreKept'
  BY <1>1, <1>9, <1>12, <1>14, <1>15, <1>17, <1>18 DEF FieldInv, SearchesInv, FollowInv, SavedMarksAreKept
<1> QED
  BY <1>17, <1>19, <1>20, <1>21, <1>22

LEMMA HandleFileUnchangedStep ==
    ASSUME IInv, HandleFileUnchanged
    PROVE  IInv'
<1> USE DEF IInv
<1>1. /\ run.at = "ended" /\ run.outcome = "Unchanged"
      /\ FinishJob(queue)
      /\ UNCHANGED <<logFile, unreported, posted, watched, index, linesBefore, asked, counts>>
  BY Zenon DEF HandleFileUnchanged, Delivered, disk
<1>2. PICK found : found = FoundUnchanged(file.rule)
  OBVIOUS
<1>3. PICK loaded \in BOOLEAN : loaded = LoadedThen
  BY Zenon DEF LoadedThen
<1>4. /\ file' = [file EXCEPT !.rule = found.rule]
      /\ told' = IF Stops(found.step) THEN [told EXCEPT !.stopped = @ + 1, !.stoppedRight = loaded] ELSE told
  <2>1. /\ file' = [file EXCEPT !.rule = FoundUnchanged(file.rule).rule]
        /\ told' = IF Stops(FoundUnchanged(file.rule).step)
                   THEN [told EXCEPT !.stopped = @ + 1, !.stoppedRight = LoadedThen] ELSE told
    BY Zenon DEF HandleFileUnchanged
  <2> QED
    BY ONLY <1>2, <1>3, <2>1, Zenon
<1>5. file \in FileMembers /\ file.rule \in Rules(Lines) /\ told \in ToldMembers
  BY DEF TypeInv, FileMembers
<1>6. /\ found.rule \in Rules(Lines) /\ RuleKeeps(found.rule, file.rule)
      /\ \/ file.rule.watching = "Stopping" /\ found.step = "Stopped" /\ found.rule.watching = "Stopped"
         \/ file.rule.watching # "Stopping" /\ found.step = "None" /\ found.rule.watching = file.rule.watching
  BY <1>2, <1>5, FoundUnchangedFacts
<1>7. PICK r : r = found.rule
  OBVIOUS
<1>8. /\ r \in Rules(Lines) /\ r.loadedLines = file.rule.loadedLines
      /\ r.recognizedFrom = file.rule.recognizedFrom
      /\ (r.loadFinishedOnce <=> file.rule.loadFinishedOnce) /\ (r.truncated <=> file.rule.truncated)
      /\ (r.searchRequested <=> file.rule.searchRequested) /\ (r.searchWaits <=> file.rule.searchWaits)
      /\ (r.savedMarks <=> file.rule.savedMarks) /\ (r.formatPending <=> file.rule.formatPending)
  BY <1>6, <1>7 DEF RuleKeeps
<1>9. PICK m : m = file'
  OBVIOUS
<1>10. m = [file EXCEPT !.rule = r]
  BY <1>4, <1>7, <1>9
<1>11. /\ m \in FileMembers /\ m.rule = r /\ Others(m, file) /\ m.pattern = file.pattern
       /\ m.refresh = file.refresh /\ m.searches = file.searches
       /\ m.heldBefore = file.heldBefore /\ m.heldAfter = file.heldAfter
  BY ONLY <1>5, <1>8, <1>10 DEF FileMembers, Others
<1>12. /\ (m.opened <=> file.opened) /\ m.made = file.made /\ m.current = file.current /\ m.waiting = file.waiting
       /\ m.limits = file.limits /\ m.marks = file.marks /\ m.format = file.format /\ m.sampled = file.sampled
  BY <1>11 DEF Others
<1>13. queue.running = Check /\ queue \in [running : JobsHere, waiting : Waiting]
  BY <1>1 DEF RunInv, TypeInv, CheckOutcomes
<1>14. /\ Waiting \subseteq JobsHere /\ NoJob \in Waiting /\ NoJob \notin Fulls
       /\ \A w \in Waiting : w # Attach(NoEncoding) /\ w # Partial
  BY DEF Check, NoJob, Partial, Attach, Fulls, Automatic, Explicit, Waiting, JobsHere
<1>15. /\ queue' = [running |-> queue.waiting, waiting |-> NoJob]
       /\ run' = IF queue'.running = NoJob THEN NoRun ELSE Queued
  BY <1>1 DEF FinishJob, StartWaiting
<1>16. /\ queue' \in [running : JobsHere, waiting : Waiting]
       /\ queue'.running = queue.waiting /\ queue'.waiting = NoJob
  BY <1>13, <1>14, <1>15
<1>17. /\ told' \in ToldMembers /\ told'.lines = told.lines /\ told'.stopFile = told.stopFile
       /\ (told'.honest <=> told.honest) /\ (told'.narrowed <=> told.narrowed)
       /\ (told'.stopAsked <=> told.stopAsked) /\ (told'.raced <=> told.raced)
       /\ (told'.early <=> told.early) /\ (told'.borrowed <=> told.borrowed) /\ (told'.apart <=> told.apart)
       /\ (told'.reloadRaced <=> told.reloadRaced) /\ (told'.marked <=> told.marked)
       /\ IF found.step = "Stopped" THEN told'.stopped = told.stopped + 1 /\ (told'.stoppedRight <=> loaded)
          ELSE told'.stopped = told.stopped /\ (told'.stoppedRight <=> told.stoppedRight)
  <2>1. CASE found.step = "Stopped"
    <3>1. PICK c, t : c = told.stopped + 1 /\ t = told'
      OBVIOUS
    <3>2. Stops(found.step)
      BY <2>1 DEF Stops
    <3>3. t = [told EXCEPT !.stopped = c, !.stoppedRight = loaded]
      BY ONLY <1>4, <3>1, <3>2, Zenon
    <3>4. c \in Nat
      BY <1>5, <3>1 DEF ToldMembers
    <3>5. /\ t \in ToldMembers /\ t.stopped = c /\ (t.stoppedRight <=> loaded)
          /\ t.lines = told.lines /\ t.stopFile = told.stopFile
          /\ (t.honest <=> told.honest) /\ (t.narrowed <=> told.narrowed)
          /\ (t.stopAsked <=> told.stopAsked) /\ (t.raced <=> told.raced)
          /\ (t.early <=> told.early) /\ (t.borrowed <=> told.borrowed) /\ (t.apart <=> told.apart)
          /\ (t.reloadRaced <=> told.reloadRaced) /\ (t.marked <=> told.marked)
      BY ONLY <1>3, <1>5, <3>3, <3>4 DEF ToldMembers
    <3> QED
      BY ONLY <2>1, <3>1, <3>5
  <2>2. CASE found.step = "None"
    <3>1. told' = told
      BY <1>4, <2>2 DEF Stops
    <3> QED
      BY <1>5, <2>2, <3>1
  <2> QED
    BY <1>6, <2>1, <2>2
<1>18. AfterCheck
  <2>1. queue.waiting \in Fulls => file.rule.truncated
    BY <1>13 DEF HonestInv
  <2> QED
    BY <1>1, <1>8, <1>9, <1>11, <1>12, <1>13, <1>14, <1>15, <1>16, <1>17, <2>1
       DEF AfterCheck, Delivered, CheckOutcomes, TypeInv
<1>19. /\ TypeInv' /\ RunInv' /\ Opening' /\ LinesInv' /\ HonestInv'
       /\ Still /\ Still' /\ (Trusted' <=> Trusted) /\ run'.at # "ended"
       /\ (ReadAgain <=> queue.waiting \in Fulls) /\ (ReadAgain' <=> queue'.running \in Fulls)
       /\ file.opened
  BY <1>18, AfterCheckFrame
<1>20. ReadAgain' <=> ReadAgain
  BY <1>16, <1>19
<1>21. WaitInv'
  <2>1. \A s \in Searches : WaitsWith(m, s) = WaitsWith(file, s)
    BY <1>8, <1>11, <1>12 DEF WaitsWith
  <2> QED
    BY <1>1, <1>8, <1>9, <1>11, <1>12, <1>17, <2>1 DEF WaitInv, AskedIsKept
<1>22. StopInv'
  <2>1. /\ told'.stopped = IF r.watching = "Stopped" THEN 1 ELSE 0
        /\ told'.stopAsked <=> (r.watching # "On")
        /\ r.watching # "Stopping"
    BY <1>6, <1>7, <1>17 DEF StopInv
  <2>2. told'.stoppedRight \/ told'.raced
    BY <1>1, <1>3, <1>6, <1>17 DEF StopInv
  <2> QED
    BY <1>1, <1>9, <1>11, <1>17, <1>19, <2>1, <2>2 DEF StopInv
<1>23. FormatInv'
  <2>1. (Unrecognized' <=> Unrecognized) /\ (Sampled' <=> Sampled)
    BY <1>1, <1>8, <1>9, <1>11, <1>12, <1>17 DEF Unrecognized, Sampled
  <2> QED
    BY <1>1, <1>14, <1>16, <1>17, <1>19, <1>20, <2>1 DEF FormatInv
<1>24. FieldInv' /\ SearchesInv' /\ FollowInv' /\ SavedMarksAreKept'
  BY <1>1, <1>8, <1>9, <1>11, <1>12, <1>17, <1>19, <1>20 DEF FieldInv, SearchesInv, FollowInv, SavedMarksAreKept
<1> QED
  BY <1>19, <1>21, <1>22, <1>23, <1>24

-----------------------------------------------------------------------------
(* A Check is asked for: by a change on disk, and by the stop of watching. *)

\* It takes its place in the queue, if it is asked for.
CheckAsked ==
    /\ UNCHANGED <<logFile, index, linesBefore, asked>>
    /\ unreported' \in BOOLEAN /\ posted' \in BOOLEAN /\ watched' \in BOOLEAN
    /\ watched' => watched
    /\ unreported' => unreported
    /\ posted' => posted \/ unreported
    /\ (file.opened /\ Enqueued(Check, run)) \/ UNCHANGED <<queue, run>>
    /\ counts' \in [events : Nat, calls : Nat] /\ counts'.events = counts.events
    /\ file' \in FileMembers /\ Others(file', file) /\ RuleKeeps(file'.rule, file.rule)
    /\ file'.pattern = file.pattern /\ file'.refresh = file.refresh /\ file'.searches = file.searches
    /\ file'.heldBefore = file.heldBefore /\ file'.heldAfter = file.heldAfter
    /\ told' \in ToldMembers /\ told'.lines = told.lines
    /\ told'.honest <=> told.honest
    /\ told'.narrowed <=> told.narrowed
    /\ told'.early <=> told.early
    /\ told'.borrowed <=> told.borrowed
    /\ told'.apart <=> told.apart
    /\ told'.reloadRaced <=> told.reloadRaced
    /\ told'.marked <=> told.marked

\* Where it stands then.
LEMMA CheckArrives ==
    ASSUME TypeInv, RunInv, CheckAsked
    PROVE  /\ queue' \in [running : JobsHere, waiting : Waiting]
           /\ run' \in [at : {"off", "queued", "reading", "ended"}, superseded : BOOLEAN,
                        outcome : {"None"} \cup LoadedOutcomes \cup CheckOutcomes]
           /\ \/ /\ queue.running = NoJob /\ file.opened
                 /\ queue'.running = Check /\ queue'.waiting = NoJob
                 /\ run'.at = "queued" /\ ~run'.superseded
              \/ /\ queue'.running = queue.running /\ run' = run
                 /\ queue'.waiting = queue.waiting
                    \/ (queue.running # NoJob /\ queue.waiting = NoJob /\ queue'.waiting = Check)
           /\ file.opened /\ Enqueued(Check, run) => queue'.running # NoJob
<1>1. /\ queue \in [running : JobsHere, waiting : Waiting]
      /\ run \in [at : {"off", "queued", "reading", "ended"}, superseded : BOOLEAN,
                  outcome : {"None"} \cup LoadedOutcomes \cup CheckOutcomes]
      /\ queue.running = NoJob => queue.waiting = NoJob
  BY DEF TypeInv, RunInv
<1>2. Check \in JobsHere /\ Check \in Waiting /\ NoJob \in Waiting /\ Check # NoJob
  BY DEF Check, NoJob, JobsHere, Waiting
<1>3. ASSUME file.opened, Enqueued(Check, run), queue.running = NoJob
      PROVE  /\ queue' = [running |-> Check, waiting |-> NoJob]
             /\ run' = [at |-> "queued", superseded |-> FALSE, outcome |-> "None"]
  <2>1. queue' = [running |-> Check, waiting |-> NoJob]
    <3>1. WaitingIndexJob(queue.waiting, Check) = Check
      BY <1>1, <1>3, WaitingFacts
    <3> QED
      BY <1>1, <1>3, <3>1, EnqueueFacts DEF Enqueued
  <2>2. run' = Queued
    BY <1>2, <1>3, <2>1 DEF Enqueued
  <2> QED
    BY <2>1, <2>2, RunFacts
<1>4. ASSUME file.opened, Enqueued(Check, run), queue.running # NoJob
      PROVE  /\ queue' = [running |-> queue.running, waiting |-> IF queue.waiting = NoJob THEN Check ELSE queue.waiting]
             /\ run' = run
  <2>1. PICK q : q = Enqueue(queue, Check)
    OBVIOUS
  <2>2. q = [queue EXCEPT !.waiting = WaitingIndexJob(@, Check)]
    BY <1>4, <2>1, Zenon DEF Enqueue
  <2>3. PICK w : w = WaitingIndexJob(queue.waiting, Check)
    OBVIOUS
  <2>4. w = IF queue.waiting = NoJob THEN Check ELSE queue.waiting
    BY <1>1, <2>3, WaitingFacts
  <2>5. q = [running |-> queue.running, waiting |-> w]
    BY <1>1, <2>2, <2>3
  <2> QED
    BY <1>4, <2>1, <2>4, <2>5 DEF Enqueued
<1>5. (file.opened /\ Enqueued(Check, run)) \/ UNCHANGED <<queue, run>>
  BY DEF CheckAsked
<1>6. CASE UNCHANGED <<queue, run>>
  <2>1. file.opened /\ Enqueued(Check, run) => queue'.running # NoJob
    BY <1>2, <1>3, <1>4
  <2> QED
    BY <1>1, <1>6, <2>1
<1>7. CASE file.opened /\ Enqueued(Check, run)
  <2>1. CASE queue.running = NoJob
    <3>1. PICK q, n : q = queue' /\ n = run'
      OBVIOUS
    <3>2. /\ q = [running |-> Check, waiting |-> NoJob]
          /\ n = [at |-> "queued", superseded |-> FALSE, outcome |-> "None"]
      BY <1>3, <1>7, <2>1, <3>1
    <3>3. /\ q \in [running : JobsHere, waiting : Waiting] /\ q.running = Check /\ q.waiting = NoJob
          /\ n \in [at : {"off", "queued", "reading", "ended"}, superseded : BOOLEAN,
                    outcome : {"None"} \cup LoadedOutcomes \cup CheckOutcomes]
          /\ n.at = "queued" /\ ~n.superseded
      BY ONLY <1>2, <3>2
    <3> QED
      BY <1>2, <1>7, <2>1, <3>1, <3>3
  <2>2. CASE queue.running # NoJob
    BY <1>1, <1>2, <1>4, <1>7, <2>2
  <2> QED
    BY <2>1, <2>2
<1> QED
  BY <1>5, <1>6, <1>7

\* It changes nothing that was read, and no index run that is to come.
LEMMA CheckAskedFrame ==
    ASSUME IInv, CheckAsked
    PROVE  /\ TypeInv' /\ RunInv' /\ Opening' /\ LinesInv' /\ HonestInv' /\ WaitInv'
           /\ FormatInv' /\ FieldInv' /\ SearchesInv' /\ FollowInv' /\ SavedMarksAreKept'
           /\ queue'.running = NoJob => queue.running = NoJob
           /\ run'.at = "ended" => run.at = "ended" /\ run'.outcome = run.outcome
           /\ file.opened /\ Enqueued(Check, run) => queue'.running # NoJob
<1> USE DEF IInv
<1>1. /\ queue' \in [running : JobsHere, waiting : Waiting]
      /\ run' \in [at : {"off", "queued", "reading", "ended"}, superseded : BOOLEAN,
                   outcome : {"None"} \cup LoadedOutcomes \cup CheckOutcomes]
      /\ \/ /\ queue.running = NoJob /\ file.opened
            /\ queue'.running = Check /\ queue'.waiting = NoJob
            /\ run'.at = "queued" /\ ~run'.superseded
         \/ /\ queue'.running = queue.running /\ run' = run
            /\ queue'.waiting = queue.waiting
               \/ (queue.running # NoJob /\ queue.waiting = NoJob /\ queue'.waiting = Check)
      /\ file.opened /\ Enqueued(Check, run) => queue'.running # NoJob
  BY CheckArrives
<1>2. /\ UNCHANGED <<logFile, index, linesBefore, asked>>
      /\ unreported' \in BOOLEAN /\ posted' \in BOOLEAN /\ watched' \in BOOLEAN
      /\ (watched' => watched) /\ (unreported' => unreported) /\ (posted' => posted \/ unreported)
      /\ counts' \in [events : Nat, calls : Nat] /\ counts'.events = counts.events
  BY DEF CheckAsked
<1>3. /\ file' \in FileMembers /\ Others(file', file) /\ RuleKeeps(file'.rule, file.rule)
      /\ file'.pattern = file.pattern /\ file'.refresh = file.refresh /\ file'.searches = file.searches
      /\ file'.heldBefore = file.heldBefore /\ file'.heldAfter = file.heldAfter
  BY DEF CheckAsked
<1>4. /\ told' \in ToldMembers /\ told'.lines = told.lines
      /\ (told'.honest <=> told.honest) /\ (told'.narrowed <=> told.narrowed)
      /\ (told'.early <=> told.early) /\ (told'.borrowed <=> told.borrowed) /\ (told'.apart <=> told.apart)
      /\ (told'.reloadRaced <=> told.reloadRaced) /\ (told'.marked <=> told.marked)
  BY DEF CheckAsked
<1>5. /\ file'.made = file.made /\ file'.current = file.current /\ file'.waiting = file.waiting
      /\ file'.limits = file.limits /\ file'.marks = file.marks
      /\ file'.format = file.format /\ file'.sampled = file.sampled /\ (file'.opened <=> file.opened)
  BY <1>3 DEF Others
<1>6. PICK m, r : m = file' /\ r = file'.rule
  OBVIOUS
<1>7. /\ (r.searchRequested <=> file.rule.searchRequested) /\ (r.searchWaits <=> file.rule.searchWaits)
      /\ (r.loadFinishedOnce <=> file.rule.loadFinishedOnce) /\ (r.firstLoadDone <=> file.rule.firstLoadDone)
      /\ (r.grew <=> file.rule.grew) /\ (r.truncated <=> file.rule.truncated)
      /\ (r.savedMarks <=> file.rule.savedMarks) /\ (r.formatPending <=> file.rule.formatPending)
      /\ r.recognizedFrom = file.rule.recognizedFrom /\ r.loadedLines = file.rule.loadedLines
  BY <1>3, <1>6 DEF RuleKeeps
<1>8. /\ Check \notin Fulls /\ NoJob \notin Fulls /\ Check # Attach(NoEncoding) /\ NoJob # Attach(NoEncoding)
      /\ Check # NoJob /\ Check # Partial /\ NoJob # Partial
  BY DEF Check, NoJob, Partial, Attach, Fulls, Automatic, Explicit
<1>9. /\ (run.at = "off") <=> (queue.running = NoJob)
      /\ queue.running = NoJob => queue.waiting = NoJob
  BY DEF RunInv
<1>10. /\ (queue'.running \in Fulls <=> queue.running \in Fulls)
       /\ (queue'.running = Attach(NoEncoding) <=> queue.running = Attach(NoEncoding))
       /\ (queue'.running = Partial <=> queue.running = Partial)
       /\ (queue'.waiting \in Fulls <=> queue.waiting \in Fulls)
       /\ (run'.at = "ended" => run' = run /\ queue'.running = queue.running)
       /\ (run'.at = "ended" <=> run.at = "ended")
       /\ (queue'.running = NoJob => queue.running = NoJob)
  BY <1>1, <1>8, <1>9
<1>11. (Still' <=> Still) /\ (Added' <=> Added) /\ (Trusted' <=> Trusted) /\ (ReadAgain' <=> ReadAgain)
       /\ NbLines' = NbLines
  BY <1>1, <1>2, <1>8, <1>9, <1>10 DEF Still, Added, Trusted, ReadAgain, NbLines
<1>12. (Unrecognized' <=> Unrecognized) /\ (Sampled' <=> Sampled)
  BY <1>4, <1>5, <1>6, <1>7 DEF Unrecognized, Sampled
<1>13. TypeInv'
  BY <1>1, <1>2, <1>3, <1>4, <1>5, <1>11 DEF TypeInv
<1>14. RunInv'
  BY <1>1, <1>2, <1>8, <1>11 DEF RunInv
<1>15. Opening'
  <2>1. CASE queue'.running = queue.running /\ run' = run
    <3>1. ~file.opened => queue' = NoJobs
      BY <1>1, <1>8, <2>1 DEF Opening, NoJobs
    <3> QED
      BY <1>2, <1>4, <1>5, <1>6, <1>7, <1>11, <1>12, <2>1, <3>1 DEF Opening
  <2>2. CASE queue.running = NoJob /\ file.opened
    <3>1. file.rule.loadFinishedOnce
      BY <1>8, <2>2 DEF Opening
    <3> QED
      BY <1>5, <1>6, <1>7, <1>8, <1>10, <2>2, <3>1 DEF Opening
  <2> QED
    BY <1>1, <2>1, <2>2
<1>16. LinesInv'
  BY <1>1, <1>2, <1>4, <1>5, <1>6, <1>7, <1>10, <1>11 DEF LinesInv
<1>17. HonestInv'
  BY <1>1, <1>4, <1>6, <1>7, <1>8, <1>10 DEF HonestInv
<1>18. WaitInv'
  <2>1. \A s \in Searches : WaitsWith(m, s) = WaitsWith(file, s)
    BY <1>3, <1>5, <1>6, <1>7 DEF WaitsWith
  <2> QED
    BY <1>2, <1>3, <1>4, <1>5, <1>6, <1>7, <2>1 DEF WaitInv, AskedIsKept
<1>19. FormatInv'
  BY <1>1, <1>2, <1>4, <1>8, <1>9, <1>10, <1>11, <1>12 DEF FormatInv
<1>20. FieldInv' /\ SearchesInv' /\ FollowInv' /\ SavedMarksAreKept'
  BY <1>2, <1>3, <1>4, <1>5, <1>6, <1>7, <1>11 DEF FieldInv, SearchesInv, FollowInv, SavedMarksAreKept
<1> QED
  BY <1>1, <1>10, <1>13, <1>14, <1>15, <1>16, <1>17, <1>18, <1>19, <1>20

LEMMA HandleChangeOnDiskStep ==
    ASSUME IInv, HandleChangeOnDisk
    PROVE  IInv'
<1> USE DEF IInv
<1>1. /\ \/ unreported /\ ~unreported' /\ unreported' \in BOOLEAN /\ posted' = posted
         \/ posted /\ ~posted' /\ posted' \in BOOLEAN /\ unreported' = unreported
      /\ Enqueued(Check, run)
      /\ UNCHANGED <<logFile, watched, index, linesBefore, file, asked, told, counts>>
  BY DEF HandleChangeOnDisk
<1>2. file.opened
  BY <1>1 DEF Opening
<1>3. CheckAsked
  <2>1. /\ unreported \in BOOLEAN /\ posted \in BOOLEAN /\ watched \in BOOLEAN
        /\ counts \in [events : Nat, calls : Nat] /\ file \in FileMembers /\ told \in ToldMembers
    BY DEF TypeInv
  <2>2. Others(file, file) /\ RuleKeeps(file.rule, file.rule)
    BY DEF Others, RuleKeeps
  <2> QED
    BY <1>1, <1>2, <2>1, <2>2 DEF CheckAsked
<1>4. /\ TypeInv' /\ RunInv' /\ Opening' /\ LinesInv' /\ HonestInv' /\ WaitInv'
      /\ FormatInv' /\ FieldInv' /\ SearchesInv' /\ FollowInv' /\ SavedMarksAreKept'
      /\ queue'.running = NoJob => queue.running = NoJob
      /\ run'.at = "ended" => run.at = "ended" /\ run'.outcome = run.outcome
  BY <1>3, CheckAskedFrame
<1>5. StopInv'
  <2>1. LoadedThen' <=> LoadedThen
    BY <1>1 DEF LoadedThen, NbLines
  <2> QED
    BY <1>1, <1>4, <2>1 DEF StopInv
<1> QED
  BY <1>4, <1>5

LEMMA StopWatchingStep ==
    ASSUME IInv, StopWatching
    PROVE  IInv'
<1> USE DEF IInv
<1>1. /\ file.rule.watching = "On" /\ watched' = FALSE /\ unreported' = FALSE
      /\ posted' \in {posted, posted \/ unreported} /\ Once("calls")
      /\ UNCHANGED <<logFile, index, linesBefore, asked>>
  BY Zenon DEF StopWatching, Called
<1>2. PICK stopping : stopping = StopWatchingAsked(file.rule, file.opened)
  OBVIOUS
<1>3. PICK raced \in BOOLEAN : raced = (Delivered /\ run.outcome = "Unchanged")
  BY Zenon
<1>4. PICK c : c = told.stopped + (IF Stops(stopping.step) THEN 1 ELSE 0)
  OBVIOUS
<1>5. /\ file' = [file EXCEPT !.rule = stopping.rule]
      /\ told' = [told EXCEPT !.stopAsked = TRUE, !.stopFile = logFile, !.raced = raced, !.stopped = c]
      /\ IF stopping.step = "CheckAgain" THEN Enqueued(Check, run) ELSE UNCHANGED <<queue, run>>
  <2>1. /\ file' = [file EXCEPT !.rule = StopWatchingAsked(file.rule, file.opened).rule]
        /\ told' = [told EXCEPT !.stopAsked = TRUE, !.stopFile = logFile,
                       !.raced = Delivered /\ run.outcome = "Unchanged",
                       !.stopped = @ + (IF Stops(StopWatchingAsked(file.rule, file.opened).step) THEN 1 ELSE 0)]
        /\ IF StopWatchingAsked(file.rule, file.opened).step = "CheckAgain"
           THEN Enqueued(Check, run) ELSE UNCHANGED <<queue, run>>
    BY Zenon DEF StopWatching
  <2> QED
    BY ONLY <1>2, <1>3, <1>4, <2>1, Zenon
<1>6. /\ file \in FileMembers /\ file.rule \in Rules(Lines) /\ file.opened \in BOOLEAN
      /\ told \in ToldMembers /\ logFile \in [gen : Generations, lines : Lines]
      /\ unreported \in BOOLEAN /\ posted \in BOOLEAN
  BY DEF TypeInv, FileMembers
<1>7. /\ stopping.rule \in Rules(Lines) /\ RuleKeeps(stopping.rule, file.rule)
      /\ \/ file.opened /\ stopping.step = "CheckAgain" /\ stopping.rule.watching = "Stopping"
         \/ file.opened /\ stopping.step = "StoppedStillChanging" /\ stopping.rule.watching = "Stopped"
         \/ ~file.opened /\ stopping.step = "None" /\ stopping.rule.watching = "Stopping"
  BY <1>1, <1>2, <1>6, StopWatchingFacts
<1>8. c \in Nat /\ c = told.stopped + (IF stopping.step = "StoppedStillChanging" THEN 1 ELSE 0)
  BY <1>4, <1>6, <1>7 DEF Stops, ToldMembers
<1>9. PICK m, t, r : m = file' /\ t = told' /\ r = stopping.rule
  OBVIOUS
<1>10. m = [file EXCEPT !.rule = r]
  BY <1>5, <1>9
<1>11. /\ m \in FileMembers /\ m.rule = r /\ Others(m, file) /\ m.pattern = file.pattern
       /\ m.refresh = file.refresh /\ m.searches = file.searches
       /\ m.heldBefore = file.heldBefore /\ m.heldAfter = file.heldAfter
  BY ONLY <1>6, <1>7, <1>9, <1>10 DEF FileMembers, Others
<1>12. t = [told EXCEPT !.stopAsked = TRUE, !.stopFile = logFile, !.raced = raced, !.stopped = c]
  BY <1>5, <1>9
<1>13. /\ t \in ToldMembers /\ t.stopAsked = TRUE /\ t.stopFile = logFile /\ t.raced = raced /\ t.stopped = c
       /\ t.lines = told.lines
       /\ (t.honest <=> told.honest) /\ (t.narrowed <=> told.narrowed)
       /\ (t.early <=> told.early) /\ (t.borrowed <=> told.borrowed) /\ (t.apart <=> told.apart)
       /\ (t.reloadRaced <=> told.reloadRaced) /\ (t.marked <=> told.marked)
       /\ (t.stoppedRight <=> told.stoppedRight)
  BY ONLY <1>3, <1>6, <1>8, <1>12 DEF ToldMembers
<1>14. counts' \in [events : Nat, calls : Nat] /\ counts'.events = counts.events
  BY <1>1 DEF TypeInv, Once
<1>15. CheckAsked
  <2>1. posted' \in BOOLEAN /\ (posted' => posted \/ unreported)
    BY <1>1, <1>6, Zenon
  <2>2. (file.opened /\ Enqueued(Check, run)) \/ UNCHANGED <<queue, run>>
    BY <1>5, <1>7
  <2> QED
    BY <1>1, <1>7, <1>9, <1>11, <1>13, <1>14, <2>1, <2>2 DEF CheckAsked
<1>16. /\ TypeInv' /\ RunInv' /\ Opening' /\ LinesInv' /\ HonestInv' /\ WaitInv'
       /\ FormatInv' /\ FieldInv' /\ SearchesInv' /\ FollowInv' /\ SavedMarksAreKept'
       /\ queue'.running = NoJob => queue.running = NoJob
       /\ run'.at = "ended" => run.at = "ended" /\ run'.outcome = run.outcome
       /\ file.opened /\ Enqueued(Check, run) => queue'.running # NoJob
  BY <1>15, CheckAskedFrame
<1>17. told.stopped = 0 /\ ~told.stopAsked
  BY <1>1 DEF StopInv
<1>18. /\ m.rule.watching = "Stopping" /\ m.opened => queue'.running # NoJob
       /\ t.stopped = IF m.rule.watching = "Stopped" THEN 1 ELSE 0
       /\ m.rule.watching # "On"
  BY <1>5, <1>7, <1>8, <1>9, <1>11, <1>13, <1>16, <1>17 DEF Others
<1>19. StopInv'
  <2>1. /\ logFile.gen \in Nat /\ logFile.lines \in Nat
    BY <1>6, OpenLogFileAssumption DEF Generations, Lines
  <2>2. run'.at = "ended" /\ run'.outcome = "Unchanged" => t.raced
    <3>1. SUFFICES ASSUME run'.at = "ended", run'.outcome = "Unchanged" PROVE t.raced
      OBVIOUS
    <3>2. Delivered /\ run.outcome = "Unchanged"
      BY <1>16, <3>1 DEF Delivered
    <3>3. raced
      BY <1>3, <3>2, Zenon
    <3> QED
      BY <1>13, <3>3
  <2>3. t.stoppedRight \/ t.raced
    BY <1>13, <1>17 DEF StopInv
  <2> QED
    BY <1>1, <1>9, <1>13, <1>18, <2>1, <2>2, <2>3 DEF StopInv
<1> QED
  BY <1>16, <1>19

-----------------------------------------------------------------------------
(* The Log File is read for the first time, or again.                      *)

\* The Attach that opening queues.
LEMMA OpenStep ==
    ASSUME IInv, Open
    PROVE  IInv'
<1> USE DEF IInv
<1>1. /\ ~file.opened /\ file' = [file EXCEPT !.opened = TRUE]
      /\ Enqueued(Attach(NoEncoding), run)
      /\ UNCHANGED <<logFile, unreported, posted, watched, index, linesBefore, asked, told, counts>>
  BY DEF Open, disk
<1>2. file \in FileMembers /\ told \in ToldMembers
  BY DEF TypeInv
<1>3. PICK m : m = file'
  OBVIOUS
<1>4. /\ m \in FileMembers /\ m.opened = TRUE /\ m.rule = file.rule /\ m.refresh = file.refresh
      /\ m.searches = file.searches /\ m.made = file.made /\ m.current = file.current
      /\ m.pattern = file.pattern /\ m.waiting = file.waiting /\ m.heldBefore = file.heldBefore
      /\ m.heldAfter = file.heldAfter /\ m.limits = file.limits /\ m.marks = file.marks
      /\ m.format = file.format /\ m.sampled = file.sampled
  <2>1. m = [file EXCEPT !.opened = TRUE]
    BY <1>1, <1>3
  <2> QED
    BY ONLY <1>2, <2>1 DEF FileMembers
<1>5. queue = NoJobs /\ run = NoRun /\ ~file.rule.loadFinishedOnce
  BY <1>1 DEF Opening
<1>6. /\ queue.running = NoJob /\ queue.waiting = NoJob /\ run.at = "off"
  BY <1>5, RunFacts DEF NoJobs
<1>7. /\ Attach(NoEncoding) \in JobsHere /\ NoJob \in Waiting /\ NoJob \in JobsHere
      /\ Attach(NoEncoding) # NoJob /\ Attach(NoEncoding) \notin Fulls /\ NoJob \notin Fulls
      /\ Attach(NoEncoding) # Check /\ Attach(NoEncoding) # Partial
  BY DEF Check, NoJob, Partial, Attach, Fulls, Automatic, Explicit, Waiting, JobsHere
<1>8. queue' = [running |-> Attach(NoEncoding), waiting |-> NoJob]
  <2>1. queue \in [running : JobsHere, waiting : Waiting]
    BY DEF TypeInv
  <2>2. WaitingIndexJob(queue.waiting, Attach(NoEncoding)) = Attach(NoEncoding)
    BY <1>6, <1>7, WaitingFacts
  <2> QED
    BY <1>1, <1>6, <2>1, <2>2, EnqueueFacts DEF Enqueued
<1>9. run' = [at |-> "queued", superseded |-> FALSE, outcome |-> "None"]
  BY <1>1, <1>6, <1>7, <1>8, RunFacts DEF Enqueued
<1>10. /\ queue' \in [running : JobsHere, waiting : Waiting]
       /\ queue'.running = Attach(NoEncoding) /\ queue'.waiting = NoJob
  BY ONLY <1>7, <1>8
<1>11. /\ run' \in [at : {"off", "queued", "reading", "ended"}, superseded : BOOLEAN,
                    outcome : {"None"} \cup LoadedOutcomes \cup CheckOutcomes]
       /\ run'.at = "queued" /\ ~run'.superseded
  BY ONLY <1>9
<1>12. Still /\ Still' /\ ~Added /\ ~Added' /\ (Trusted' <=> Trusted) /\ NbLines' = NbLines
  BY <1>1, <1>6, <1>11 DEF Still, Added, Trusted, NbLines
<1>13. Unrecognized /\ Unrecognized' /\ told.lines = <<>> /\ index = NoLines
  BY <1>1, <1>3, <1>4, <1>5, <1>12 DEF Opening, Unrecognized
<1>14. TypeInv'
  BY <1>1, <1>3, <1>4, <1>10, <1>11, <1>12 DEF TypeInv
<1>15. RunInv'
  BY <1>1, <1>7, <1>10, <1>11, <1>12 DEF RunInv
<1>16. Opening'
  BY <1>1, <1>3, <1>4, <1>5, <1>10, <1>12, <1>13 DEF Opening
<1>17. LinesInv'
  BY <1>1, <1>3, <1>4, <1>6, <1>11, <1>12 DEF LinesInv
<1>18. HonestInv'
  BY <1>1, <1>3, <1>4, <1>7, <1>10 DEF HonestInv
<1>19. WaitInv'
  <2>1. \A s \in Searches : WaitsWith(m, s) = WaitsWith(file, s)
    BY <1>4 DEF WaitsWith
  <2>2. AskedIsKept'
    BY <1>1, <1>3, <2>1 DEF WaitInv, AskedIsKept
  <2>3. /\ file'.rule = file.rule /\ file'.refresh = file.refresh /\ file'.searches = file.searches
        /\ file'.made = file.made /\ file'.current = file.current /\ file'.pattern = file.pattern
        /\ file'.waiting = file.waiting /\ file'.heldBefore = file.heldBefore
        /\ file'.heldAfter = file.heldAfter /\ UNCHANGED <<asked, told>>
    BY ONLY <1>1, <1>3, <1>4
  <2>4. WaitInv
    OBVIOUS
  <2> QED
    BY ONLY <2>2, <2>3, <2>4, Zenon DEF WaitInv
<1>20. StopInv'
  BY <1>1, <1>3, <1>4, <1>7, <1>10, <1>11 DEF StopInv
<1>21. FormatInv'
  BY <1>1, <1>7, <1>10, <1>13 DEF FormatInv
<1>22. FieldInv' /\ SearchesInv' /\ SavedMarksAreKept'
  BY <1>1, <1>3, <1>4, <1>12 DEF FieldInv, SearchesInv, SavedMarksAreKept
<1>23. FollowInv'
  <2>1. file.current \in Searches
    BY <1>2 DEF FileMembers
  <2>2. file.searches[file.current].phase = "Idle" /\ file.refresh.state = "NoSearch"
    BY <1>5, <2>1 DEF WaitInv
  <2> QED
    BY <1>3, <1>4, <2>2 DEF FollowInv
<1> QED
  BY <1>14, <1>15, <1>16, <1>17, <1>18, <1>19, <1>20, <1>21, <1>22, <1>23

\* The Searches hear that every Log Line may have changed.
LEMMA AllChangedFacts ==
    ASSUME NEW g \in [Searches -> SearchMembers], \A s \in Searches : Shaped(g[s]),
           NEW h, h = [s \in Searches |-> LinesChanged(g[s], 0)]
    PROVE  /\ h \in [Searches -> SearchMembers]
           /\ \A s \in Searches :
                 /\ Shaped(h[s]) /\ h[s].phase = g[s].phase
                 /\ g[s] = Idle => h[s] = Idle
                 /\ \A lines : ReadFrom(h[s], lines)
<1>1. ASSUME NEW s \in Searches
      PROVE  /\ h[s] \in SearchMembers
             /\ Shaped(h[s]) /\ h[s].phase = g[s].phase
             /\ g[s] = Idle => h[s] = Idle
             /\ \A lines : ReadFrom(h[s], lines)
  <2>1. PICK n : n = LinesChanged(g[s], 0)
    OBVIOUS
  <2>2. g[s] \in SearchMembers /\ Shaped(g[s]) /\ 0 \in Nat
    OBVIOUS
  <2>3. /\ n \in SearchMembers /\ Shaped(n) /\ n.phase = g[s].phase
        /\ 0 = 0 => \A lines : ReadFrom(n, lines)
        /\ g[s] = Idle => n = Idle
    BY <2>1, <2>2, LinesChangedFacts
  <2> QED
    BY <2>1, <2>3
<1> QED
  BY <1>1

LEMMA HandleFileTruncatedStep ==
    ASSUME IInv, HandleFileTruncated
    PROVE  IInv'
<1> USE DEF IInv
<1>1. /\ run.at = "ended" /\ run.outcome = "Truncated"
      /\ told' = [told EXCEPT !.marked = @ /\ file.rule.savedMarks, !.reloadRaced = FALSE]
      /\ FinishJob(Enqueue(queue, Automatic))
      /\ UNCHANGED <<logFile, unreported, posted, watched, index, linesBefore, asked, counts>>
  BY Zenon DEF HandleFileTruncated, Delivered, disk
<1>2. /\ file \in FileMembers /\ file.rule \in Rules(Lines) /\ file.refresh \in AutoRefresh /\ told \in ToldMembers
      /\ file.searches \in [Searches -> SearchMembers] /\ file.current \in Searches /\ file.current \in file.made
      /\ file.marks \in [Searches -> BOOLEAN]
      /\ \A s \in Searches : Shaped(file.searches[s])
  BY DEF TypeInv, FileMembers, SearchesInv
<1>3. queue.running = Check /\ queue \in [running : JobsHere, waiting : Waiting]
  BY <1>1 DEF RunInv, TypeInv, CheckOutcomes
<1>4. PICK j : j = IF queue.waiting = Explicit(NoEncoding) THEN Explicit(NoEncoding) ELSE Automatic
  OBVIOUS
<1>5. /\ j \in JobsHere /\ j \in Fulls /\ NoJob \in Waiting /\ NoJob \notin Fulls
      /\ j # NoJob /\ j # Attach(NoEncoding) /\ j # Partial /\ j # Check
      /\ Check # NoJob
  BY <1>4 DEF Check, NoJob, Partial, Attach, Fulls, Automatic, Explicit, Waiting, JobsHere
<1>6. queue' = [running |-> j, waiting |-> NoJob]
  <2>1. WaitingIndexJob(queue.waiting, Automatic) = j
    BY <1>3, <1>4, WaitingFacts
  <2>2. StartWaiting(Enqueue(queue, Automatic)) = [running |-> j, waiting |-> NoJob]
    BY <1>3, <1>5, <2>1, EnqueueFacts
  <2> QED
    BY <1>1, <2>2 DEF FinishJob
<1>7. /\ queue' \in [running : JobsHere, waiting : Waiting] /\ queue'.running = j /\ queue'.waiting = NoJob
  BY ONLY <1>5, <1>6
<1>8. run' = IF queue'.running = NoJob THEN NoRun ELSE Queued
  BY <1>1 DEF FinishJob
<1>9. PICK r : r = TruncatedOnDisk(file.rule)
  OBVIOUS
<1>10. /\ r \in Rules(Lines) /\ r.loadedLines = file.rule.loadedLines /\ r.watching = file.rule.watching
       /\ r.truncated /\ r.formatPending /\ r.recognizedFrom = 0
       /\ (r.loadFinishedOnce <=> file.rule.loadFinishedOnce)
       /\ (r.searchRequested <=> file.rule.searchRequested) /\ (r.searchWaits <=> file.rule.searchWaits)
       /\ (r.savedMarks <=> file.rule.savedMarks)
  <2>1. r = [file.rule EXCEPT !.truncated = TRUE, !.formatPending = TRUE, !.recognizedFrom = 0]
    BY <1>9 DEF TruncatedOnDisk
  <2>2. 0 \in Lines
    BY OpenLogFileAssumption DEF Lines
  <2> QED
    BY ONLY <1>2, <2>1, <2>2 DEF Rules
<1>11. PICK h, marks, sampled : /\ h = [s \in Searches |-> LinesChanged(file.searches[s], 0)]
                                /\ marks = [file.marks EXCEPT ![file.current] = FALSE]
                                /\ sampled = [gen |-> 0, lines |-> 0]
  OBVIOUS
<1>12. /\ h \in [Searches -> SearchMembers]
       /\ \A s \in Searches :
             /\ Shaped(h[s]) /\ h[s].phase = file.searches[s].phase
             /\ file.searches[s] = Idle => h[s] = Idle
             /\ \A lines : ReadFrom(h[s], lines)
  <2>1. PICK g : g = file.searches
    OBVIOUS
  <2>2. /\ g \in [Searches -> SearchMembers] /\ \A s \in Searches : Shaped(g[s])
        /\ h = [s \in Searches |-> LinesChanged(g[s], 0)]
    BY <1>2, <1>11, <2>1
  <2>3. /\ h \in [Searches -> SearchMembers]
        /\ \A s \in Searches :
              /\ Shaped(h[s]) /\ h[s].phase = g[s].phase
              /\ g[s] = Idle => h[s] = Idle
              /\ \A lines : ReadFrom(h[s], lines)
    BY ONLY <2>2, AllChangedFacts
  <2> QED
    BY <2>1, <2>3
<1>13. PICK changed : changed = [file EXCEPT !.rule = r, !.marks = marks, !.searches = h,
                                             !.format = "None", !.sampled = sampled]
  OBVIOUS
<1>14. /\ changed \in FileMembers /\ changed.rule = r /\ changed.searches = h /\ changed.refresh = file.refresh
       /\ (changed.opened <=> file.opened) /\ changed.made = file.made /\ changed.current = file.current
       /\ changed.pattern = file.pattern /\ changed.waiting = file.waiting
       /\ changed.heldBefore = file.heldBefore /\ changed.heldAfter = file.heldAfter
       /\ changed.limits = file.limits
  <2>1. marks \in [Searches -> BOOLEAN] /\ sampled \in [gen : Nat, lines : Nat] /\ "None" \in FormatNames
    BY <1>2, <1>11 DEF FormatNames
  <2> QED
    BY ONLY <1>2, <1>10, <1>12, <1>13, <2>1 DEF FileMembers
<1>15. PICK h2, a : h2 = [h EXCEPT ![file.current] = Idle] /\ a = TruncateFile(file.refresh)
  OBVIOUS
<1>16. /\ h2 \in [Searches -> SearchMembers]
       /\ \A s \in Searches : h2[s] = IF s = file.current THEN Idle ELSE h[s]
  BY <1>2, <1>12, <1>15, IdleFacts
<1>17. PICK m : m = file'
  OBVIOUS
<1>18. m = IF file.rule.searchRequested THEN [changed EXCEPT !.searches = h2, !.refresh = a] ELSE changed
  <2>1. changed = [file EXCEPT !.rule = TruncatedOnDisk(@), !.marks[file.current] = FALSE,
                          !.searches = [s \in Searches |-> LinesChanged(@[s], 0)],
                          !.format = "None", !.sampled = [gen |-> 0, lines |-> 0]]
    BY <1>2, <1>9, <1>11, <1>13 DEF FileMembers
  <2>2. file' = IF file.rule.searchRequested
                THEN [changed EXCEPT !.searches[file.current] = Idle, !.refresh = TruncateFile(@)]
                ELSE changed
    <3>1. PICK ch : ch = [file EXCEPT !.rule = TruncatedOnDisk(@), !.marks[file.current] = FALSE,
                          !.searches = [s \in Searches |-> LinesChanged(@[s], 0)],
                          !.format = "None", !.sampled = [gen |-> 0, lines |-> 0]]
      OBVIOUS
    <3>2. file' = IF file.rule.searchRequested
                  THEN [ch EXCEPT !.searches[file.current] = Idle, !.refresh = TruncateFile(@)]
                  ELSE ch
      BY <3>1, Zenon DEF HandleFileTruncated
    <3> QED
      BY ONLY <2>1, <3>1, <3>2, Zenon
  <2> QED
    BY <1>14, <1>15, <1>17, <2>2 DEF FileMembers
<1>19. /\ m \in FileMembers /\ m.rule = r
       /\ (m.opened <=> file.opened) /\ m.made = file.made /\ m.current = file.current
       /\ m.pattern = file.pattern /\ m.waiting = file.waiting
       /\ m.heldBefore = file.heldBefore /\ m.heldAfter = file.heldAfter /\ m.limits = file.limits
       /\ \/ file.rule.searchRequested /\ m.searches = h2 /\ m.refresh = a
          \/ ~file.rule.searchRequested /\ m.searches = h /\ m.refresh = file.refresh
  <2>1. CASE file.rule.searchRequested
    <3>1. m = [changed EXCEPT !.searches = h2, !.refresh = a]
      BY <1>18, <2>1
    <3>2. a \in AutoRefresh
      BY <1>2, <1>15, AutoRefreshFacts
    <3>3. /\ m \in FileMembers /\ m.rule = changed.rule
          /\ (m.opened <=> changed.opened) /\ m.made = changed.made /\ m.current = changed.current
          /\ m.pattern = changed.pattern /\ m.waiting = changed.waiting
          /\ m.heldBefore = changed.heldBefore /\ m.heldAfter = changed.heldAfter /\ m.limits = changed.limits
          /\ m.searches = h2 /\ m.refresh = a
      BY ONLY <1>14, <1>16, <3>1, <3>2 DEF FileMembers
    <3> QED
      BY <1>14, <2>1, <3>3
  <2>2. CASE ~file.rule.searchRequested
    BY <1>14, <1>18, <2>2
  <2> QED
    BY <2>1, <2>2
<1>20. \A s \in Searches :
          /\ m.searches[s].phase = file.searches[s].phase \/ (s = file.current /\ m.searches[s] = Idle)
          /\ file.searches[s] = Idle => m.searches[s] = Idle
          /\ Shaped(m.searches[s]) /\ \A lines : ReadFrom(m.searches[s], lines)
  BY <1>12, <1>16, <1>19, IdleFacts
<1>21. PICK marked \in BOOLEAN : marked = (told.marked /\ file.rule.savedMarks)
  BY Zenon
<1>22. /\ told' \in ToldMembers /\ told'.lines = told.lines /\ told'.stopFile = told.stopFile
       /\ told'.stopped = told.stopped /\ (told'.stoppedRight <=> told.stoppedRight)
       /\ (told'.honest <=> told.honest) /\ (told'.narrowed <=> told.narrowed)
       /\ (told'.stopAsked <=> told.stopAsked) /\ (told'.raced <=> told.raced)
       /\ (told'.early <=> told.early) /\ (told'.borrowed <=> told.borrowed) /\ (told'.apart <=> told.apart)
       /\ (told'.marked <=> marked)
  <2>1. PICK t : t = told'
    OBVIOUS
  <2>2. t = [told EXCEPT !.marked = marked, !.reloadRaced = FALSE]
    BY ONLY <1>1, <1>21, <2>1, Zenon
  <2>3. /\ t \in ToldMembers /\ t.lines = told.lines /\ t.stopFile = told.stopFile
        /\ t.stopped = told.stopped /\ (t.stoppedRight <=> told.stoppedRight)
        /\ (t.honest <=> told.honest) /\ (t.narrowed <=> told.narrowed)
        /\ (t.stopAsked <=> told.stopAsked) /\ (t.raced <=> told.raced)
        /\ (t.early <=> told.early) /\ (t.borrowed <=> told.borrowed) /\ (t.apart <=> told.apart)
        /\ (t.marked <=> marked)
    BY ONLY <1>2, <1>21, <2>2 DEF ToldMembers
  <2> QED
    BY ONLY <2>1, <2>3
<1>23. AfterCheck
  BY <1>1, <1>2, <1>5, <1>7, <1>8, <1>10, <1>17, <1>19, <1>22
     DEF AfterCheck, Delivered, CheckOutcomes, TypeInv
<1>24. /\ TypeInv' /\ RunInv' /\ Opening' /\ LinesInv' /\ HonestInv'
       /\ Still' /\ (Trusted' <=> Trusted) /\ run'.at # "ended"
       /\ (ReadAgain' <=> queue'.running \in Fulls) /\ file.opened /\ file.rule.loadFinishedOnce
  BY <1>23, AfterCheckFrame
<1>25. WaitInv'
  <2>1. \A s \in Searches : WaitsWith(m, s) = WaitsWith(file, s)
    BY <1>10, <1>19 DEF WaitsWith
  <2>2. AskedIsKept'
    BY <1>1, <1>17, <2>1 DEF WaitInv, AskedIsKept
  <2>3. \A s \in Searches \ m.made :
          /\ m.searches[s] = Idle
          /\ m.waiting[s] = NoPattern /\ m.heldAfter[s] = NoPattern /\ asked[s] = NoPattern
    BY <1>19, <1>20 DEF WaitInv
  <2>4. \A s \in Searches : asked[s] # NoPattern => m.searches[s].phase = "Idle"
    BY <1>20 DEF WaitInv, Idle
  <2>5. IsAutoRefreshAllowed(m.refresh) => IsAutoRefreshAllowed(file.refresh)
    BY <1>2, <1>15, <1>19, AutoRefreshFacts
  <2>6. ~told'.borrowed /\ asked[m.current] # NoPattern =>
           m.pattern = asked[m.current] /\ ~IsAutoRefreshAllowed(m.refresh)
    BY <1>19, <1>22, <2>5 DEF WaitInv
  <2>7. /\ ~m.rule.searchWaits /\ (\A s \in Searches : m.waiting[s] = NoPattern) /\ m.heldBefore = {}
        /\ m.waiting[m.current] = NoPattern /\ m.rule.loadFinishedOnce
    BY <1>10, <1>19, <1>24 DEF WaitInv
  <2> QED
    BY <1>1, <1>17, <2>2, <2>3, <2>4, <2>6, <2>7 DEF WaitInv
<1>26. StopInv'
  BY <1>1, <1>5, <1>7, <1>10, <1>17, <1>19, <1>22, <1>24 DEF StopInv
<1>27. ReadAgain' /\ Unrecognized' /\ FormatInv'
  <2>1. ReadAgain' /\ Unrecognized'
    BY <1>5, <1>7, <1>10, <1>17, <1>19, <1>24 DEF Unrecognized
  <2> QED
    BY <1>5, <1>7, <2>1 DEF FormatInv
<1>28. ~told'.borrowed => m.searches[m.current].phase = "Idle"
  <2>1. CASE file.rule.searchRequested
    BY <1>2, <1>16, <1>19, <2>1 DEF Idle
  <2>2. CASE ~file.rule.searchRequested
    BY <1>2, <1>12, <1>19, <1>22, <2>2 DEF FieldInv
  <2> QED
    BY <2>1, <2>2
<1>29. FieldInv'
  BY <1>17, <1>28 DEF FieldInv
<1>30. SearchesInv'
  BY <1>17, <1>20 DEF SearchesInv
<1>31. FollowInv'
  <2>1. m.refresh.state \in {"Static", "Autorefreshing"} => told'.borrowed
    <3>1. CASE file.rule.searchRequested
      BY <1>2, <1>15, <1>19, <3>1, AutoRefreshFacts
    <3>2. CASE ~file.rule.searchRequested
      BY <1>2, <1>12, <1>19, <1>22, <1>28, <3>2 DEF FollowInv
    <3> QED
      BY <3>1, <3>2
  <2> QED
    BY <1>17, <1>28, <2>1 DEF FollowInv
<1>32. SavedMarksAreKept'
  BY <1>10, <1>17, <1>19, <1>21, <1>22 DEF SavedMarksAreKept
<1> QED
  BY <1>24, <1>25, <1>26, <1>27, <1>29, <1>30, <1>31, <1>32

\* A reload queues an Explicit, and interrupts the run in flight.
LEMMA ReloadStep ==
    ASSUME IInv, Reload
    PROVE  IInv'
<1> USE DEF IInv
<1>1. /\ file.opened /\ Once("calls")
      /\ asked' = [asked EXCEPT ![file.current] = NoPattern]
      /\ told' = [told EXCEPT !.early = FALSE, !.borrowed = FALSE,
                              !.reloadRaced = Delivered /\ run.outcome \in LoadedOutcomes,
                              !.marked = @ /\ file.rule.savedMarks]
      /\ Enqueued(Explicit(NoEncoding), Interrupted(run))
      /\ UNCHANGED <<logFile, unreported, posted, watched, index, linesBefore>>
  BY Zenon DEF Reload, Called, disk
<1>2. /\ file \in FileMembers /\ file.rule \in Rules(Lines) /\ file.refresh \in AutoRefresh /\ told \in ToldMembers
      /\ file.searches \in [Searches -> SearchMembers] /\ file.current \in Searches /\ file.current \in file.made
      /\ file.marks \in [Searches -> BOOLEAN] /\ asked \in [Searches -> Known]
      /\ \A s \in Searches : Shaped(file.searches[s])
  BY DEF TypeInv, FileMembers, SearchesInv
<1>3. /\ queue \in [running : JobsHere, waiting : Waiting]
      /\ run \in [at : {"off", "queued", "reading", "ended"}, superseded : BOOLEAN,
                  outcome : {"None"} \cup LoadedOutcomes \cup CheckOutcomes]
  BY DEF TypeInv
<1>4. PICK j : j = Explicit(NoEncoding)
  OBVIOUS
<1>5. /\ j \in JobsHere /\ j \in Waiting /\ j \in Fulls /\ NoJob \in Waiting /\ NoJob \notin Fulls
      /\ j # NoJob /\ j # Attach(NoEncoding) /\ j # Partial /\ j # Check
      /\ Check # NoJob /\ Check \notin Fulls /\ Attach(NoEncoding) # NoJob /\ Attach(NoEncoding) \notin Fulls
  BY <1>4 DEF Check, NoJob, Partial, Attach, Fulls, Automatic, Explicit, Waiting, JobsHere
<1>6. WaitingIndexJob(queue.waiting, Explicit(NoEncoding)) = j
  BY <1>3, <1>4, WaitingFacts
<1>7. (queue.running = NoJob) <=> (run.at = "off")
  BY DEF RunInv
\* Where the queue and the run are then.
<1>8. /\ queue' \in [running : JobsHere, waiting : Waiting]
      /\ run' \in [at : {"off", "queued", "reading", "ended"}, superseded : BOOLEAN,
                   outcome : {"None"} \cup LoadedOutcomes \cup CheckOutcomes]
      /\ \/ /\ queue.running = NoJob /\ queue'.running = j /\ queue'.waiting = NoJob
            /\ run'.at = "queued" /\ ~run'.superseded
         \/ /\ queue.running # NoJob /\ queue'.running = queue.running /\ queue'.waiting = j
            /\ run'.at = run.at /\ run'.outcome = run.outcome
            /\ run.at = "ended" => run' = run
            /\ run.at # "ended" => run'.superseded
  <2>1. PICK q, n : q = queue' /\ n = run'
    OBVIOUS
  <2>2. CASE queue.running = NoJob
    <3>1. q = [running |-> j, waiting |-> NoJob]
      BY <1>1, <1>3, <1>4, <1>6, <2>1, <2>2, EnqueueFacts DEF Enqueued
    <3>2. n = Queued
      BY <1>1, <1>5, <2>1, <2>2, <3>1 DEF Enqueued
    <3>3. n = [at |-> "queued", superseded |-> FALSE, outcome |-> "None"]
      BY <3>2, RunFacts
    <3>4. /\ q \in [running : JobsHere, waiting : Waiting] /\ q.running = j /\ q.waiting = NoJob
          /\ n \in [at : {"off", "queued", "reading", "ended"}, superseded : BOOLEAN,
                    outcome : {"None"} \cup LoadedOutcomes \cup CheckOutcomes]
          /\ n.at = "queued" /\ ~n.superseded
      BY ONLY <1>5, <3>1, <3>3
    <3> QED
      BY <2>1, <2>2, <3>4
  <2>3. CASE queue.running # NoJob
    <3>1. /\ q.running = queue.running /\ q.waiting = j
          /\ q \in [running : JobsHere, waiting : Waiting]
      <4>1. Enqueue(queue, Explicit(NoEncoding)) = [queue EXCEPT !.waiting = WaitingIndexJob(@, Explicit(NoEncoding))]
        BY <2>3, Zenon DEF Enqueue
      <4>2. q = [queue EXCEPT !.waiting = j]
        BY <1>1, <1>3, <1>6, <2>1, <4>1 DEF Enqueued
      <4> QED
        BY ONLY <1>3, <1>5, <4>2
    <3>2. n = Interrupted(run)
      BY <1>1, <2>1, <2>3 DEF Enqueued
    <3>3. PICK r : r = [run EXCEPT !.superseded = TRUE]
      OBVIOUS
    <3>4. n = IF run.at \in {"queued", "reading"} THEN r ELSE run
      BY <3>2, <3>3, Zenon DEF Interrupted
    <3>5. run.at # "off"
      BY <1>7, <2>3
    <3>6. /\ n \in [at : {"off", "queued", "reading", "ended"}, superseded : BOOLEAN,
                    outcome : {"None"} \cup LoadedOutcomes \cup CheckOutcomes]
          /\ n.at = run.at /\ n.outcome = run.outcome
          /\ run.at = "ended" => n = run
          /\ run.at # "ended" => n.superseded
      BY ONLY <1>3, <3>3, <3>4, <3>5
    <3> QED
      BY <2>1, <2>3, <3>1, <3>6
  <2> QED
    BY <2>2, <2>3
\* The members of the Open Log File.
<1>9. PICK r : r = ReloadAsked(file.rule)
  OBVIOUS
<1>10. /\ r \in Rules(Lines) /\ r.loadedLines = file.rule.loadedLines /\ r.watching = file.rule.watching
       /\ r.truncated /\ r.formatPending /\ r.recognizedFrom = 0 /\ ~r.firstLoadDone
       /\ (r.loadFinishedOnce <=> file.rule.loadFinishedOnce)
       /\ ~r.searchRequested /\ ~r.searchWaits
       /\ (r.savedMarks <=> file.rule.savedMarks)
  <2>1. r = [file.rule EXCEPT !.searchRequested = FALSE, !.searchWaits = FALSE, !.formatPending = TRUE,
                              !.recognizedFrom = 0, !.firstLoadDone = FALSE, !.truncated = TRUE]
    BY <1>9 DEF ReloadAsked
  <2>2. 0 \in Lines
    BY OpenLogFileAssumption DEF Lines
  <2> QED
    BY ONLY <1>2, <2>1, <2>2 DEF Rules
<1>11. PICK g, h, marks, a :
           /\ g = [file.searches EXCEPT ![file.current] = Idle]
           /\ h = [s \in Searches |-> LinesChanged(IF s = file.current THEN Idle ELSE file.searches[s], 0)]
           /\ marks = [file.marks EXCEPT ![file.current] = FALSE]
           /\ a = ResetState(file.refresh)
  OBVIOUS
<1>12. /\ g \in [Searches -> SearchMembers]
       /\ \A s \in Searches : g[s] = (IF s = file.current THEN Idle ELSE file.searches[s]) /\ Shaped(g[s])
  BY <1>2, <1>11, IdleFacts
<1>13. /\ h \in [Searches -> SearchMembers]
       /\ \A s \in Searches :
             /\ Shaped(h[s]) /\ h[s].phase = g[s].phase
             /\ g[s] = Idle => h[s] = Idle
             /\ \A lines : ReadFrom(h[s], lines)
  <2>1. /\ g \in [Searches -> SearchMembers] /\ \A s \in Searches : Shaped(g[s])
        /\ h = [s \in Searches |-> LinesChanged(g[s], 0)]
    BY <1>11, <1>12
  <2> QED
    BY ONLY <2>1, AllChangedFacts
<1>14. marks \in [Searches -> BOOLEAN] /\ a \in AutoRefresh /\ a.state = "NoSearch"
  BY <1>2, <1>11, AutoRefreshFacts
<1>15. PICK m : m = file'
  OBVIOUS
<1>16. m = [file EXCEPT !.refresh = a, !.rule = r, !.searches = h, !.marks = marks]
  <2>1. file' = [file EXCEPT !.refresh = ResetState(@), !.rule = ReloadAsked(@),
                   !.searches = [s \in Searches |->
                       LinesChanged(IF s = file.current THEN Idle ELSE @[s], 0)],
                   !.marks[file.current] = FALSE]
    BY Zenon DEF Reload
  <2> QED
    BY <1>2, <1>9, <1>11, <1>15, <2>1 DEF FileMembers
<1>17. /\ m \in FileMembers /\ m.rule = r /\ m.searches = h /\ m.refresh = a
       /\ (m.opened <=> file.opened) /\ m.made = file.made /\ m.current = file.current
       /\ m.pattern = file.pattern /\ m.waiting = file.waiting
       /\ m.heldBefore = file.heldBefore /\ m.heldAfter = file.heldAfter
       /\ m.limits = file.limits
  BY ONLY <1>2, <1>10, <1>13, <1>14, <1>16 DEF FileMembers
<1>18. m.searches[m.current].phase = "Idle"
  BY <1>2, <1>12, <1>13, <1>17 DEF Idle
<1>19. PICK marked \in BOOLEAN : marked = (told.marked /\ file.rule.savedMarks)
  BY Zenon
<1>20. PICK raced \in BOOLEAN : raced = (Delivered /\ run.outcome \in LoadedOutcomes)
  BY Zenon
<1>21. /\ told' \in ToldMembers /\ told'.lines = told.lines /\ told'.stopFile = told.stopFile
       /\ told'.stopped = told.stopped /\ (told'.stoppedRight <=> told.stoppedRight)
       /\ (told'.honest <=> told.honest) /\ (told'.narrowed <=> told.narrowed)
       /\ (told'.stopAsked <=> told.stopAsked) /\ (told'.raced <=> told.raced)
       /\ ~told'.borrowed /\ (told'.marked <=> marked) /\ (told'.reloadRaced <=> raced)
  <2>1. PICK t : t = told'
    OBVIOUS
  <2>2. t = [told EXCEPT !.early = FALSE, !.borrowed = FALSE, !.reloadRaced = raced, !.marked = marked]
    BY ONLY <1>1, <1>19, <1>20, <2>1, Zenon
  <2>3. /\ t \in ToldMembers /\ t.lines = told.lines /\ t.stopFile = told.stopFile
        /\ t.stopped = told.stopped /\ (t.stoppedRight <=> told.stoppedRight)
        /\ (t.honest <=> told.honest) /\ (t.narrowed <=> told.narrowed)
        /\ (t.stopAsked <=> told.stopAsked) /\ (t.raced <=> told.raced)
        /\ ~t.borrowed /\ (t.marked <=> marked) /\ (t.reloadRaced <=> raced)
    <3>1. told \in ToldMembers /\ marked \in BOOLEAN /\ raced \in BOOLEAN
      BY ONLY <1>2, <1>19, <1>20
    <3>2. /\ t = [lines |-> told.lines, honest |-> told.honest, stopped |-> told.stopped,
                 stoppedRight |-> told.stoppedRight, stopAsked |-> told.stopAsked,
                 stopFile |-> told.stopFile, raced |-> told.raced, early |-> FALSE,
                 borrowed |-> FALSE, apart |-> told.apart, narrowed |-> told.narrowed,
                 reloadRaced |-> raced, marked |-> marked]
          /\ told.lines \in Seq(Generations) /\ told.stopped \in Nat
          /\ told.stopFile \in [gen : Generations, lines : Lines]
          /\ {told.honest, told.stoppedRight, told.stopAsked, told.raced, told.apart, told.narrowed}
                \subseteq BOOLEAN
      BY ONLY <2>2, <3>1 DEF ToldMembers
    <3>3. t \in ToldMembers
      BY ONLY <3>1, <3>2, Zenon DEF ToldMembers
    <3> QED
      BY ONLY <3>2, <3>3, Zenon
  <2> QED
    BY ONLY <2>1, <2>3, Zenon
<1>22. asked' \in [Searches -> Known] /\ \A s \in Searches : asked'[s] = IF s = file.current THEN NoPattern ELSE asked[s]
  BY <1>1, <1>2 DEF Known
<1>23. counts' \in [events : Nat, calls : Nat] /\ counts'.events = counts.events
  BY <1>1 DEF TypeInv, Once
\* The invariant.
<1>24. /\ (Still' <=> Still) /\ (Added' <=> Added) /\ (Trusted' <=> Trusted) /\ NbLines' = NbLines
       /\ ReadAgain' /\ Unrecognized'
       /\ run'.at = "ended" => run' = run /\ queue'.running = queue.running
  <2>1. /\ (Still' <=> Still) /\ (Added' <=> Added) /\ NbLines' = NbLines
    BY <1>1, <1>7, <1>8 DEF Still, Added, NbLines
  <2>2. /\ (Trusted' <=> Trusted) /\ ReadAgain'
        /\ run'.at = "ended" => run' = run /\ queue'.running = queue.running
    BY <1>1, <1>5, <1>7, <1>8 DEF Trusted, ReadAgain
  <2> QED
    BY <1>10, <1>15, <1>17, <2>1, <2>2 DEF Unrecognized
<1>25. TypeInv'
  BY <1>1, <1>2, <1>8, <1>15, <1>17, <1>21, <1>22, <1>23, <1>24 DEF TypeInv
<1>26. RunInv'
  BY <1>1, <1>5, <1>7, <1>8, <1>24 DEF RunInv
<1>27. Opening'
  BY <1>1, <1>5, <1>8, <1>10, <1>15, <1>17, <1>21, <1>24 DEF Opening
<1>28. LinesInv'
  <2>1. run.at = "ended" => run'.at = "ended" /\ queue'.running = queue.running
    BY <1>7, <1>8
  <2>2. /\ file'.limits = file.limits /\ file'.rule.loadedLines = file.rule.loadedLines
        /\ told'.lines = told.lines /\ (told'.narrowed <=> told.narrowed) /\ index' = index
    BY <1>1, <1>10, <1>15, <1>17, <1>21
  <2> QED
    BY <1>24, <2>1, <2>2 DEF LinesInv
<1>29. HonestInv'
  BY <1>10, <1>15, <1>17, <1>21 DEF HonestInv
<1>30. WaitInv'
  <2>1. \A s \in Searches : asked'[s] # NoPattern =>
            /\ s # file.current /\ asked'[s] = asked[s]
            /\ WaitsWith(m, s) = WaitsWith(file, s)
    BY <1>17, <1>22 DEF WaitsWith
  <2>2. AskedIsKept'
    BY <1>15, <2>1 DEF WaitInv, AskedIsKept
  <2>3. \A s \in Searches \ m.made :
          /\ m.searches[s] = Idle
          /\ m.waiting[s] = NoPattern /\ m.heldAfter[s] = NoPattern /\ asked'[s] = NoPattern
    BY <1>2, <1>12, <1>13, <1>17, <1>22 DEF WaitInv
  <2>4. \A s \in Searches : asked'[s] # NoPattern => m.searches[s].phase = "Idle"
    BY <1>12, <1>13, <1>17, <2>1 DEF WaitInv
  <2>5. asked'[m.current] = NoPattern
    BY <1>2, <1>17, <1>22
  <2>6. ~m.rule.loadFinishedOnce =>
          /\ \A s \in Searches : m.searches[s].phase = "Idle" /\ m.heldAfter[s] = NoPattern
          /\ m.refresh.state = "NoSearch"
    BY <1>10, <1>12, <1>13, <1>14, <1>17 DEF WaitInv, Idle
  <2>7. m.rule.loadFinishedOnce =>
          ~m.rule.searchWaits /\ (\A s \in Searches : m.waiting[s] = NoPattern) /\ m.heldBefore = {}
    BY <1>10, <1>17 DEF WaitInv
  <2>8. m.waiting[m.current] = NoPattern
    BY <1>17 DEF WaitInv
  <2> QED
    BY <1>15, <2>2, <2>3, <2>4, <2>5, <2>6, <2>7, <2>8 DEF WaitInv
<1>31. StopInv'
  <2>1. told.stopFile = told'.stopFile => (LoadedThen' <=> LoadedThen)
    BY <1>1, <1>24 DEF LoadedThen
  <2>2. queue'.running # NoJob
    BY <1>5, <1>8
  <2> QED
    BY <1>1, <1>10, <1>15, <1>17, <1>21, <1>24, <2>1, <2>2 DEF StopInv
<1>32. FormatInv'
  <2>1. SUFFICES ASSUME ~raced
                 PROVE  queue'.waiting \in Fulls /\ queue'.running # Check
                            => run'.superseded \/ (run'.at = "ended" /\ index'.lines = <<>>)
    BY <1>21, <1>24 DEF FormatInv
  <2>2. run.at = "ended" => run.outcome \notin LoadedOutcomes
    BY <1>20, <2>1, Zenon DEF Delivered
  <2>3. run.at = "ended" => queue.running = Check
    BY <1>3, <2>2 DEF RunInv
  <2> QED
    BY <1>5, <1>8, <2>3
<1>33. FieldInv'
  BY <1>15, <1>18 DEF FieldInv
<1>34. SearchesInv'
  BY <1>13, <1>15, <1>17 DEF SearchesInv
<1>35. FollowInv'
  BY <1>14, <1>15, <1>17, <1>18 DEF FollowInv
<1>36. SavedMarksAreKept'
  BY <1>10, <1>15, <1>17, <1>19, <1>21 DEF SavedMarksAreKept
<1> QED
  BY <1>25, <1>26, <1>27, <1>28, <1>29, <1>30, <1>31, <1>32, <1>33, <1>34, <1>35, <1>36

-----------------------------------------------------------------------------
(* The theorems.                                                           *)

LEMMA InitHolds == Init => IInv
<1> SUFFICES ASSUME Init
             PROVE  IInv
  OBVIOUS
<1>1. PICK restored \in BOOLEAN, p \in Patterns :
        LET waits == [s \in Searches |-> IF restored /\ s # First THEN p ELSE NoPattern]
            rule == [NewRule EXCEPT !.savedMarks = TRUE, !.searchRequested = restored, !.searchWaits = restored]
        IN  /\ file = [opened |-> FALSE, rule |-> rule,
                       refresh |-> [state |-> "NoSearch", requested |-> TRUE],
                       searches |-> [s \in Searches |-> Idle],
                       made |-> IF restored THEN Searches ELSE {First},
                       current |-> First, pattern |-> IF restored THEN p ELSE NoPattern,
                       waiting |-> waits, heldBefore |-> IF restored THEN Searches ELSE {},
                       heldAfter |-> [s \in Searches |-> NoPattern],
                       limits |-> [start |-> 0, end |-> 0],
                       marks |-> [s \in Searches |-> FALSE],
                       format |-> "None", sampled |-> [gen |-> 0, lines |-> 0]]
            /\ asked = [s \in Searches |-> IF restored THEN p ELSE NoPattern]
  BY Zenon DEF Init
<1>2. PICK rule, waits, searches, made, pattern, held :
        /\ rule = [NewRule EXCEPT !.savedMarks = TRUE, !.searchRequested = restored, !.searchWaits = restored]
        /\ waits = [s \in Searches |-> IF restored /\ s # First THEN p ELSE NoPattern]
        /\ searches = [s \in Searches |-> Idle]
        /\ made = IF restored THEN Searches ELSE {First}
        /\ pattern = IF restored THEN p ELSE NoPattern
        /\ held = IF restored THEN Searches ELSE {}
  OBVIOUS
<1>3. PICK after, marks, limits, sampled, refresh :
        /\ after = [s \in Searches |-> NoPattern] /\ marks = [s \in Searches |-> FALSE]
        /\ limits = [start |-> 0, end |-> 0] /\ sampled = [gen |-> 0, lines |-> 0]
        /\ refresh = [state |-> "NoSearch", requested |-> TRUE]
  OBVIOUS
<1>4. PICK f : f = file
  OBVIOUS
<1>5. f = [opened |-> FALSE, rule |-> rule, refresh |-> refresh, searches |-> searches, made |-> made,
           current |-> First, pattern |-> pattern, waiting |-> waits, heldBefore |-> held,
           heldAfter |-> after, limits |-> limits, marks |-> marks, format |-> "None", sampled |-> sampled]
  BY ONLY <1>1, <1>2, <1>3, <1>4, Zenon
<1>6. asked = [s \in Searches |-> IF restored THEN p ELSE NoPattern]
  BY ONLY <1>1, Zenon
<1>7. /\ logFile \in [gen : {1}, lines : InitialLines]
      /\ unreported = FALSE /\ posted = FALSE /\ watched = FALSE
      /\ index = NoLines /\ queue = NoJobs /\ run = NoRun /\ linesBefore = 0
      /\ told = [lines |-> <<>>, honest |-> TRUE, stopped |-> 0, stoppedRight |-> TRUE,
                 stopAsked |-> FALSE, stopFile |-> logFile, raced |-> FALSE,
                 early |-> FALSE, borrowed |-> FALSE, apart |-> FALSE, narrowed |-> FALSE,
                 reloadRaced |-> FALSE, marked |-> TRUE]
      /\ counts = [events |-> 0, calls |-> 0]
  BY Zenon DEF Init
<1>8. /\ First \in Searches /\ NoPattern \in Known /\ p \in Known /\ NoPattern \notin Patterns
      /\ 0 \in Lines /\ 1 \in Generations /\ MaxEvents \in Nat /\ InitialLines \subseteq Lines
  BY OpenLogFileAssumption DEF Known, Lines, Generations
<1>9. /\ rule \in Rules(Lines) /\ (rule.searchRequested <=> restored) /\ (rule.searchWaits <=> restored)
      /\ ~rule.loadFinishedOnce /\ ~rule.firstLoadDone /\ ~rule.grew /\ ~rule.truncated /\ rule.savedMarks
      /\ rule.formatPending /\ rule.recognizedFrom = 0 /\ rule.loadedLines = 0 /\ rule.watching = "On"
  <2>1. PICK n : n = NewRule
    OBVIOUS
  <2>2. n = [searchRequested |-> FALSE, searchWaits |-> FALSE, loadFinishedOnce |-> FALSE,
             firstLoadDone |-> FALSE, grew |-> FALSE, truncated |-> FALSE, savedMarks |-> FALSE,
             formatPending |-> TRUE, recognizedFrom |-> 0, loadedLines |-> 0,
             watching |-> "On", checks |-> 0]
    BY <2>1 DEF NewRule
  <2>3. rule = [n EXCEPT !.savedMarks = TRUE, !.searchRequested = restored, !.searchWaits = restored]
    BY <1>2, <2>1
  <2>4. n \in Rules(Lines)
    BY ONLY <1>8, <2>2 DEF Rules
  <2> QED
    BY ONLY <2>2, <2>3, <2>4, restored \in BOOLEAN DEF Rules
<1>10. /\ waits \in [Searches -> Known] /\ searches \in [Searches -> SearchMembers]
       /\ made \in SUBSET Searches /\ First \in made /\ pattern \in Known /\ held \in SUBSET Searches
       /\ after \in [Searches -> Known] /\ marks \in [Searches -> BOOLEAN] /\ limits \in Limits
       /\ sampled \in [gen : Nat, lines : Nat] /\ refresh \in AutoRefresh /\ "None" \in FormatNames
  BY <1>2, <1>3, <1>8, IdleFacts DEF Limits, AutoRefresh, RefreshStates, FormatNames
<1>11. /\ f \in FileMembers /\ ~f.opened /\ f.rule = rule /\ f.refresh = refresh /\ f.searches = searches
       /\ f.made = made /\ f.current = First /\ f.pattern = pattern /\ f.waiting = waits
       /\ f.heldBefore = held /\ f.heldAfter = after /\ f.limits = limits
       /\ f.format = "None" /\ f.sampled = sampled
  BY ONLY <1>5, <1>8, <1>9, <1>10 DEF FileMembers
<1>12. /\ told \in ToldMembers /\ told.lines = <<>> /\ told.honest /\ told.stopped = 0 /\ told.stoppedRight
       /\ ~told.stopAsked /\ ~told.raced
  <2>1. logFile \in [gen : Generations, lines : Lines]
    BY <1>7, <1>8
  <2> QED
    BY <1>7, <2>1 DEF ToldMembers
<1>13. queue = [running |-> NoJob, waiting |-> NoJob] /\ queue.running = NoJob /\ queue.waiting = NoJob
  BY <1>7 DEF NoJobs
<1>14. run.at = "off" /\ run = [at |-> "off", superseded |-> FALSE, outcome |-> "None"]
  BY <1>7, RunFacts
<1>15. index.lines = <<>> /\ ~index.recorded /\ NbLines = 0
  BY <1>7 DEF NoLines, NbLines
<1>16. /\ NoJob \in JobsHere /\ NoJob \in Waiting /\ NoJob \notin Fulls /\ NoJob # Attach(NoEncoding)
       /\ NoJob # Check /\ NoJob # Partial
  BY DEF Check, NoJob, Partial, Attach, Fulls, Automatic, Explicit, Waiting, JobsHere
<1>17. TypeInv
  <2>1. queue \in [running : JobsHere, waiting : Waiting]
    BY <1>13, <1>16
  <2>2. run \in [at : {"off", "queued", "reading", "ended"}, superseded : BOOLEAN,
                 outcome : {"None"} \cup LoadedOutcomes \cup CheckOutcomes]
    BY <1>14
  <2>3. /\ index \in [lines : Seq(Generations), recorded : BOOLEAN]
        /\ counts \in [events : Nat, calls : Nat] /\ counts.events = 0
    BY <1>7 DEF NoLines
  <2>4. logFile \in [gen : Generations, lines : Lines] /\ logFile.gen = 1
    BY <1>7, <1>8
  <2>5. asked \in [Searches -> Known]
    BY <1>6, <1>8
  <2>6. unreported \in BOOLEAN /\ posted \in BOOLEAN /\ watched \in BOOLEAN /\ linesBefore \in Lines
    BY <1>7, <1>8
  <2>7. file \in FileMembers /\ file.current \in file.made
    BY <1>4, <1>10, <1>11
  <2>8. NbLines \in Lines /\ logFile.gen <= counts.events + 1 /\ counts.events <= MaxEvents
    BY <1>8, <1>15, <2>3, <2>4
  <2> QED
    BY ONLY <1>12, <2>1, <2>2, <2>3, <2>4, <2>5, <2>6, <2>7, <2>8 DEF TypeInv
<1>18. RunInv
  BY <1>13, <1>14, <1>15 DEF RunInv
<1>19. Unrecognized /\ Opening
  BY <1>4, <1>7, <1>9, <1>11, <1>12, <1>13, <1>16 DEF Unrecognized, Opening
<1>20. LinesInv
  BY <1>3, <1>4, <1>9, <1>11, <1>12, <1>14, <1>15 DEF LinesInv, Whole, Still, Added
<1>21. HonestInv
  BY <1>12, <1>13, <1>16 DEF HonestInv
<1>22. WaitInv
  <2>1. \A s \in Searches : f.searches[s] = Idle /\ f.heldAfter[s] = NoPattern
    BY <1>2, <1>3, <1>11
  <2>2. \A s \in Searches : s \notin made => waits[s] = NoPattern /\ asked[s] = NoPattern
    BY <1>2, <1>6
  <2>3. f.waiting[First] = NoPattern
    BY <1>2, <1>8, <1>11
  <2>4. \A s \in Searches : asked[s] # NoPattern => WaitsWith(f, s) = asked[s]
    <3>1. ASSUME NEW s \in Searches, restored
          PROVE  WaitsWith(f, s) = asked[s]
      BY <1>2, <1>6, <1>8, <1>9, <1>11, <3>1 DEF WaitsWith
    <3>2. ASSUME NEW s \in Searches, ~restored
          PROVE  asked[s] = NoPattern
      BY <1>6, <3>2
    <3> QED
      BY <3>1, <3>2
  <2>5. f.refresh.state = "NoSearch"
    BY <1>3, <1>11
  <2>6. asked[First] # NoPattern => f.pattern = asked[First]
    BY <1>2, <1>6, <1>8, <1>11
  <2>7. Idle.phase = "Idle" /\ ~IsAutoRefreshAllowed(f.refresh)
    BY <2>5 DEF Idle, IsAutoRefreshAllowed
  <2>8. /\ \A s \in Searches : f.searches[s].phase = "Idle" /\ f.heldAfter[s] = NoPattern
        /\ \A s \in Searches \ f.made :
              /\ f.searches[s] = Idle
              /\ f.waiting[s] = NoPattern /\ f.heldAfter[s] = NoPattern /\ asked[s] = NoPattern
    BY <1>11, <2>1, <2>2, <2>7
  <2>9. /\ ~f.rule.loadFinishedOnce /\ f.waiting[f.current] = NoPattern
        /\ asked[f.current] # NoPattern => f.pattern = asked[f.current]
    BY <1>9, <1>11, <2>3, <2>6
  <2> QED
    BY ONLY <1>4, <2>4, <2>5, <2>7, <2>8, <2>9 DEF WaitInv, AskedIsKept
<1>23. StopInv
  BY <1>4, <1>9, <1>11, <1>12, <1>14 DEF StopInv
<1>24. FormatInv
  BY <1>12, <1>13, <1>16, <1>19 DEF FormatInv, ReadAgain
<1>25. FieldInv /\ FollowInv
  <2>1. file.searches[file.current] = Idle /\ file.refresh.state = "NoSearch"
    BY <1>2, <1>3, <1>4, <1>8, <1>11
  <2> QED
    BY <2>1 DEF FieldInv, FollowInv, Idle
<1>26. SearchesInv
  BY <1>2, <1>4, <1>11, IdleFacts DEF SearchesInv
<1>27. SavedMarksAreKept
  BY <1>4, <1>9, <1>11 DEF SavedMarksAreKept
<1> QED
  BY <1>17, <1>18, <1>19, <1>20, <1>21, <1>22, <1>23, <1>24, <1>25, <1>26, <1>27 DEF IInv

LEMMA StepHolds ==
    ASSUME IInv, [Next]_vars
    PROVE  IInv'
<1>1. CASE Grow \/ Truncate
  BY <1>1, DiskStep
<1>2. CASE Worker
  BY <1>2, IndexRunStep, RunCheckStep DEF Worker
<1>3. CASE SearchCompletes
  BY <1>3, SearchCompletesStep
<1>4. CASE Delivery
  BY <1>4, HandleLoadingFinishedStep, HandleFileGrewStep, HandleFileTruncatedStep, HandleFileUnchangedStep
     DEF Delivery
<1>5. CASE HandleChangeOnDisk
  BY <1>5, HandleChangeOnDiskStep
<1>6. CASE Open \/ Reload \/ StopLoading \/ StopWatching
  BY <1>6, OpenStep, ReloadStep, StopLoadingStep, StopWatchingStep
<1>7. CASE SearchCalls
  BY <1>7, LeavingStep, RequestKeptSearchStep, DropKeptSearchStep, SearchAskedStep, ClearSearchStep,
     StopSearchStep, FollowCallStep, SetSearchLimitsStep, HoldWaitingSearchesStep, ReleaseHeldSearchesStep
     DEF SearchCalls
<1>8. CASE UNCHANGED vars
  <2>1. /\ UNCHANGED <<logFile, unreported, posted, watched, index, queue, run, linesBefore>>
        /\ UNCHANGED <<file, asked, told, counts>>
    BY <1>8 DEF vars, disk, logData
  <2>2. /\ TypeInv' /\ RunInv' /\ Opening' /\ LinesInv' /\ HonestInv' /\ StopInv'
    BY <2>1 DEF IInv, TypeInv, RunInv, Opening, LinesInv, HonestInv, StopInv, NbLines, Still, Added,
                Unrecognized, LoadedThen
  <2>3. WaitInv' /\ FieldInv' /\ SavedMarksAreKept'
    BY <2>1, FileFrame
  <2>4. FormatInv' /\ SearchesInv' /\ FollowInv'
    BY <2>1 DEF IInv, FormatInv, SearchesInv, FollowInv, Still, Added, Trusted, ReadAgain, Unrecognized, Sampled
  <2> QED
    BY <2>2, <2>3, <2>4 DEF IInv
<1> QED
  BY <1>1, <1>2, <1>3, <1>4, <1>5, <1>6, <1>7, <1>8 DEF Next

\* The inductive invariant holds in every state the Open Log File reaches.
THEOREM Invariant == Spec => []IInv
<1>1. Init => IInv
  BY InitHolds
<1>2. IInv /\ [Next]_vars => IInv'
  BY StepHolds
<1> QED
  BY <1>1, <1>2, PTL DEF Spec

LEMMA TypeHolds == IInv => TypeOK
<1> SUFFICES ASSUME IInv
             PROVE  TypeOK
  OBVIOUS
<1>1. TypeInv /\ RunInv /\ WaitInv
  BY DEF IInv
<1>2. /\ file.rule \in Rules(Lines) /\ file.refresh \in AutoRefresh /\ file.limits \in Limits
      /\ file.current \in file.made /\ file.made \subseteq Searches
      /\ file.pattern \in Known /\ file.heldBefore \subseteq Searches
  BY <1>1 DEF TypeInv, FileMembers
<1>3. ASSUME NEW s \in Searches
      PROVE  /\ file.searches[s].phase \in Phases /\ file.searches[s].pattern \in Known
             /\ file.searches[s].reader \in FormatNames
             /\ {file.waiting[s], file.heldAfter[s], asked[s]} \subseteq Known
             /\ s \notin file.made => file.searches[s] = Idle
  <2>1. file.searches[s] \in SearchMembers /\ file.waiting[s] \in Known /\ file.heldAfter[s] \in Known /\ asked[s] \in Known
    BY <1>1 DEF TypeInv, FileMembers
  <2>2. s \notin file.made => file.searches[s] = Idle
    BY <1>1 DEF WaitInv
  <2> QED
    BY <2>1, <2>2 DEF SearchMembers
<1>4. DOMAIN index = {"lines", "recorded"} /\ Range(index.lines) \subseteq Generations
  <2>1. index \in [lines : Seq(Generations), recorded : BOOLEAN]
    BY <1>1 DEF TypeInv
  <2>2. DOMAIN index = {"lines", "recorded"} /\ index.lines \in Seq(Generations)
    BY <2>1
  <2>3. DOMAIN index.lines = 1..Len(index.lines) /\ \A i \in 1..Len(index.lines) : index.lines[i] \in Generations
    BY <2>2
  <2> QED
    BY <2>2, <2>3 DEF Range
<1>5. /\ logFile \in [gen : Generations, lines : Lines]
      /\ unreported \in BOOLEAN /\ posted \in BOOLEAN /\ watched \in BOOLEAN /\ NbLines \in Lines
      /\ run \in [at : {"off", "queued", "reading", "ended"}, superseded : BOOLEAN,
                  outcome : {"None"} \cup LoadedOutcomes \cup CheckOutcomes]
      /\ (run.at = "off") <=> (queue.running = NoJob)
      /\ queue.running = NoJob => queue.waiting = NoJob
      /\ linesBefore \in Lines
  BY <1>1 DEF TypeInv, RunInv
<1> QED
  BY ONLY <1>2, <1>3, <1>4, <1>5, Zenon DEF TypeOK

\* Where the invariant stands when all is at rest.
LEMMA AtRest ==
    ASSUME IInv, Quiet
    PROVE  /\ Still /\ ~ReadAgain /\ index.lines = told.lines /\ file.rule.loadFinishedOnce
           /\ run.at = "off" /\ queue.waiting = NoJob
<1>1. queue.running = NoJob /\ queue.waiting = NoJob /\ run.at = "off" /\ file.opened
  BY DEF IInv, RunInv, Quiet
<1>2. NoJob \notin Fulls /\ NoJob # Attach(NoEncoding)
  BY DEF NoJob, Attach, Fulls, Automatic, Explicit
<1>3. Still /\ ~ReadAgain
  BY <1>1, <1>2 DEF Still, ReadAgain
<1> QED
  BY <1>1, <1>2, <1>3 DEF IInv, LinesInv, Opening

LEMMA LimitsHold == IInv => LimitsSettled
<1> SUFFICES ASSUME IInv, Quiet
             PROVE  /\ file.limits.end <= NbLines
                    /\ file.limits.start < file.limits.end \/ NbLines = 0
                    /\ ~told.narrowed => file.limits = [start |-> 0, end |-> NbLines]
  BY DEF LimitsSettled
<1>1. /\ Still /\ index.lines = told.lines /\ run.at = "off"
  BY AtRest
<1>2. file.rule.loadedLines = NbLines
  BY <1>1 DEF IInv, LinesInv, NbLines
<1> QED
  BY <1>1, <1>2 DEF IInv, LinesInv, Whole

LEMMA FollowsHold == IInv => FollowedSearch
<1> SUFFICES ASSUME IInv, Quiet, file.refresh.state = "Autorefreshing", ~told.early, ~told.borrowed, ~told.apart,
                    file.searches[file.current].phase = "Complete"
             PROVE  Follows(file.current)
  BY DEF FollowedSearch
<1>1. PICK search, lines : search = file.searches[file.current] /\ lines = index.lines
  OBVIOUS
<1>2. /\ search \in SearchMembers /\ Shaped(search) /\ lines \in Seq(Generations) /\ file.limits \in Limits
  BY <1>1 DEF IInv, TypeInv, FileMembers, SearchesInv
<1>3. Still
  BY AtRest
<1>4. /\ search.pattern = file.pattern
      /\ search.start = file.limits.start /\ search.end = file.limits.end
      /\ \A i \in 1..Len(search.seen) : search.seen[i] = lines[search.start + i]
      /\ file.limits.end <= Len(lines)
  BY <1>1, <1>3 DEF IInv, FollowInv, LinesInv, NbLines
<1>5. /\ search.start \in Nat /\ search.end \in Nat /\ search.start <= search.end /\ search.end <= Len(lines)
      /\ search.seen \in Seq(Generations \cup {0}) /\ Len(search.seen) = search.end - search.start
      /\ Len(lines) \in Nat
  BY <1>1, <1>2, <1>4, OpenLogFileAssumption DEF SearchMembers, Lines, Shaped
<1>6. PICK part : part = SubSeq(lines, search.start + 1, search.end)
  OBVIOUS
<1>7. /\ part \in Seq(Generations) /\ Len(part) = search.end - search.start
      /\ \A i \in 1..(search.end - search.start) : part[i] = lines[search.start + i]
  <2>1. PICK a, b : a = search.start + 1 /\ b = search.end
    OBVIOUS
  <2>2. a \in 1..(Len(lines) + 1) /\ b \in (a - 1)..Len(lines) /\ lines \in Seq(Generations)
    BY <1>2, <1>5, <2>1
  <2>3. part = SubSeq(lines, a, b)
    BY <1>6, <2>1
  <2>4. /\ part \in Seq(Generations) /\ Len(part) = b - a + 1
        /\ \A i \in 1..(b - a + 1) : part[i] = lines[a + i - 1]
    BY ONLY <2>2, <2>3, SubSeqProperties
  <2>5. b - a + 1 = search.end - search.start
    BY <1>5, <2>1
  <2>6. \A i \in 1..(search.end - search.start) : a + i - 1 = search.start + i
    BY <1>5, <2>1
  <2> QED
    BY <2>4, <2>5, <2>6
<1>8. search.seen = part
  <2>1. Len(search.seen) = Len(part)
    BY <1>5, <1>7
  <2>2. \A i \in 1..Len(search.seen) : search.seen[i] = part[i]
    BY <1>4, <1>5, <1>7
  <2> QED
    BY ONLY <1>5, <1>7, <2>1, <2>2
<1> QED
  BY <1>1, <1>4, <1>6, <1>8 DEF Follows

LEMMA FormatHolds == IInv => FormatFollows
<1> SUFFICES ASSUME IInv, Quiet, NbLines > 0, ~told.reloadRaced
             PROVE  /\ file.sampled.gen = index.lines[1]
                    /\ file.format = "None" =>
                          Min({file.sampled.lines, SampleDepth}) = Min({NbLines, SampleDepth})
  BY DEF FormatFollows
<1>1. ~ReadAgain /\ index.lines = told.lines
  BY AtRest
<1>2. told.lines # <<>> /\ NbLines = Len(told.lines) /\ NbLines \in Nat
  BY <1>1, OpenLogFileAssumption DEF NbLines, IInv, TypeInv, Lines
<1>3. Sampled
  BY <1>1, <1>2 DEF IInv, FormatInv
<1>4. file.sampled.lines \in Nat /\ SampleDepth \in Nat
  BY LoadRuleAssumption DEF IInv, TypeInv, FileMembers
<1>5. ASSUME NEW a \in Nat, NEW b \in Nat
      PROVE  Min({a, b}) = IF a <= b THEN a ELSE b
  <2>1. PICK c : c = IF a <= b THEN a ELSE b
    OBVIOUS
  <2>2. \A x \in {a, b} : (\A y \in {a, b} : x <= y) <=> x = c
    BY <2>1
  <2>3. c \in {a, b}
    BY <2>1
  <2>4. (CHOOSE x \in {a, b} : \A y \in {a, b} : x <= y) = c
    BY ONLY <2>2, <2>3
  <2> QED
    BY <2>1, <2>4 DEF Min
<1>6. file.format = "None" => file.sampled.lines = NbLines \/ (file.sampled.lines >= SampleDepth /\ file.sampled.lines <= NbLines)
  BY <1>2, <1>3 DEF Sampled
<1>7. file.format = "None" => Min({file.sampled.lines, SampleDepth}) = Min({NbLines, SampleDepth})
  <2>1. Min({file.sampled.lines, SampleDepth}) = IF file.sampled.lines <= SampleDepth THEN file.sampled.lines ELSE SampleDepth
    BY <1>4, <1>5
  <2>2. Min({NbLines, SampleDepth}) = IF NbLines <= SampleDepth THEN NbLines ELSE SampleDepth
    BY <1>2, <1>4, <1>5
  <2> QED
    BY <1>2, <1>4, <1>6, <2>1, <2>2
<1> QED
  BY <1>1, <1>3, <1>7 DEF Sampled

LEMMA StopsHold == IInv => StoppedIsLoaded /\ StopIsTold
<1> SUFFICES ASSUME IInv
             PROVE  StoppedIsLoaded /\ StopIsTold
  OBVIOUS
<1>1. StopInv
  BY DEF IInv
<1>2. StoppedIsLoaded
  BY <1>1 DEF StopInv, StoppedIsLoaded
<1>3. Quiet /\ told.stopAsked => told.stopped = 1
  <2>1. file.rule.watching \in {"On", "Stopping", "Stopped"}
    BY DEF IInv, TypeInv, FileMembers, Rules
  <2> QED
    BY <1>1, <2>1 DEF StopInv, Quiet
<1> QED
  BY <1>2, <1>3 DEF StopIsTold

\* TypeOK, for the Log Data, the rule, and the Searches.
THEOREM TypeCorrect == Spec => []TypeOK
BY Invariant, TypeHolds, PTL

\* AskedIsKept: a Search asked for before the first load waits with its
\* pattern until it is requested or withdrawn.
THEOREM KeepsWhatWasAsked == Spec => []AskedIsKept
<1>1. IInv => AskedIsKept
  BY DEF IInv, WaitInv
<1> QED
  BY <1>1, Invariant, PTL

\* LimitsSettled: the Search Limits name Log Lines there are.
THEOREM LimitsAreSettled == Spec => []LimitsSettled
BY Invariant, LimitsHold, PTL

\* OnlyAppendedIsAppended: a load told as having only appended left the Log
\* Lines told before.
THEOREM OnlyAppends == Spec => []OnlyAppendedIsAppended
<1>1. IInv => OnlyAppendedIsAppended
  BY DEF IInv, HonestInv, OnlyAppendedIsAppended
<1> QED
  BY <1>1, Invariant, PTL

\* FollowedSearch: a Search that auto-refresh follows has read every Log Line
\* within the Search Limits as it now is.
THEOREM FollowsTheLogFile == Spec => []FollowedSearch
BY Invariant, FollowsHold, PTL

\* FormatFollows: the Log Format was taken from the Log File as it now begins.
THEOREM FormatIsOfTheLogFile == Spec => []FormatFollows
BY Invariant, FormatHolds, PTL

\* FieldTermsRead: the current Search reads its Field Terms through the Log
\* Format there is.
THEOREM ReadsFieldTerms == Spec => []FieldTermsRead
<1>1. IInv => FieldTermsRead
  BY DEF IInv, FieldInv, FieldTermsRead
<1> QED
  BY <1>1, Invariant, PTL

\* StoppedIsLoaded: the stop of watching is told when the Log File is loaded
\* as it was when the watching was stopped, or later.
THEOREM ToldOnceLoaded == Spec => []StoppedIsLoaded
<1>1. IInv => StoppedIsLoaded
  BY StopsHold
<1> QED
  BY <1>1, Invariant, PTL

\* StopIsTold: it is told once, and never is all at rest before.
THEOREM ToldOnce == Spec => []StopIsTold
<1>1. IInv => StopIsTold
  BY StopsHold
<1> QED
  BY <1>1, Invariant, PTL

\* SavedMarksAreKept: the saved Marks are applied, or still to be.
THEOREM KeepsSavedMarks == Spec => []SavedMarksAreKept
<1>1. IInv => SavedMarksAreKept
  BY DEF IInv
<1> QED
  BY <1>1, Invariant, PTL

=============================================================================
