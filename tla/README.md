# LogSquirl in TLA+

LogSquirl opens Log Files, indexes their Log Lines, follows them as they grow,
and searches them while all of that goes on.  These modules model the engine
that does so: the threads it runs jobs on, the watcher that hears of changes on
disk, the queue index jobs go through, the Search that has to be right whatever
changes under it, what an Open Log File makes of a load, and what is displayed
in the end.  The terms are
those of `CONTEXT.md`.  Paths below are relative to `src/`.

    logdata/backgroundrun     BackgroundRun -> RunReports    (refinement, proved)
    logdata/searchsession     SearchSession over SearchOperation over SearchData
                              (safety proved: SearchSession_proofs, SearchDecided_proofs)
    logdata/logdata, worker   Indexing over LogIndex over IndexJobs (safety proved)
    openlogfile               OpenLogFile over LoadRule and IndexJobs (safety proved)
    filewatch                 FileWatch (no change forgotten: proved)
    logdata/displayedlines    Overview (ui/overview) over DisplayedLines (proved)

Run a configuration with `tlc -config MCIndexing.cfg MCIndexing`, and the proofs of a
module with `tlapm OpenLogFile_proofs.tla`, which takes ten minutes from nothing,
`Indexing_proofs` six; the others (`BackgroundRun_proofs`, `SearchSession_proofs`, `SearchDecided_proofs`,
`DisplayedLines_proofs`, `Overview_proofs`, `FileWatch_proofs`) take a few minutes each.

## The system

| Part | State it keeps | Operations | Talks to |
|---|---|---|---|
| Background Run (`logdata/include/backgroundrun.h`) | the active run, the policy, reports not delivered, the mailbox and its relay | start, interrupt, setPolicy, destruction | its starter, by progress and finish reports on the starter's thread; its reader, attached per run |
| Search run (`logfiltereddataworker.cpp`) | the data shared by the threads of a Search: Matches not taken, how far was searched without a gap | full search, update search, take results | Search Session, by reports and by the data |
| Search Session (`searchsession.cpp`) | phase, range, count, Matches told, arrived and withdrawn, the results cache | request, stop, logLinesChanged, setSearchPolicy, reports of the run | whoever follows the Matches, by deltas |
| Index job queue (`logdataoperation.cpp`) | the job running and the one waiting | enqueue, finish and start next, interrupt, shutdown | the index worker |
| Index run (`logdataworker.cpp`) | the Index: line ends, bytes, digests, modification time, Encodings | Attach, Full, Partial, Check | Log Data, by its finish report |
| Log Data (`logdata.cpp`) | display Encoding, lines before data was added | attach, reload, change on disk, setDisplayEncoding, ends of jobs | Searches (logLinesChanged), Open Log File (loadingFinished, fileChanged) |
| Open Log File (`openlogfile.cpp`) | Encoding chosen and settled, Search Limits, Marks, watched | open, reload, setEncoding, requestSearch, stopWatching | Log Data, Load Rule, Search Session, File Watch |
| Load Rule (`loadrule.cpp`), Search Auto-Refresh | what changed since the last load, which Search waits, how watching ends | reload, changedOnDisk, loadFinished, stopWatching | Open Log File |
| File Watch (`filewatcher.cpp`) | watched directories and files, sizes and times last seen | add, remove, native events, polling thread | every Open Log File |
| Displayed Lines (`displayedlines.cpp`), Filtered Data | the Matches, Marks and Context Lines shown, which of them wait for their Context Lines, whether anything but the end was rewritten | deltas, Marks, what is shown, how many Context Lines | views, the Overview |
| Overview (`ui/src/overview.cpp`) | the rows drawn and what they were counted for | update of data and of the view | Displayed Lines, which it reads later |
| Index Cache (`indexcache.cpp`) | Indexes of earlier runs, on disk | load, save, evict | index run |
| File Holder, Indexing Blocks | the open file and who reads it; blocks in flight | attach, detach, reopen; parse, stitch | index run |
| Plugins, Team Folder, Command source, Session, Kept Searches, QuickFind | see PROJECT.json | | user interface |

What is hard is what the components do to each other.  A run goes on after it
is superseded, until it asks; its reports are delivered later, on another
thread, perhaps inside the delivery of an earlier one.  Blocks of a Search are
combined in any order.  The Log File changes while it is indexed, checked or
searched, and everybody learns of it later, in an order nobody chose.  A user's
reload, an Encoding, a stop or a new request falls between any two of those
steps.  PROJECT.json lists these hazards with the line where each bites and the
properties that would catch it.

The properties each part should have:

* Background Run: each run is reported finished once, in order, after its
  progress and never after shutdown; what it reads stays open as long as it may
  read; starting never blocks for good; a job keeps one policy.
* Search: what is told as Matches is exactly the Log Lines that match, of the
  request that is current, with nothing lost, doubled or stale; deltas add up to
  the Matches; the cache holds no result of Log Lines since changed; a Search
  settles.
* Indexing: once nothing runs, what is on disk is indexed, also when a cached Index
  was taken or gone on from; readers were told of
  every Log Line that changed; Log Lines are split as they are decoded; no job
  is lost.
* Open Log File: a Search that waits for a load runs once, with the pattern asked
  for last; Search Limits, Log Format, saved Marks and the Search followed fit the
  Log Lines at rest; what was read anew is never told as appended; the end of
  watching is told once, and when what was there is loaded.
* File Watch: what an Open Log File has not seen is on its way to it or left for the
  next poll to find, and is seen in the end.
* Displayed Lines and Overview: updated from what changed, they are what counting
  everything again would give.
* Planned: a file in use is not closed;
  blocks parsed apart are stitched into what one pass would give.

## The modules

### BackgroundRun, RunReports, BackgroundRun_proofs

`BackgroundRun` models `backgroundrun.h` and `backgroundrun.cpp`: the owner's
thread, the pool's one thread, and the mailbox between them.  `start()` is split
where another thread can get in: `Activate` makes the run the wanted one,
`Submit` takes the policy and hands the job to the pool, `StartReturns` is the end
of the wait for it to begin.  The destructor is `Shutdown` and either
`ShutdownDone` or `ShutdownTimesOut`.  The mailbox is `pending`, the "deliver"
calls queued for it are `wakes`, and `stack` holds the `deliver()` loops on the
owner's stack, each between two reports or inside a callback: a callback may run
an event loop, so deliveries nest.  A job does nothing but report progress and
end; `JobEnds` says how, `RunnableEnds` posts the finish report.

`RunReports` is what whoever starts runs may rely on: runs are started, reported
finished in the order started, each once, until the whole is closed.
`ImplementsRunReports` says that `BackgroundRun` implements it;
`ImplementsFairRunReports`, which holds at the same bounds when put in its place in
the configuration, that it does so with fairness.

### SearchData, SearchOperation, SearchSession

`SearchData` has the operators on the data a Search's threads share: `AddAll` joins
a block to what was searched without a gap, or keeps it ahead of a gap.
`SearchOperation` is the run: `ReadBlock` reads and matches a block (or passes over
one that cannot be read, which the model does not send through the limiter), `PickBlock`
and `CombineBlock` are the match processor, asked whether the run is superseded in the
first and combining in the second.  `limiter` is the limiter of the graph: it counts the
blocks it accepted until the match processor is done with them, and what is read while it
has no room is `offered` until it has (`AcceptBlock`).  A graph with nothing left to do
ends, also when that is because no room was made: `CompleteIsWhole` says that this does
not happen to a run that is told complete, and `TypeOK` that the count is that of the
blocks in flight.
`SearchSession` has one action per path through `request()`, per kind of report,
and for `logLinesChanged()`, `stop()` and the throttled notification.  It relies on
what BackgroundRun promises: one job at a time, reports in order.

`lines` is the Log File as it reads now: each Log Line is the set of patterns that
match it.  `LinesGrow` and `LinesReplaced` change it behind the Session's back, and
`LogLinesChanged` tells the Session, later.

A Search may be continued: a request with the same pattern and start and a larger
end goes on from the last Log Line searched.  That is right only when the Session
took what the run had combined (`Settled`).  The code does not see to that, and two
of the findings are what happens then; with `ContinueUnsettled = FALSE` the model
continues only a settled Search, so that the runs show everything else is right.

### IndexJobs, LogIndex, Indexing

`IndexJobs` is the job rule as operators.  `LogIndex` is the Index, what a run does
to it, how a Check compares it with the Log File, and what the Index Cache keeps of
it.  `Indexing` puts the Log File
on disk, the watcher, the queue, the run and the owner's thread together, with the
Encoding the Open Log File settles.

A Log File is a sequence of halves of Log Lines, each stamped with the change that
wrote it: that is enough to tell an unterminated last Log Line, a continued one, an
appended one and a rewritten one apart.  An empty Log File stands for a missing one
too, so `OpenMissing` may happen to it.  A digest is the bytes it was taken of: the
Index has those of the full, the header and the tail digest, and of what the running
digests go on from, which a cached Index starts over and which are read from the Log
File again where they do not cover its end.  `DigestBlock` is `DigestBlockSize`.  The
modification time is how often the Log File changed.  An Encoding is how it splits a Log File
(`Splits`).  What is told to readers is the history variable `told`: the Log Lines as
a reader holds them that drops exactly what `logLinesChanged()` names.

A run ends reading where it finds itself superseded or at the end of the Log File
(`StopReading`), or where a read fails, which it takes for that end (`ReadFails`).
`doIndex()` then asks twice whether it is superseded, for the fake line feed and for what
it does with the Index, and tells the second answer (`Outcome` in `EndIndex`); nobody sees
the Index between the two, as its lock is held.  A full run that is superseded while it
checks a cached Index leaves the Index of before (`LeaveIndex`).  What `lost` says of the
last index run is taken back by the next Check, which must then find what is missing.

`IndexingFinished` and `CheckFileChangesFinished` are the two handlers up to
`finishJobAndStartNext()`, which follows before anything else on the owner's thread
(`run.at = "told"`).  A Check is one step, as a change made while it reads is reported
again afterwards.

With `UseIndexCache` a full run looks in the Index Cache first: it takes the entry
(`TakeCached`), goes on from its last Log Line after two looks at the Log File
(`CheckCached`, `ResumeCached`), or indexes from the start (`BeginFull`), which it also
does when the entry was evicted.  The cache is one entry, since nothing else is asked
for; saving it is atomic (`QSaveFile`) and may fail.  Comparing the entry and asking for the
size after it (1087-1088) are one step.  Every change has a modification time of its own:
two within the resolution of a file system are not modelled, here and in `FileWatch`.

### LoadRule, OpenLogFile

`LoadRule` has the rules of `loadrule.cpp` and `searchautorefresh.cpp`, which have no
thread: each call is an operator from the members to the members after, and
`LoadFinished` gives the decision with its ten answers.  `OpenLogFile` puts the rules
among what they decide about: the jobs of Log Data on the queue of `IndexJobs`, the
watcher's reports, the reports posted late, several Searches of which one is current
and others are kept, and the calls of the users.  `HandleLoadingFinished` is the whole
handler in its order: the Searches hear that Log Lines changed, the rule decides, the
followed Search goes on or starts again, saved Marks are applied, the waiting Searches
run or are held on, the Log Format is recognized and the Search with Field Terms asked
for again, and watching continues to stop.

Log Data and Searches are taken by what the other modules show of them.  An index run
that ends leaves the Log Lines of the Log File, or none when it was interrupted or
failed; a Check compares them; a run of a Search reads its Search Limits, from where it
was unless something before that changed.  A Log Line is the generation of the Log File
it was read from: a Log File cut or written anew is another generation.  There is one
Encoding here (Indexing has them), and one Log Format that is recognized or not.  A Search
is made current only where another is, since `KeptSearches::makeCurrent()` returns early
for the current one; `reload()` is only asked of a Log File that was opened.  `Init` is a Log File as just constructed, or as the
Session restores one, with every Search waiting and held.  Dialogs, the titles of views
and file errors told to the user are left out.

The history variables are `asked`, the pattern a Search was asked for and has not got,
and `told`.  `told.lines`, `honest`, `stopped`, `stoppedRight`, `stopAsked` and `stopFile`
are what the users were told; the rest names the situations the properties exclude:

| Name | Situation | What happens then |
|---|---|---|
| `early` | a Search is requested while a full read of the Log Lines is running or waiting | its Matches are of the Log Lines before; the load that ends does not refresh it |
| `borrowed` | another Search was made current | auto-refresh and the pattern are those of the Search current before, until one is requested: a restart after a truncation uses the other Search's pattern |
| `apart` | the Search Limits or auto-refresh were set since the last load | nothing is searched until a load ends |
| `narrowed` | the Search Limits are not the whole Log File | they stay where they were put |
| `reloadRaced` | a reload is asked for between the end of a load and its report | the stale report passes for the reload's: Format Recognition is satisfied by the Log Lines before |
| `raced` | watching is stopped while a Check that found nothing is still to be reported | the stop is told at once, though more was written since |
| `marked` | a load without Log Lines, a reload or a truncation took or cleared the Marks | the saved Marks are gone |

### FileWatch

`FileWatch` has the main thread, the poll thread and the program that writes.  The poll
thread copies what is watched (`Poll`), looks at each file with no lock held
(`LookAt`), writes back by name (`WriteBack`) and posts what changed (`Tell`); files
come and go between any two of these.  A report goes from an event of the directory or
from the poll through the event loop, the throttler (`changes`, `due`) and a posted
call to the Open Log File, which looks at the file then (`seen`).  A file on disk is its
stamp: a number no file had before, or `Missing`.  `history.unheard` names the files
whose last change came when no directory watch was there; efsw is taken to tell every
change in a directory it watches.

`NoChangeForgotten` says that what is not seen of a watched file is on its way, or that
the stamp kept differs from the file's so that the next poll finds it.  `ChangesSeen` says
it is seen in the end while polling.  A file that is gone is excluded: it has the
stamp it had when it was gone before, so the going of one that was back between two
looks may stay unreported (see below).

### DisplayedLines, Overview

`DisplayedLines` is one operator per function of `displayedlines.cpp` and one action per
public operation: `Apply` of a delta, Matches replaced or discarded, Marks set and
removed, kinds shown, number of Context Lines.  Updates are incremental, as in the code:
`RefreshLinesAt` displays only the Log Lines said to have changed anew,
`UpdateContextLines` adds those around what arrived, `DropContextLinesOf` takes away what
no other Match or Mark reaches.  The Log File grows and is read anew behind its back
(`LogLinesIndexed`).  A delta has the shape Search Session gives it: what left the
Matches was the last one, and what came is after it.

`Overview` counts what is displayed into rows, and while nothing but the end was
rewritten only from the last row drawn on.  It hears of changes later than they
happen, so `UpdateData` and `UpdateView` are actions of their own.  An update that is
paced out changes nothing.  The rows drawn are forgotten in `SetFilteredData`, since all
are counted again before they are drawn; there is always something to draw and a row to
draw it in.

## What is checked

| Run | Shows | Bounds |
|---|---|---|
| `background_run` | safety of runs, `start()` ends, superseded runs are reported, the refinement of RunReports | 3 runs, 2 reports pending, 1 wake-up queued beyond those needed, 2 nested deliveries |
| `search_session` | requests of two patterns and ranges, stops, failures, the cache, Log Lines changed once in any way | 2 Log Lines, 2 runs, 2 blocks in flight, cache of 2 Matches |
| `search_continued` | a Search continued over a Log File that grows, its blocks in any order and read ahead of the limiter; that one told complete left nothing unread; that it settles | 3 Log Lines, 2 blocks in flight, one growth, 2 runs, no report of progress |
| `indexing` | no change lost, readers follow, with the Index Cache, truncation, reloads, stops, failures and read errors | 4 halves, at first 0, 1 or 4; 3 events, of which 2 changes, 1 reload, 1 stop, 1 failure |
| `indexing_encodings` | split as decoded under three Encodings, with the Index Cache; what is on disk is indexed in the end | 2 halves, at first 0 or 2; 3 events, of which 2 changes, 2 Encodings chosen after the one forced at first; no stop, failure or reload |
| `open_log_file` | ten safety properties of what an Open Log File makes of loads, changes, stops and calls | 2 Searches, 2 Log Lines, 2 changes or failures, 3 calls, 3 of them together |
| `displayed_lines` | what is displayed, the Context Lines, the rewrites told, the rows of the Overview | 3 Log Lines, 1 Mark, 1 Context Line, 2 rows |
| `file_watch` | no change forgotten between the threads, and changes seen in the end | 1 file, 3 stamps, 3 calls, 2 changes of polling posted |

The bounds are the smallest at which the cases the code distinguishes meet.  Three
runs: one delivering, one running, one starting.  Two blocks in flight and three
Log Lines: a block beyond a gap, and one that fills it.  Two runs of a Search: one
superseded, one awaited, with the reports of both on their way.  Two changes of a
Log File: one seen by a job in flight, one after it.  Two Log Lines of two halves: an
unterminated Log Line behind a whole one.  A cache of two Matches is over its budget
with two entries.  Three Log Lines with one Context Line: one that two lines reach,
and one the end of the Log File cut off.  Two Searches: one current, one kept.  Three
events and calls of an Open Log File meet in any order and at any step of its jobs;
`MaxChecksBeforeStopping` is 2 instead of 5, so that giving up is among them, and
`SampleDepth` is 2, so that a Log File of one Log Line leaves Format Recognition pending
for the loads after.  Two Encodings chosen: one chosen while the reload for the other
waits, or back.  `search_continued` reports no progress, which keeps it within minutes;
`search_session` does.  Displayed Lines change
between what hides the Matches and all that can be shown; the same properties hold with
all five combinations the visibility box offers (`crawlerwidget.cpp:1464-1489`, 653,742
states, a minute on four cores), which takes too long to keep.  Marks and Context Lines
without Matches are not among the five, and `RewritesTold` fails there: a Match that
came on a Context Line is taken from the display by a later update, untold.
Three stamps: one kept, one seen in a look, one written after it; a
file added, removed and added again takes two of the three calls.  Files share only
the threads and the throttler, so one is enough for the liveness; two were tried for
`NoChangeForgotten`, which is proved for any number.

No passing run reaches a Log File whose middle is covered by neither the header nor the
tail digest when it grew: there a change of the middle is not noticed, as
`indexedhash.h` documents (lines 66-75).  A cached Index whose middle differs from the
Log File is left out at the start (`FormerEntries`) for the same reason.

All configurations turn the deadlock check off: each bounds what the user and the
disk do, and an engine with nothing left to do stops.

### Fairness

`BackgroundRun`: the owner's and the pool's threads keep running, callbacks return,
the outermost event loop takes queued calls, and a superseded job stops, since
every job asks `isSuperseded()` between blocks.  A job that is wanted need not end.
A nested event loop need not run, so only `Wake /\ stack = <<>>` is fair.
`SearchSession`: the run's steps and the delivery of its reports; nothing the user
does.  `Indexing`: the worker, the deliveries, and the watcher's report of a change
that was made; the disk and the user may stop at any time.  `FileWatch`: both event
loops and their timers go on, and looking at a file ends; nothing that is written,
called or set.  All of it is weak.  `OpenLogFile` and `Overview` state no fairness: their
properties are of every step, or of moments at which nothing is under way.

## What is proved

`BackgroundRun_proofs` proves, for any number of runs, policies, pending reports,
wake-ups and nesting:

* `TypeCorrect`, `ReportedOnceInOrder`, `ReaderHeld`, `WakeNeverLost`, `OneRunAtATime`,
* `QuietAfterShutdown` and `PolicyFixed`, of steps,
* `Refinement`: every step is a step of RunReports or invisible in it.

What a theorem establishes for every instance need not be run as well: that runs are
reported once and in order, that readers balance, that `start()` returns with only the
newest run on the pool's thread (`StartWaitsForTurn`) and that a run keeps its policy are
proved and no longer run.

The properties are not inductive: that finish reports come in order needs to know
where each run is between `start()` and its report.  The invariant `IInv` places every
run: `StartInv` says which runs were submitted, have begun and have ended by the
owner's place in `start()`, the pool's queue and thread; `PendingInv` that the reports
pending are of runs begun and not reported, a finish report only of one ended, in
order, progress first; `FinishInv` that the runs reported are 1 to n, and every run
that ended is reported or pending; `ReaderInv` that the reader is attached once per
run submitted and not reported; `ClosedInv` that a closed mailbox is empty.  There is
one lemma per thread (`OwnerStep`, `ShutdownStep`, `DeliveryStep`, `PoolStep`), with a
case per action.  The one assumption is `BoundsAssumption`: the bounds are natural
numbers.

`FileWatch_proofs` proves, for any files, directories and Watch Policies, `TypeCorrect` and
`NothingForgotten`, which is `[]NoChangeForgotten`.  The invariant `IInv` follows a change
through the threads.  `StampInv`: no stamp kept or copied is newer than the newest
given.  `CopyInv`: a file that has on disk the stamp the poll copied is kept with that
stamp; it may have been removed and added again under the poll, but a stamp never
recurs, so it has had this one since.  A write-back that leaves an old stamp either
leaves one unlike the file's, for the next poll to find, or tells of the change.
`TellInv`: a poll has changes to tell only once it has written back.  The assumption is `FileWatchAssumption`.

`SearchSession_proofs` proves of SearchSession, for any Log Lines, patterns, Search Limits
and bounds (`SearchAssumption`), `TypeCorrect`, `AwaitedNotSupersededHolds`,
`FollowersInStepHolds` and `CacheWithinBudgetHolds`.  Each rests on an invariant of its own:

* `OwnerInv` places the run in flight, the one awaited and the one started last; `ReportsInv`
  says what may still be delivered of each, which is why a report of a superseded run that
  arrives late is not taken for an answer.
* `FollowInv`: whoever adds up the deltas holds the Matches told, and the count told is that
  of `Held`, the Matches with what arrived and without what is stale.
* The budget is inductive with the types, by a lemma on `updateSearchResultsCache()`: only the
  entry just made is kept beyond what fits, and one that alone exceeds the budget is not made.

`SearchDecided_proofs` proves `CacheIsCurrentHolds`, `SearchedIsDecidedHolds` and
`CompleteIsExactHolds`.  The last two assume `~ContinueUnsettled`: with it they are false,
which `search_lost_match` shows.  `CacheIsCurrentHolds` assumes nothing of that, since what
is cached was never continued.  All three are one induction, on `SearchInv`.  A Search is
not exact while it runs, and what changed on disk and is not told yet makes what was
searched wrong for a time.  So the invariant is of the `Trusted` Log Lines, those that still
read as they did when they were searched, and of `Truth`, the Log Lines of the range that
match now.  `DecidedInv` says it of what the Session took, `DataInv` of what the run
combined and was not taken, `BlockInv` of blocks beyond a gap and in flight; so the order
blocks are combined in does not matter.  `BegunInv` and `ResetInv` say from where a run
goes on that has not begun while what is left of the run before is still there, `RangeInv`
and `KeyInv` that nothing leaves the range asked for or the name it is cached under.

`DisplayedLines_proofs` has the lemmas about the operators of DisplayedLines, and
`Overview_proofs` the theorems, for any Log File, heights and numbers of Context Lines:
`TypeCorrect`, `DisplayedAreShownHolds`, `ContextLinesExactHolds`, `RewritesToldHolds` and
`OverviewExactHolds`.  `DisplayInv` is that the lines displayed are those shown, with
`ContextInv`: the Matches that wait for Context Lines are Matches, no Mark is a Context
Line, without a number of Context Lines there are none, and otherwise they are those the
rest reach (`Covers`).  Inside an operation it does not hold, as what arrived is displayed
before its Context Lines are; the lemmas on the steps of an operation say it of all but
those lines (`DisplayInvBut`).  `RowsKept` is what makes counting from the last row drawn
right: while nothing but the end was rewritten, the rows before are right, and the last row
drawn still holds a Match, a Mark or a Context Line or comes before one, so that whatever is
added comes after the rows kept.  Assumed are `DisplayedLinesAssumption`, `OverviewAssumption` and
`VisibilitiesOffered`, what the visibility box offers; `RewritesToldHolds` is false without
the last, as said above.

`OpenLogFile_proofs` proves all that `open_log_file` runs, for any Searches, patterns and
Log Lines and any bounds on events and calls.  The invariant `IInv` says, by where the
queue and the run in flight stand, what the parts still are to each other:

* `RunInv`, `Opening`: which outcome goes with which job, and that nothing is watched,
  searched or told before the first load.
* `LinesInv`, `HonestInv`: the Log Lines are those told of last until an index run touches
  them, and then those with more after them or to be told as read again.  They give
  `LimitsAreSettled` and `OnlyAppends`.
* `WaitInv`: a Search waits in one of the places for it, as the current one, before
  the first load or after it, with the pattern asked for.  It gives `KeepsWhatWasAsked`.
* `StopInv`: until the stop of watching is told, a job is queued whose end tells it; a Check
  that found the Log File unchanged found it as it was when the stop was asked for, or later.
  It gives `ToldOnce` and `ToldOnceLoaded`.
* `FormatInv`, `FieldInv`: the Log Format is of the Log Lines told of or to be recognized
  again, the latter before the Log Lines are read again; the current Search was requested
  under it.  They give `FormatIsOfTheLogFile` and `ReadsFieldTerms`.
* `SearchesInv`, `FollowInv`: what a Search has read but for the last Log Line is still so
  unless it was told of a change, and what auto-refresh follows covers the Search Limits.
  They give `FollowsTheLogFile`.
* `SavedMarksAreKept` is inductive beside the others.

There is one lemma per action; those of `HandleLoadingFinished` have one per part
(`Decision`, `RefreshSearch`, `ApplySavedMarks`, `RunWaitingSearches`), which the model names
for that.  TLC checked `IInv` on 557,749 states before it was proved.  Assumed are
`OpenLogFileAssumption`, `LoadRuleAssumption` and `NoEncodingAssumption`: bounds are natural
numbers, and the constants that stand for nothing are none of the others.

`Indexing_proofs` proves, for any sizes of the Log File and of a digest block, any Encodings
and any bounds, the safety that `indexing` and `indexing_encodings` run:

* `TypeCorrect`.  `TypeInv` is more than `TypeOK`: no byte is newer than the last change, the
  parts of an Index are not longer than it (`Sized`), and none is longer than `MaxSize`.
* `RunInv` says which run may be in flight for which job and with which outcome, that a
  Partial waits only behind the Check that asked for it, and that until then nothing touches
  the Index whose Log Lines were counted.
* `ReadersFollowed` adds `FollowInv`: between index runs readers hold the Log Lines as they
  are; while a Partial runs, those before the first it may change (`FirstChanged`).
  `PartialKeeps` is the reason: a Partial only appends, unless it loses the Index.
* `SettledIsIndexedHolds` takes three more.  `BytesInv`: each change writes bytes of its
  own, so a byte indexed that is still at its place has those before it unchanged; that is
  how a digest of the last bytes, in the model the bytes themselves, answers for all
  (`HistoryOf`, `Coherent`).  It holds while nothing was rewritten under a job.  `HeaderInv`
  holds whatever was written: bytes read first are no newer than those read later at the same
  place (`ReadBefore`), so digests that match a Log File were of it all along.  `LookInv` is
  of the last look: either one is still to come (`WillLook`), or what goes on from there
  keeps to the length and the header of the Log File, and what ended there fits.
* `SplitAsDecodedHolds` adds `SplitInv` instead, for any number of Encodings chosen at any
  moment, with the Index Cache or without: the last job that reads all of the Log File, where
  it waits or has not read yet (`Fresh` says when there is none), carries an Encoding that
  splits as the one settled (`SplitJobs`), and so is the Index split once it has read
  (`SplitIndex`, `AsAsked`).  `SplitSettled` ties the Encoding settled to the one chosen or
  detected, and to the Index of the last load.  Nothing is assumed of what is chosen: what
  the code leaves split otherwise is in the property, by the history variable `unsettled`.

TLC checked each invariant before it was proved.  Assumed are
`IndexingAssumption`, `EncodingsAssumption`, `NoEncodingAssumption` and `DigestBlockAssumption`:
bounds are natural numbers, the Log File at first is within them, and a digest block holds
whole Log Lines.  The first attempt to prove `SettledIsIndexed` failed: as stated before, with
the tail of the Index in `PassesForIndexed`, it is false beyond the bounds of the run, which
gave the case of the tail below.

What the exceptions of a property name (see the table of OpenLogFile) is an exception of
its theorem as well.  Model-checked only are: liveness, fairness and the fair refinement, as
the proof system reasons about neither ENABLED nor the recursion such proofs need
(`SearchSettles`, `CatchesUp`, `ChangesSeen` and the like), `CompleteIsWhole`, and what the
runs that end in a violation show.

## Where code and comments disagree

Four runs end in a violation, each of one statement made in the repository; the
counterexample TLC prints is the sequence of calls.

* `search_lost_match`: a Search continued while it runs, with blocks combined and
  not taken, withdraws the Match of the last Log Line it reported although that Log
  Line is not searched again.
* `index_partial_cut`: a Partial that is interrupted empties the Index, and Searches are
  told only of the Log Lines from its start.
* `index_encoding_drops`: an Encoding that splits alike, chosen during a load, interrupts
  the load and starts no other.
* `index_last_line`: what is appended while a Log File is indexed can lose its
  unterminated last Log Line.

The passing runs state the same properties with the exception named (`ReadersFollow`
excludes a Partial cut short, `SettledIsIndexed` a Log File rewritten under a job that
has the length and the header of what is indexed, `SplitAsDecoded` a Log File that
`unsettled` says was left otherwise).  What these exceptions hide is in
the model too, for whoever raises the bounds:

* with `ContinueUnsettled`, `CompleteIsExact` fails in the other direction too: the worker may search a later Log Line again than the one the Session expects,
  and a Match of it that was combined and not taken stays though the Log Line grew;
* without `unsettled`, `SplitAsDecoded` fails in four ways, each of which is where a step of
  `Indexing` sets it.  An Encoding chosen back while the reload for another one runs or
  waits does not stop that reload, which then ends last (`logdata.cpp:378`; `Outdated`).  A
  reload, or the full read after a truncation, forces no Encoding, so that the Log File ends
  up split as detected and decoded as chosen (`openlogfile.cpp:556`).  A cached Index that
  fits is taken whatever Encoding is forced (`logdataworker.cpp:1090-1110`; `CachedOtherwise`),
  though `openlogfile.cpp:563` says that the Log File is loaded again "when the new Encoding
  splits it into Log Lines differently".  And a run superseded while it checks a cached Index
  leaves the Index of before, with nothing waiting to read it again (1120-1126);
* `process` reaches "crashed" in `indexing_encodings`: an Encoding chosen before a load under
  a forced one indexed its first block reads through a null pointer (`logdata.cpp:381`);
* without `PassesForIndexed`, `SettledIsIndexed` fails: a Log File rewritten after its Check,
  or as it is read, with its size kept gets the modification time of the rewriting, as that
  is taken after the reading (`logdataworker.cpp:819-821`), so that the next Check compares
  its header and tail only.  The Check itself takes the time before "so a change made while
  it is read is not taken for checked" (1196-1197).  `resumeFrom()` likewise digests again
  what it does not compare (982), and a header or tail read again after a rewriting is
  that of other bytes than those indexed (617-643);
* a Log File cut below its tail while it is indexed, its header kept, records as its tail
  what was left of it, or nothing: a Check then compares only that much (`tailSize`).  Though
  a comment says "the digest of what there is will not match when it is checked"
  (`logdataworker.cpp:633-634`), it does match once the Log File grew again beyond what was
  indexed, if by other bytes: the Check finds data added, a Partial appends, and the bytes
  that were cut stay indexed.  With `DigestBlock = 4`, `MaxSize = 8`, `FirstSizes = {8}` and
  two changes TLC finds it where `PassesForIndexed` asks for the tail too;
* a cached Index leaves the full digest to begin with what is appended after it (219), so
  the first Check of the Log File written to without growing tells a truncation even where no
  byte changed, and all of it is indexed again;
* what the table of OpenLogFile names, each dropped from a property as its exception.  Of
  these `loadrule.cpp:151` hands the saved Marks to the report of a load a reload
  interrupted, while line 50 says a reload keeps them; and a Check in flight ends
  `stopWatching()` early (`openlogfile.h:345`).  Beyond them, held Searches run when they
  are made current though `openlogfile.h:219` holds them until released, and a kept
  Search with Field Terms is not asked for again when the Log Format changes;
* without its exception `ChangesSeen` fails: `addFile()` and `removeFile()` apply the Watch
  Policy again (`filewatcher.cpp:546`), which starts the poll timer over (`418`), and every
  load ends in an `addFile()`.  While another Log File loads more often than the poll
  interval, polling never happens, though `filewatcher.h:133` promises it;
* a file gone again after it was back between two looks, or kept as gone by a late
  write-back, has the stamp kept: its going stays unreported, though a comment says that
  the next round finds it (`filewatcher.cpp:199-201`).

## What is not modelled

PROJECT.json gives the reason for each part.  Most of the source by size is widgets,
parsing of text, settings, network and file formats: drawing and decoding without
a state that several steps or threads share, or code whose effects are in libraries.
In the modelled parts these are left out: the percentage of progress, line lengths,
undecided Log Lines (they follow the Matches' rules), the throttlers' intervals (they
may fire whenever something is pending), of the Index Cache its budget, the order of
eviction and entries damaged on disk, fast modification
detection, a provisional guess of the Encoding made again from the first bytes beyond
ASCII, decoding itself, and the file handle.  Of the Displayed Lines the
lengths of Marks, the walking from a line to the next, and of an Open Log File several
Encodings and what the Session saves.

## Plan

1. `FileHolder`: attach, detach and reopen; the budget of the Index Cache, with eviction
   by last use while two runs save.
2. `BlockStitching`: blocks parsed on their own and stitched, against the Log File parsed
   in one piece, over all small Log Files and block sizes.
3. `KeptSearches` and `ViewSet`; the Session's queue of files to restore, single instance.
4. `CommandSource`, plugin data sources, `TeamFolder`, `QuickFind`.
5. Abstract specifications: `Search` (a request, then exactly its Matches) that
   SearchSession implements and OpenLogFile uses; `FollowedFile` (the bytes indexed are
   those of some moment, the latest in the end) that Indexing implements and OpenLogFile
   uses; `Watch`, shared by Indexing and FileWatch.
6. Proofs: that the stronger job is never lost on the queue, as a property of steps; that
   Indexing implements `FollowedFile` and SearchSession `Search`, once those are written.
