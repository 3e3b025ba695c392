----------------------------- MODULE FileWatch -----------------------------
(***************************************************************************)
(* File Watch (src/filewatch/src/filewatcher.cpp): reports that a watched  *)
(* file changed on disk, from the events of its directory and by polling.  *)
(* The poll thread copies the watched files under the lock, looks at each  *)
(* with no lock held, and writes back by name what it saw, while the main  *)
(* thread adds and removes files and follows another Watch Policy.         *)
(*                                                                         *)
(* A file on disk is its stamp (its modification time and size): Missing,  *)
(* or one no file had before.  Each file is the Log File of at most one    *)
(* Open Log File, which adds it after every load, removes it when it stops *)
(* watching, and looks at it for every report and once when it is added    *)
(* (openlogfile.cpp:572-587).                                              *)
(***************************************************************************)
EXTENDS Integers, Sequences

CONSTANTS
    Files,          \* the names of files that may be watched
    Directories,
    Directory,      \* which of them each is in
    Policies,       \* the Watch Policies that may be followed
    Interval,       \* the poll interval, in ticks of the poll timer
    MaxStamps,      \* bound: changes on disk
    MaxCalls,       \* bound: files added that were not watched, and Watch Policies set
    MaxPosted       \* bound: changes of polling posted to the poll thread at a time

ASSUME FileWatchAssumption ==
    /\ Directory \in [Files -> Directories]
    /\ Policies \subseteq [native : BOOLEAN, polling : BOOLEAN]
    /\ Interval \in Nat \ {0}
    /\ MaxStamps \in Nat \ {0} /\ MaxCalls \in Nat /\ MaxPosted \in Nat

VARIABLES
    stamps,         \* the stamp of each file on disk
    lastStamp,      \* the newest stamp given
    watched,        \* watchedPaths_: the stamps of the watched files
    native,         \* the directories with an efsw watch, and nativeWatchEnabled_
    watchPolicy,    \* watchPolicy_
    worker,         \* the poll thread: its timer, what is posted to it, whether it runs
    poll,           \* the locals of checkWatches() on the poll thread
    reports,        \* how far a report has come
    seen,           \* what the Open Log File of each file saw of it last
    history         \* see below

disk == <<stamps, lastStamp>>
watcher == <<watched, native, watchPolicy>>
vars == <<stamps, lastStamp, watched, native, watchPolicy, worker, poll, reports, seen, history>>

Missing == 0
Stamps == Nat
Watched == DOMAIN watched
NoFiles == [file \in {} |-> Missing]

TypeOK ==
    /\ stamps \in [Files -> Stamps] /\ lastStamp \in Stamps /\ seen \in [Files -> Stamps]
    /\ Watched \subseteq Files /\ watched \in [Watched -> Stamps]
    /\ native \in [directories : SUBSET Directories, enabled : BOOLEAN]
    /\ watchPolicy \in [native : BOOLEAN, polling : BOOLEAN]
    /\ worker \in [running : BOOLEAN, polling : BOOLEAN, left : 0..Interval, posted : Seq(BOOLEAN)]
    /\ poll.phase \in {"Idle", "Looking", "Telling"}
    /\ DOMAIN poll.snapshot \subseteq Files /\ poll.snapshot \in [DOMAIN poll.snapshot -> Stamps]
    /\ DOMAIN poll.results \subseteq DOMAIN poll.snapshot /\ poll.results \in [DOMAIN poll.results -> Stamps]
    /\ poll.changed \subseteq Files
    /\ reports \in [events : SUBSET Files, posted : SUBSET Files, changes : SUBSET Files,
                    due : BOOLEAN, sent : SUBSET Files]
    /\ history \in [calls : Nat, unheard : SUBSET Files]

NotWatchingAnything == [native |-> FALSE, polling |-> FALSE]
IdlePoll == [phase |-> "Idle", snapshot |-> NoFiles, results |-> NoFiles, changed |-> {}]

Init ==
    /\ stamps = [file \in Files |-> 1] /\ lastStamp = 1 /\ seen = stamps
    /\ watched = NoFiles
    /\ native = [directories |-> {}, enabled |-> TRUE]
    /\ watchPolicy = NotWatchingAnything
    /\ worker = [running |-> TRUE, polling |-> FALSE, left |-> 0, posted |-> <<>>]
    /\ poll = IdlePoll
    /\ reports = [events |-> {}, posted |-> {}, changes |-> {}, due |-> FALSE, sent |-> {}]
    /\ history = [calls |-> 0,
                  unheard |-> {}]   \* files whose last change no directory watch was there to hear

-----------------------------------------------------------------------------
(* The files on disk.  efsw tells every change in a directory it watches.  *)

Changed(file) ==
    LET heard == Directory[file] \in native.directories IN
    /\ reports' = [reports EXCEPT !.events = IF heard THEN @ \cup {file} ELSE @]
    /\ history' = [history EXCEPT !.unheard = IF heard THEN @ \ {file} ELSE @ \cup {file}]
    /\ UNCHANGED <<watcher, worker, poll, seen>>

Write(file) ==
    /\ lastStamp < MaxStamps
    /\ stamps' = [stamps EXCEPT ![file] = lastStamp + 1] /\ lastStamp' = lastStamp + 1
    /\ Changed(file)

Vanish(file) ==
    /\ stamps[file] # Missing
    /\ stamps' = [stamps EXCEPT ![file] = Missing] /\ UNCHANGED lastStamp
    /\ Changed(file)

-----------------------------------------------------------------------------
(* The main thread.                                                        *)

DirectoriesOf(files) == {Directory[file] : file \in files}

\* The directories watched once those of tried were tried: adding a watch may fail.
TryWatchDirectory(directories, tried) == {directories \cup added : added \in SUBSET tried}

\* applyWatchPolicy(), with the files watched and the directories watched
\* natively by then: polling is posted to the poll thread, enableWatch().
ApplyWatchPolicy(policy, files, directories) ==
    /\ worker' = [worker EXCEPT !.posted = IF worker.running THEN Append(@, policy.polling) ELSE @]
    /\ \E enabled \in IF policy.native /\ ~native.enabled
                      THEN TryWatchDirectory(directories, DirectoriesOf(files)) ELSE {directories} :
           native' = [directories |-> IF policy.native THEN enabled ELSE {}, enabled |-> policy.native]

CanPost == Len(worker.posted) < MaxPosted

\* addFile() of a file not watched yet.  Its Open Log File, which loaded it
\* before, posts itself a look at it.
AddFile(file) ==
    /\ CanPost /\ history.calls < MaxCalls
    /\ file \notin Watched
    /\ watched' = [other \in Watched \cup {file} |-> IF other = file THEN stamps[file] ELSE watched[other]]
    /\ \E directories \in IF native.enabled
                          THEN TryWatchDirectory(native.directories, {Directory[file]})
                          ELSE {native.directories} :
           ApplyWatchPolicy(watchPolicy, Watched \cup {file}, directories)
    /\ reports' = [reports EXCEPT !.sent = @ \cup {file}]
    /\ history' = [history EXCEPT !.calls = @ + 1]
    /\ UNCHANGED <<disk, watchPolicy, poll, seen>>

\* addFile() of a file watched already, after another load.  What that load
\* read of it is left out.
AddFileAgain(file) ==
    /\ CanPost
    /\ file \in Watched
    /\ \E directories \in IF native.enabled
                          THEN TryWatchDirectory(native.directories, {Directory[file]})
                          ELSE {native.directories} :
           ApplyWatchPolicy(watchPolicy, Watched, directories)
    /\ UNCHANGED <<disk, watched, watchPolicy, poll, reports, seen, history>>

\* removeFile(), by an Open Log File that hears of no report any more.
RemoveFile(file) ==
    /\ CanPost
    /\ file \in Watched
    /\ watched' = [other \in Watched \ {file} |-> watched[other]]
    /\ ApplyWatchPolicy(watchPolicy, Watched \ {file},
                        native.directories \cap DirectoriesOf(Watched \ {file}))
    /\ reports' = [reports EXCEPT !.sent = @ \ {file}]
    /\ UNCHANGED <<disk, watchPolicy, poll, seen, history>>

SetWatchPolicy ==
    /\ CanPost /\ history.calls < MaxCalls
    /\ \E policy \in Policies \ {watchPolicy} :
           watchPolicy' = policy /\ ApplyWatchPolicy(policy, Watched, native.directories)
    /\ history' = [history EXCEPT !.calls = @ + 1]
    /\ UNCHANGED <<disk, watched, poll, reports, seen>>

\* stopPolling(): it waits for the poll under way, which waits for nothing.
StopPolling ==
    /\ worker.running /\ poll.phase = "Idle"
    /\ worker' = [worker EXCEPT !.running = FALSE, !.polling = FALSE, !.posted = <<>>]
    /\ UNCHANGED <<disk, watcher, poll, reports, seen, history>>

\* handleFileAction() posted it: notifyOnFileAction(), findChangedFilename().
NotifyOnFileAction(file) ==
    /\ file \in reports.events
    /\ reports' = [reports EXCEPT !.events = @ \ {file}, !.posted = @ \cup ({file} \cap Watched)]
    /\ UNCHANGED <<disk, watcher, worker, poll, seen, history>>

\* fileChangedOnDisk(): the throttler's timer is started.
FileChangedOnDisk(file) ==
    /\ file \in reports.posted
    /\ reports' = [reports EXCEPT !.posted = @ \ {file}, !.changes = @ \cup {file}, !.due = TRUE]
    /\ UNCHANGED <<disk, watcher, worker, poll, seen, history>>

\* The throttler's timer fires.  A change is posted to the Open Log Files,
\* and an Open Log File that stopped watching has been disconnected.
SendChangesNotifications ==
    /\ reports.due
    /\ reports' = [reports EXCEPT !.due = FALSE, !.sent = @ \cup (reports.changes \cap Watched),
                                  !.changes = {}]
    /\ UNCHANGED <<disk, watcher, worker, poll, seen, history>>

\* handleChangeOnDisk(): the Open Log File looks at its Log File.
HandleChangeOnDisk(file) ==
    /\ file \in reports.sent
    /\ reports' = [reports EXCEPT !.sent = @ \ {file}]
    /\ seen' = [seen EXCEPT ![file] = stamps[file]]
    /\ UNCHANGED <<disk, watcher, worker, poll, history>>

-----------------------------------------------------------------------------
(* The poll thread.                                                        *)

\* FileWatcherPollWorker::setPolling(), which starts the interval over.
SetPolling ==
    /\ worker.running /\ poll.phase = "Idle" /\ worker.posted # <<>>
    /\ worker' = [worker EXCEPT !.posted = Tail(@), !.polling = Head(worker.posted),
                                !.left = IF Head(worker.posted) THEN Interval ELSE 0]
    /\ UNCHANGED <<disk, watcher, poll, reports, seen, history>>

\* Time passes on the poll timer.
Tick ==
    /\ worker.running /\ worker.polling /\ worker.left > 0
    /\ worker' = [worker EXCEPT !.left = @ - 1]
    /\ UNCHANGED <<disk, watcher, poll, reports, seen, history>>

\* poll(), checkWatches(): the watched files are copied under the lock.
Poll_Once ==
    /\ worker.running /\ worker.polling /\ worker.left = 0 /\ poll.phase = "Idle"
    /\ worker' = [worker EXCEPT !.polling = FALSE]
    /\ poll' = [IdlePoll EXCEPT !.phase = "Looking", !.snapshot = watched]
    /\ UNCHANGED <<disk, watcher, reports, seen, history>>
Poll ==
    /\ worker.running /\ worker.polling /\ worker.left = 0 /\ poll.phase = "Idle"
    /\ worker' = [worker EXCEPT !.left = Interval]
    /\ poll' = [IdlePoll EXCEPT !.phase = "Looking", !.snapshot = watched]
    /\ UNCHANGED <<disk, watcher, reports, seen, history>>

\* A file is looked at with no lock held.
LookAt(file) ==
    /\ poll.phase = "Looking" /\ file \in DOMAIN poll.snapshot \ DOMAIN poll.results
    /\ poll' = [poll EXCEPT !.results = [other \in (DOMAIN @) \cup {file} |->
                                             IF other = file THEN stamps[file] ELSE @[other]]]
    /\ UNCHANGED <<disk, watcher, worker, reports, seen, history>>

\* The lock is taken again: what was seen is written back.
WrittenBack == DOMAIN poll.results \cap Watched
WriteBack_SeenNow ==
    /\ poll.phase = "Looking" /\ DOMAIN poll.results = DOMAIN poll.snapshot
    /\ watched' = [file \in Watched |-> IF file \in WrittenBack THEN stamps[file] ELSE watched[file]]
    /\ poll' = [IdlePoll EXCEPT !.phase = "Telling",
                    !.changed = {file \in WrittenBack : poll.snapshot[file] # poll.results[file]}]
    /\ UNCHANGED <<disk, native, watchPolicy, worker, reports, seen, history>>
WriteBack ==
    /\ poll.phase = "Looking" /\ DOMAIN poll.results = DOMAIN poll.snapshot
    /\ watched' = [file \in Watched |-> IF file \in WrittenBack THEN poll.results[file] ELSE watched[file]]
    /\ poll' = [IdlePoll EXCEPT !.phase = "Telling",
                    !.changed = {file \in WrittenBack : poll.snapshot[file] # poll.results[file]}]
    /\ UNCHANGED <<disk, native, watchPolicy, worker, reports, seen, history>>

\* The changes are posted to the main thread.
Tell ==
    /\ poll.phase = "Telling"
    /\ poll' = IdlePoll
    /\ reports' = [reports EXCEPT !.posted = @ \cup poll.changed]
    /\ UNCHANGED <<disk, watcher, worker, seen, history>>

Next ==
    \/ \E file \in Files :
           \/ Write(file) \/ Vanish(file)
           \/ AddFile(file) \/ AddFileAgain(file) \/ RemoveFile(file)
           \/ NotifyOnFileAction(file) \/ FileChangedOnDisk(file) \/ HandleChangeOnDisk(file)
           \/ LookAt(file)
    \/ SetWatchPolicy \/ StopPolling \/ SendChangesNotifications
    \/ SetPolling \/ Tick \/ Poll \/ WriteBack \/ Tell

Spec == Init /\ [][Next]_vars

\* The event loops of both threads go on, their timers fire, and looking at a
\* file comes to an end.
Fairness ==
    /\ \A file \in Files :
           /\ WF_vars(NotifyOnFileAction(file)) /\ WF_vars(FileChangedOnDisk(file))
           /\ WF_vars(HandleChangeOnDisk(file)) /\ WF_vars(LookAt(file))
    /\ WF_vars(SendChangesNotifications)
    /\ WF_vars(SetPolling) /\ WF_vars(Tick) /\ WF_vars(Poll) /\ WF_vars(WriteBack) /\ WF_vars(Tell)

FairSpec == Spec /\ Fairness

(***************************************************************************)
(* What File Watch promises.                                               *)
(***************************************************************************)

\* A report of the file is on its way to its Open Log File.
OnItsWay(file) ==
    \/ file \in reports.events \cup reports.posted \cup reports.sent
    \/ file \in reports.changes /\ reports.due
    \/ file \in poll.changed

\* There is something of a watched file its Open Log File has not seen.  That
\* a file is gone is left out: it has the stamp it had when it was gone before.
Unseen(file) == file \in Watched /\ stamps[file] \notin {seen[file], Missing}

\* What is not seen of a watched file is never lost between the threads: a
\* report of it is on its way, or -- where no directory watch heard of it --
\* the stamp kept is another than the file's, so that the next poll finds it,
\* though a poll may write back what it saw of the file before it was removed
\* and added again (checkWatches, filewatcher.cpp:195).
NoChangeForgotten ==
    \A file \in Files :
        Unseen(file) =>
            \/ OnItsWay(file)
            \/ file \in history.unheard /\ watched[file] # stamps[file]

\* While polling, all of a watched file is seen in the end, unless loads start
\* the poll interval over again and again (addFile, applyWatchPolicy,
\* setPolling).
ChangesSeen ==
    \/ []<><<SetPolling>>_vars
    \/ \A file \in Files :
           Unseen(file) ~> (~Unseen(file) \/ ~watchPolicy.polling \/ ~worker.running)
=============================================================================
