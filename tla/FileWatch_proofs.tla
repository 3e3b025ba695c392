-------------------------- MODULE FileWatch_proofs --------------------------
(***************************************************************************)
(* Proofs about FileWatch, for every set of files and directories, every   *)
(* poll interval and every bound.                                          *)
(*                                                                         *)
(* NoChangeForgotten is not inductive: writing back what a poll saw of a   *)
(* file unchanged could make the stamp kept of it the one on disk while no *)
(* report is on its way, were the file removed and added again meanwhile.  *)
(* CopyInv says why it does not: a stamp on disk is never one a file had   *)
(* and lost, so a file that has on disk the stamp it was copied with has   *)
(* had it since, and was added again with it.                              *)
(***************************************************************************)
EXTENDS FileWatch, SequenceTheorems, TLAPS

\* No stamp kept or copied is newer than the newest given.
StampInv ==
    /\ \A file \in Files : stamps[file] <= lastStamp
    /\ \A file \in Watched : watched[file] <= lastStamp
    /\ \A file \in DOMAIN poll.snapshot : poll.snapshot[file] <= lastStamp
    /\ \A file \in DOMAIN poll.results : poll.results[file] <= lastStamp

\* A file on disk as it was copied is kept as it was copied.
CopyInv ==
    \A file \in DOMAIN poll.snapshot \cap Watched :
        poll.snapshot[file] = stamps[file] /\ stamps[file] # Missing =>
            watched[file] = stamps[file]

\* A poll has changes to tell only once it has written back.
TellInv == poll.phase # "Telling" => poll.changed = {}

IInv == TypeOK /\ StampInv /\ CopyInv /\ TellInv /\ NoChangeForgotten

-----------------------------------------------------------------------------

\* The initial state satisfies the invariant.
LEMMA InitInv == Init => IInv
  BY FileWatchAssumption
  DEF Init, IInv, TypeOK, StampInv, CopyInv, TellInv, NoChangeForgotten, Unseen, Stamps, Watched,
      NoFiles, IdlePoll, Missing, NotWatchingAnything

WorkerTypes == [running : BOOLEAN, polling : BOOLEAN, left : 0..Interval, posted : Seq(BOOLEAN)]
NativeTypes == [directories : SUBSET Directories, enabled : BOOLEAN]
ReportTypes == [events : SUBSET Files, posted : SUBSET Files, changes : SUBSET Files,
                due : BOOLEAN, sent : SUBSET Files]
HistoryTypes == [calls : Nat, unheard : SUBSET Files]
PollType ==
    /\ poll.phase \in {"Idle", "Looking", "Telling"}
    /\ DOMAIN poll.snapshot \subseteq Files /\ poll.snapshot \in [DOMAIN poll.snapshot -> Stamps]
    /\ DOMAIN poll.results \subseteq DOMAIN poll.snapshot /\ poll.results \in [DOMAIN poll.results -> Stamps]
    /\ poll.changed \subseteq Files
WatchedType == Watched \subseteq Files /\ watched \in [Watched -> Stamps]

\* TypeOK, part by part.
LEMMA TypeParts ==
    TypeOK <=> /\ stamps \in [Files -> Stamps] /\ lastStamp \in Stamps /\ seen \in [Files -> Stamps]
               /\ WatchedType /\ native \in NativeTypes
               /\ watchPolicy \in [native : BOOLEAN, polling : BOOLEAN]
               /\ worker \in WorkerTypes /\ PollType /\ reports \in ReportTypes
               /\ history \in HistoryTypes
  BY DEF TypeOK, WatchedType, NativeTypes, WorkerTypes, PollType, ReportTypes, HistoryTypes

\* Following a Watch Policy keeps the types of what it changes.
LEMMA ApplyTypes ==
    ASSUME worker \in WorkerTypes, native \in NativeTypes,
           NEW policy \in [native : BOOLEAN, polling : BOOLEAN], NEW files \in SUBSET Files,
           NEW directories \in SUBSET Directories,
           ApplyWatchPolicy(policy, files, directories)
    PROVE  worker' \in WorkerTypes /\ native' \in NativeTypes
<1>1. worker' \in WorkerTypes
  <2>1. Append(worker.posted, policy.polling) \in Seq(BOOLEAN)
    BY AppendProperties DEF WorkerTypes
  <2>2. worker' = [worker EXCEPT !.posted = IF worker.running THEN Append(@, policy.polling) ELSE @]
    BY DEF ApplyWatchPolicy
  <2> QED
    BY <2>1, <2>2 DEF WorkerTypes
<1>2. native' \in NativeTypes
  <2>1. DirectoriesOf(files) \subseteq Directories
    BY FileWatchAssumption DEF DirectoriesOf
  <2>2. PICK enabled \in SUBSET Directories :
            native' = [directories |-> IF policy.native THEN enabled ELSE {}, enabled |-> policy.native]
    BY <2>1 DEF ApplyWatchPolicy, TryWatchDirectory
  <2> QED
    BY <2>2 DEF NativeTypes
<1> QED
  BY <1>1, <1>2

\* Every step keeps the types.
LEMMA TypeStep ==
    ASSUME TypeOK, [Next]_vars
    PROVE  TypeOK'
<1>a. /\ stamps \in [Files -> Stamps] /\ lastStamp \in Stamps /\ seen \in [Files -> Stamps]
      /\ WatchedType /\ native \in NativeTypes
      /\ watchPolicy \in [native : BOOLEAN, polling : BOOLEAN]
      /\ worker \in WorkerTypes /\ PollType /\ reports \in ReportTypes
      /\ history \in HistoryTypes
  BY TypeParts
<1>1. ASSUME NEW f \in Files, Write(f) PROVE TypeOK'
  <2>1. stamps' \in [Files -> Stamps] /\ lastStamp' \in Stamps
    BY <1>1, <1>a DEF Write, Stamps
  <2>2. reports' \in ReportTypes /\ history' \in HistoryTypes
    BY <1>1, <1>a DEF Write, Changed, ReportTypes, HistoryTypes
  <2>3. UNCHANGED <<watched, native, watchPolicy, worker, poll, seen>>
    BY <1>1, <1>a DEF Write, Changed, watcher
  <2> QED
    BY <2>1, <2>2, <2>3, TypeParts DEF TypeOK, ReportTypes, HistoryTypes, Watched
<1>2. ASSUME NEW f \in Files, Vanish(f) PROVE TypeOK'
  BY <1>2, <1>a DEF Vanish, Changed, TypeOK, disk, watcher, Watched, Stamps, Missing
<1>3. ASSUME NEW f \in Files, AddFile(f) PROVE TypeOK'
  <2>1. PICK directories \in SUBSET Directories : ApplyWatchPolicy(watchPolicy, Watched \cup {f}, directories)
    BY <1>3, <1>a, FileWatchAssumption DEF AddFile, TryWatchDirectory, NativeTypes
  <2>2. worker' \in WorkerTypes /\ native' \in NativeTypes
    BY <1>a, <2>1, ApplyTypes DEF WatchedType
  <2>3. WatchedType'
    BY <1>3, <1>a DEF AddFile, WatchedType, Watched, Stamps
  <2>4. reports' \in ReportTypes /\ history' \in HistoryTypes
    BY <1>3, <1>a DEF AddFile, ReportTypes, HistoryTypes
  <2>5. UNCHANGED <<stamps, lastStamp, watchPolicy, poll, seen>>
    BY <1>3, <1>a DEF AddFile, disk
  <2> QED
    BY <2>2, <2>3, <2>4, <2>5, TypeParts DEF TypeOK, WatchedType, WorkerTypes, NativeTypes, ReportTypes, HistoryTypes
<1>4. ASSUME NEW f \in Files, AddFileAgain(f) PROVE TypeOK'
  <2>1. PICK directories \in SUBSET Directories : ApplyWatchPolicy(watchPolicy, Watched, directories)
    BY <1>4, <1>a, FileWatchAssumption DEF AddFileAgain, TryWatchDirectory, NativeTypes
  <2>2. worker' \in WorkerTypes /\ native' \in NativeTypes
    BY <1>a, <2>1, ApplyTypes DEF WatchedType
  <2>3. UNCHANGED <<stamps, lastStamp, watched, watchPolicy, poll, reports, seen, history>>
    BY <1>4, <1>a DEF AddFileAgain, disk
  <2> QED
    BY <2>2, <2>3 DEF TypeOK, Watched, WorkerTypes, NativeTypes
<1>5. ASSUME NEW f \in Files, RemoveFile(f) PROVE TypeOK'
  <2>1. worker' \in WorkerTypes /\ native' \in NativeTypes
    <3>1. native.directories \cap DirectoriesOf(Watched \ {f}) \in SUBSET Directories
      BY <1>a DEF NativeTypes
    <3>2. Watched \ {f} \in SUBSET Files
      BY <1>a DEF WatchedType
    <3> QED
      BY <1>5, <1>a, <3>1, <3>2, ApplyTypes DEF RemoveFile
  <2>2. WatchedType'
    BY <1>5, <1>a DEF RemoveFile, WatchedType, Watched, Stamps
  <2>3. reports' \in ReportTypes
    BY <1>5, <1>a DEF RemoveFile, ReportTypes
  <2>4. UNCHANGED <<stamps, lastStamp, watchPolicy, poll, seen, history>>
    BY <1>5, <1>a DEF RemoveFile, disk
  <2> QED
    BY <2>1, <2>2, <2>3, <2>4 DEF TypeOK, WatchedType, WorkerTypes, NativeTypes, ReportTypes
<1>6. ASSUME NEW f \in Files, NotifyOnFileAction(f) PROVE TypeOK'
  BY <1>6, <1>a DEF NotifyOnFileAction, TypeOK, disk, watcher, Watched, Stamps, Missing
<1>7. ASSUME NEW f \in Files, FileChangedOnDisk(f) PROVE TypeOK'
  BY <1>7, <1>a DEF FileChangedOnDisk, TypeOK, disk, watcher, Watched, Stamps, Missing
<1>8. ASSUME NEW f \in Files, HandleChangeOnDisk(f) PROVE TypeOK'
  BY <1>8, <1>a DEF HandleChangeOnDisk, TypeOK, disk, watcher, Watched, Stamps, Missing
<1>9. ASSUME NEW f \in Files, LookAt(f) PROVE TypeOK'
  BY <1>9, <1>a DEF LookAt, TypeOK, disk, watcher, Watched, Stamps, Missing
<1>10. CASE SetWatchPolicy
  <2>1. PICK policy \in Policies :
            watchPolicy' = policy /\ ApplyWatchPolicy(policy, Watched, native.directories)
    BY <1>10, <1>a DEF SetWatchPolicy
  <2>2. worker' \in WorkerTypes /\ native' \in NativeTypes
    BY <1>a, <2>1, FileWatchAssumption, ApplyTypes DEF WatchedType, NativeTypes
  <2>3. history' \in HistoryTypes /\ watchPolicy' \in [native : BOOLEAN, polling : BOOLEAN]
    BY <1>10, <1>a, <2>1, FileWatchAssumption DEF SetWatchPolicy, HistoryTypes
  <2>4. UNCHANGED <<stamps, lastStamp, watched, poll, reports, seen>>
    BY <1>10, <1>a DEF SetWatchPolicy, disk
  <2> QED
    BY <2>2, <2>3, <2>4 DEF TypeOK, Watched, WorkerTypes, NativeTypes, HistoryTypes
<1>11. CASE StopPolling
  <2>1. worker' \in WorkerTypes
    BY <1>11, <1>a, EmptySeq DEF StopPolling, WorkerTypes
  <2> QED
    BY <1>11, <1>a, <2>1 DEF StopPolling, TypeOK, disk, watcher, Watched, WorkerTypes
<1>12. CASE SendChangesNotifications
  BY <1>12, <1>a DEF SendChangesNotifications, TypeOK, disk, watcher, Watched, Stamps, Missing
<1>13. CASE SetPolling
  <2>1. Tail(worker.posted) \in Seq(BOOLEAN) /\ Head(worker.posted) \in BOOLEAN
    BY <1>13, <1>a, HeadTailProperties DEF SetPolling, WorkerTypes
  <2>2. worker' \in WorkerTypes
    <3>1. ASSUME NEW rest \in Seq(BOOLEAN), NEW on \in BOOLEAN,
                 worker' = [worker EXCEPT !.posted = rest, !.polling = on,
                                          !.left = IF on THEN Interval ELSE 0]
          PROVE  worker' \in WorkerTypes
      <4>1. (IF on THEN Interval ELSE 0) \in 0..Interval
        BY FileWatchAssumption
      <4> DEFINE left == IF on THEN Interval ELSE 0
      <4>2. left \in 0..Interval
        BY <4>1
      <4>3. worker' = [worker EXCEPT !.posted = rest, !.polling = on, !.left = left]
        BY <3>1
      <4> HIDE DEF left
      <4> QED
        BY ONLY <1>a, <4>2, <4>3, rest \in Seq(BOOLEAN), on \in BOOLEAN DEF WorkerTypes
    <3> QED
      BY <1>13, <2>1, <3>1 DEF SetPolling
  <2> QED
    BY <1>13, <1>a, <2>2 DEF SetPolling, TypeOK, disk, watcher, Watched, WorkerTypes
<1>14. CASE Tick
  <2>1. worker' \in WorkerTypes
    BY <1>14, <1>a, FileWatchAssumption DEF Tick, WorkerTypes
  <2> QED
    BY <1>14, <1>a, <2>1 DEF Tick, TypeOK, disk, watcher, Watched, WorkerTypes
<1>15. CASE Poll
  <2>1. worker' \in WorkerTypes
    BY <1>15, <1>a, FileWatchAssumption DEF Poll, WorkerTypes
  <2>2. PollType'
    BY <1>15, <1>a DEF Poll, PollType, WatchedType, IdlePoll, NoFiles, Watched
  <2> QED
    BY <1>15, <1>a, <2>1, <2>2 DEF Poll, TypeOK, PollType, disk, watcher, Watched, WorkerTypes
<1>16. CASE WriteBack
  BY <1>16, <1>a DEF WriteBack, IdlePoll, NoFiles, WrittenBack, TypeOK, disk, watcher, Watched, Stamps, Missing
<1>17. CASE Tell
  BY <1>17, <1>a DEF Tell, IdlePoll, NoFiles, TypeOK, disk, watcher, Watched, Stamps, Missing
<1>18. CASE UNCHANGED vars
  BY <1>18, <1>a DEF vars, TypeOK, disk, watcher, Watched, Stamps, Missing
<1> QED
  BY <1>1, <1>a, <1>2, <1>3, <1>4, <1>5, <1>6, <1>7, <1>8, <1>9, <1>10, <1>11, <1>12, <1>13, <1>14, <1>15, <1>16, <1>17, <1>18 DEF Next

\* A new stamp is newer than every one kept or copied.
LEMMA StampStep ==
    ASSUME TypeOK, StampInv, [Next]_vars
    PROVE  StampInv'
<1> USE FileWatchAssumption DEF TypeOK, StampInv, disk, watcher, Watched, Stamps, Missing
<1>1. ASSUME NEW f \in Files, Write(f) PROVE StampInv'
  BY <1>1 DEF Write, Changed
<1>2. ASSUME NEW f \in Files, Vanish(f) PROVE StampInv'
  BY <1>2 DEF Vanish, Changed
<1>3. ASSUME NEW f \in Files, AddFile(f) PROVE StampInv'
  BY <1>3 DEF AddFile
<1>4. ASSUME NEW f \in Files, AddFileAgain(f) PROVE StampInv'
  BY <1>4 DEF AddFileAgain
<1>5. ASSUME NEW f \in Files, RemoveFile(f) PROVE StampInv'
  BY <1>5 DEF RemoveFile
<1>6. ASSUME NEW f \in Files, NotifyOnFileAction(f) PROVE StampInv'
  BY <1>6 DEF NotifyOnFileAction
<1>7. ASSUME NEW f \in Files, FileChangedOnDisk(f) PROVE StampInv'
  BY <1>7 DEF FileChangedOnDisk
<1>8. ASSUME NEW f \in Files, HandleChangeOnDisk(f) PROVE StampInv'
  BY <1>8 DEF HandleChangeOnDisk
<1>9. ASSUME NEW f \in Files, LookAt(f) PROVE StampInv'
  BY <1>9 DEF LookAt
<1>10. CASE SetWatchPolicy
  BY <1>10 DEF SetWatchPolicy
<1>11. CASE StopPolling
  BY <1>11 DEF StopPolling
<1>12. CASE SendChangesNotifications
  BY <1>12 DEF SendChangesNotifications
<1>13. CASE SetPolling
  BY <1>13 DEF SetPolling
<1>14. CASE Tick
  BY <1>14 DEF Tick
<1>15. CASE Poll
  BY <1>15 DEF Poll, IdlePoll, NoFiles
<1>16. CASE WriteBack
  BY <1>16 DEF WriteBack, IdlePoll, NoFiles, WrittenBack
<1>17. CASE Tell
  BY <1>17 DEF Tell, IdlePoll, NoFiles
<1>18. CASE UNCHANGED vars
  BY <1>18 DEF vars
<1> QED
  BY <1>1, <1>2, <1>3, <1>4, <1>5, <1>6, <1>7, <1>8, <1>9, <1>10, <1>11, <1>12, <1>13, <1>14, <1>15, <1>16, <1>17, <1>18 DEF Next

\* A file on disk as it was copied stays kept as it was copied.
LEMMA CopyStep ==
    ASSUME TypeOK, StampInv, CopyInv, [Next]_vars
    PROVE  CopyInv'
<1> USE FileWatchAssumption DEF TypeOK, StampInv, CopyInv, disk, watcher, Watched, Stamps, Missing
<1>1. ASSUME NEW f \in Files, Write(f) PROVE CopyInv'
  BY <1>1 DEF Write, Changed
<1>2. ASSUME NEW f \in Files, Vanish(f) PROVE CopyInv'
  BY <1>2 DEF Vanish, Changed
<1>3. ASSUME NEW f \in Files, AddFile(f) PROVE CopyInv'
  BY <1>3 DEF AddFile
<1>4. ASSUME NEW f \in Files, AddFileAgain(f) PROVE CopyInv'
  BY <1>4 DEF AddFileAgain
<1>5. ASSUME NEW f \in Files, RemoveFile(f) PROVE CopyInv'
  BY <1>5 DEF RemoveFile
<1>6. ASSUME NEW f \in Files, NotifyOnFileAction(f) PROVE CopyInv'
  BY <1>6 DEF NotifyOnFileAction
<1>7. ASSUME NEW f \in Files, FileChangedOnDisk(f) PROVE CopyInv'
  BY <1>7 DEF FileChangedOnDisk
<1>8. ASSUME NEW f \in Files, HandleChangeOnDisk(f) PROVE CopyInv'
  BY <1>8 DEF HandleChangeOnDisk
<1>9. ASSUME NEW f \in Files, LookAt(f) PROVE CopyInv'
  BY <1>9 DEF LookAt
<1>10. CASE SetWatchPolicy
  BY <1>10 DEF SetWatchPolicy
<1>11. CASE StopPolling
  BY <1>11 DEF StopPolling
<1>12. CASE SendChangesNotifications
  BY <1>12 DEF SendChangesNotifications
<1>13. CASE SetPolling
  BY <1>13 DEF SetPolling
<1>14. CASE Tick
  BY <1>14 DEF Tick
<1>15. CASE Poll
  BY <1>15 DEF Poll, IdlePoll, NoFiles
<1>16. CASE WriteBack
  BY <1>16 DEF WriteBack, IdlePoll, NoFiles, WrittenBack
<1>17. CASE Tell
  BY <1>17 DEF Tell, IdlePoll, NoFiles
<1>18. CASE UNCHANGED vars
  BY <1>18 DEF vars
<1> QED
  BY <1>1, <1>2, <1>3, <1>4, <1>5, <1>6, <1>7, <1>8, <1>9, <1>10, <1>11, <1>12, <1>13, <1>14, <1>15, <1>16, <1>17, <1>18 DEF Next

\* A poll has changes to tell only once it has written back.
LEMMA TellStep ==
    ASSUME TypeOK, TellInv, [Next]_vars
    PROVE  TellInv'
<1> USE FileWatchAssumption DEF TypeOK, TellInv, disk, watcher, IdlePoll
<1>1. ASSUME NEW f \in Files, Write(f) PROVE TellInv'
  BY <1>1 DEF Write, Changed
<1>2. ASSUME NEW f \in Files, Vanish(f) PROVE TellInv'
  BY <1>2 DEF Vanish, Changed
<1>3. ASSUME NEW f \in Files, AddFile(f) PROVE TellInv'
  BY <1>3 DEF AddFile
<1>4. ASSUME NEW f \in Files, AddFileAgain(f) PROVE TellInv'
  BY <1>4 DEF AddFileAgain
<1>5. ASSUME NEW f \in Files, RemoveFile(f) PROVE TellInv'
  BY <1>5 DEF RemoveFile
<1>6. ASSUME NEW f \in Files, NotifyOnFileAction(f) PROVE TellInv'
  BY <1>6 DEF NotifyOnFileAction
<1>7. ASSUME NEW f \in Files, FileChangedOnDisk(f) PROVE TellInv'
  BY <1>7 DEF FileChangedOnDisk
<1>8. ASSUME NEW f \in Files, HandleChangeOnDisk(f) PROVE TellInv'
  BY <1>8 DEF HandleChangeOnDisk
<1>9. ASSUME NEW f \in Files, LookAt(f) PROVE TellInv'
  BY <1>9 DEF LookAt
<1>10. CASE SetWatchPolicy
  BY <1>10 DEF SetWatchPolicy
<1>11. CASE StopPolling
  BY <1>11 DEF StopPolling
<1>12. CASE SendChangesNotifications
  BY <1>12 DEF SendChangesNotifications
<1>13. CASE SetPolling
  BY <1>13 DEF SetPolling
<1>14. CASE Tick
  BY <1>14 DEF Tick
<1>15. CASE Poll
  BY <1>15 DEF Poll, IdlePoll, NoFiles
<1>16. CASE WriteBack
  BY <1>16 DEF WriteBack, IdlePoll, NoFiles, WrittenBack
<1>17. CASE Tell
  BY <1>17 DEF Tell, IdlePoll, NoFiles
<1>18. CASE UNCHANGED vars
  BY <1>18 DEF vars
<1> QED
  BY <1>1, <1>2, <1>3, <1>4, <1>5, <1>6, <1>7, <1>8, <1>9, <1>10, <1>11, <1>12, <1>13, <1>14, <1>15, <1>16, <1>17, <1>18 DEF Next

\* No step loses a change.
LEMMA ForgottenStep ==
    ASSUME IInv, [Next]_vars
    PROVE  NoChangeForgotten'
<1> USE FileWatchAssumption DEF IInv, TypeOK, NoChangeForgotten, Unseen, OnItsWay, disk, watcher, Watched, Stamps, Missing
<1>1. ASSUME NEW f \in Files, Write(f) PROVE NoChangeForgotten'
  <2> SUFFICES ASSUME NEW file \in Files, Unseen(file)'
               PROVE  \/ OnItsWay(file)'
                      \/ file \in history'.unheard /\ watched'[file] # stamps'[file]
    BY DEF NoChangeForgotten
  <2>1. CASE file = f
    <3>1. file \in Watched /\ watched[file] # stamps'[file]
      <4>1. file \in Watched /\ watched[file] <= lastStamp /\ watched[file] \in Nat
        BY <1>1 DEF Write, Changed, StampInv
      <4>2. stamps'[file] = lastStamp + 1 /\ lastStamp \in Nat
        BY <1>1, <2>1 DEF Write
      <4> QED
        BY ONLY <4>1, <4>2
    <3>2. file \in reports'.events \/ file \in history'.unheard
      BY <1>1, <2>1 DEF Write, Changed
    <3> QED
      BY <1>1, <3>1, <3>2 DEF Write, Changed
  <2>2. CASE file # f
    <3>1. stamps'[file] = stamps[file] /\ Unseen(file)
      BY <1>1, <2>2 DEF Write, Changed
    <3>2. OnItsWay(file) \/ (file \in history.unheard /\ watched[file] # stamps[file])
      BY <3>1
    <3>3. /\ watched' = watched /\ poll' = poll
          /\ file \in history.unheard <=> file \in history'.unheard
          /\ reports'.events \in {reports.events, reports.events \cup {f}}
          /\ reports' = [reports EXCEPT !.events = reports'.events]
      BY <1>1, <2>2 DEF Write, Changed
    <3>4. OnItsWay(file) => OnItsWay(file)'
      BY <3>3
    <3> QED
      BY <3>1, <3>2, <3>3, <3>4
  <2> QED
    BY <2>1, <2>2
<1>2. ASSUME NEW f \in Files, Vanish(f) PROVE NoChangeForgotten'
  BY <1>2 DEF Vanish, Changed
<1>3. ASSUME NEW f \in Files, AddFile(f) PROVE NoChangeForgotten'
  BY <1>3 DEF AddFile
<1>4. ASSUME NEW f \in Files, AddFileAgain(f) PROVE NoChangeForgotten'
  BY <1>4 DEF AddFileAgain
<1>5. ASSUME NEW f \in Files, RemoveFile(f) PROVE NoChangeForgotten'
  BY <1>5 DEF RemoveFile
<1>6. ASSUME NEW f \in Files, NotifyOnFileAction(f) PROVE NoChangeForgotten'
  BY <1>6 DEF NotifyOnFileAction
<1>7. ASSUME NEW f \in Files, FileChangedOnDisk(f) PROVE NoChangeForgotten'
  BY <1>7 DEF FileChangedOnDisk
<1>8. ASSUME NEW f \in Files, HandleChangeOnDisk(f) PROVE NoChangeForgotten'
  BY <1>8 DEF HandleChangeOnDisk
<1>9. ASSUME NEW f \in Files, LookAt(f) PROVE NoChangeForgotten'
  BY <1>9 DEF LookAt
<1>10. CASE SetWatchPolicy
  BY <1>10 DEF SetWatchPolicy
<1>11. CASE StopPolling
  BY <1>11 DEF StopPolling
<1>12. CASE SendChangesNotifications
  BY <1>12 DEF SendChangesNotifications
<1>13. CASE SetPolling
  BY <1>13 DEF SetPolling
<1>14. CASE Tick
  BY <1>14 DEF Tick
<1>15. CASE Poll
  <2>1. poll.changed = {} /\ poll'.changed = {}
    BY <1>15 DEF Poll, IdlePoll, TellInv
  <2>2. UNCHANGED <<stamps, seen, watched, reports, history>>
    BY <1>15 DEF Poll
  <2> QED
    BY <2>1, <2>2
<1>16. CASE WriteBack
  <2> SUFFICES ASSUME NEW file \in Files, Unseen(file)'
               PROVE  \/ OnItsWay(file)'
                      \/ file \in history'.unheard /\ watched'[file] # stamps'[file]
    BY DEF NoChangeForgotten
  <2>1. /\ UNCHANGED <<stamps, seen, reports, history>> /\ poll.changed = {}
        /\ Watched' = Watched
    BY <1>16 DEF WriteBack, TellInv
  <2>2. file \in Watched /\ Unseen(file)
    BY <2>1
  <2>3. OnItsWay(file) => OnItsWay(file)'
    BY <2>1
  <2>4. CASE file \in history.unheard /\ watched[file] # stamps[file]
    <3>1. CASE file \in WrittenBack /\ poll.results[file] = stamps[file]
      <4>1. poll.snapshot[file] # stamps[file]
        BY <1>16, <2>2, <2>4, <3>1 DEF CopyInv, WriteBack, WrittenBack
      <4>2. file \in poll'.changed
        BY <1>16, <3>1, <4>1 DEF WriteBack, IdlePoll
      <4> QED
        BY <4>2
    <3>2. CASE ~(file \in WrittenBack /\ poll.results[file] = stamps[file])
      <4>1. watched'[file] = IF file \in WrittenBack THEN poll.results[file] ELSE watched[file]
        BY <1>16, <2>2 DEF WriteBack
      <4> QED
        BY <2>1, <2>4, <3>2, <4>1
    <3> QED
      BY <3>1, <3>2
  <2> QED
    BY <2>2, <2>3, <2>4
<1>17. CASE Tell
  BY <1>17 DEF Tell, IdlePoll, NoFiles
<1>18. CASE UNCHANGED vars
  BY <1>18 DEF vars
<1> QED
  BY <1>1, <1>2, <1>3, <1>4, <1>5, <1>6, <1>7, <1>8, <1>9, <1>10, <1>11, <1>12, <1>13, <1>14, <1>15, <1>16, <1>17, <1>18 DEF Next

\* The types hold throughout.
THEOREM TypeCorrect == Spec => []TypeOK
<1>1. Init => TypeOK
  BY InitInv DEF IInv
<1>2. TypeOK /\ [Next]_vars => TypeOK'
  BY TypeStep
<1> QED
  BY <1>1, <1>2, PTL DEF Spec

\* The inductive invariant holds throughout.
THEOREM Invariance == Spec => []IInv
<1>1. IInv /\ [Next]_vars => IInv'
  BY TypeStep, StampStep, CopyStep, TellStep, ForgottenStep DEF IInv
<1> QED
  BY InitInv, <1>1, PTL DEF Spec

\* No change of a watched file is ever lost between the main thread and the
\* poll thread.
THEOREM NothingForgotten == Spec => []NoChangeForgotten
<1>1. IInv => NoChangeForgotten
  BY DEF IInv
<1> QED
  BY Invariance, <1>1, PTL

=============================================================================
