------------------------------ MODULE LoadRule ------------------------------
(***************************************************************************)
(* The Load Rule and the auto-refresh of a Search                          *)
(* (src/openlogfile/src/loadrule.cpp and searchautorefresh.cpp): what a    *)
(* load that ended, a change on disk and a reload mean for the Search, the *)
(* Search Limits, the saved Marks, Format Recognition and the end of       *)
(* watching.  Neither has a thread: each call is an operator from the      *)
(* members to the members after it.                                        *)
(***************************************************************************)
EXTENDS Integers

CONSTANTS
    SampleDepth,                \* FormatRecognition::SampleDepth
    MaxChecksBeforeStopping     \* MaxChecksBeforeStopping

ASSUME LoadRuleAssumption == SampleDepth \in Nat /\ MaxChecksBeforeStopping \in Nat

-----------------------------------------------------------------------------
(* SearchAutoRefresh: [state, requested].                                  *)

RefreshStates == {"NoSearch", "Static", "Autorefreshing", "FileTruncated", "TruncatedAutorefreshing"}
AutoRefresh == [state : RefreshStates, requested : BOOLEAN]

ResetState(a) == [a EXCEPT !.state = "NoSearch"]
StartSearch(a) == [a EXCEPT !.state = IF a.requested THEN "Autorefreshing" ELSE "Static"]
\* changeExpression() and stopSearch()
Suspend(a) == [a EXCEPT !.state = IF @ = "Autorefreshing" THEN "Static" ELSE @]
TruncateFile_Forgets(a) == a
TruncateFile(a) ==
    [a EXCEPT !.state = IF @ \in {"Autorefreshing", "TruncatedAutorefreshing"}
                        THEN "TruncatedAutorefreshing" ELSE "FileTruncated"]
SetAutoRefresh(a, wanted) ==
    [requested |-> wanted,
     state |-> CASE wanted /\ a.state = "Static" -> "Autorefreshing"
                 [] ~wanted /\ a.state = "Autorefreshing" -> "Static"
                 [] ~wanted /\ a.state = "TruncatedAutorefreshing" -> "FileTruncated"
                 [] OTHER -> a.state]
IsAutoRefreshAllowed(a) == a.state \in {"Autorefreshing", "TruncatedAutorefreshing"}
IsFileTruncated(a) == a.state \in {"FileTruncated", "TruncatedAutorefreshing"}

-----------------------------------------------------------------------------
(* The members of a LoadRule.                                              *)

Rules(lines) ==
    [searchRequested : BOOLEAN, searchWaits : BOOLEAN, loadFinishedOnce : BOOLEAN,
     firstLoadDone : BOOLEAN, grew : BOOLEAN, truncated : BOOLEAN, savedMarks : BOOLEAN,
     formatPending : BOOLEAN, recognizedFrom : lines, loadedLines : lines,
     watching : {"On", "Stopping", "Stopped"}, checks : Nat]

NewRule ==
    [searchRequested |-> FALSE, searchWaits |-> FALSE, loadFinishedOnce |-> FALSE,
     firstLoadDone |-> FALSE, grew |-> FALSE, truncated |-> FALSE, savedMarks |-> FALSE,
     formatPending |-> TRUE, recognizedFrom |-> 0, loadedLines |-> 0,
     watching |-> "On", checks |-> 0]

RestoreMarks(r) == [r EXCEPT !.savedMarks = TRUE]

\* reload()
ReloadAsked_DropsMarks(r) ==
    [r EXCEPT !.searchRequested = FALSE, !.searchWaits = FALSE, !.formatPending = TRUE,
              !.recognizedFrom = 0, !.firstLoadDone = FALSE, !.truncated = TRUE, !.savedMarks = FALSE]
ReloadAsked(r) ==
    [r EXCEPT !.searchRequested = FALSE, !.searchWaits = FALSE,
              !.formatPending = TRUE, !.recognizedFrom = 0,
              !.firstLoadDone = FALSE, !.truncated = TRUE]

\* changedOnDisk(), one operator per change.
GrewOnDisk(r) == [r EXCEPT !.grew = TRUE]
TruncatedOnDisk_StillAppended(r) == [r EXCEPT !.formatPending = TRUE, !.recognizedFrom = 0]
TruncatedOnDisk(r) == [r EXCEPT !.truncated = TRUE, !.formatPending = TRUE, !.recognizedFrom = 0]

SearchRequested(r) == [r EXCEPT !.searchRequested = TRUE, !.searchWaits = @ \/ ~r.loadFinishedOnce]
SearchCleared(r) == [r EXCEPT !.searchRequested = FALSE, !.searchWaits = FALSE]
WaitingSearchDropped(r) == [r EXCEPT !.searchWaits = FALSE]

\* settleSearchLimits()
SettleSearchLimits_Fixed(r, limits, lineCount) ==
    IF limits.start >= lineCount THEN [start |-> 0, end |-> lineCount]
    ELSE [limits EXCEPT !.end = IF @ < lineCount THEN @ ELSE lineCount]
SettleSearchLimits(r, limits, lineCount) ==
    LET wereWholeFile == limits.start = 0 /\ limits.end >= r.loadedLines
    IN  IF wereWholeFile \/ limits.start >= lineCount THEN [start |-> 0, end |-> lineCount]
        ELSE [limits EXCEPT !.end = IF @ < lineCount THEN @ ELSE lineCount]

\* checkBeforeWatchingStops(), stopWatching() and foundUnchanged(): the
\* members after, and the step to take.
CheckBeforeWatchingStops(r) ==
    LET more == r.checks < MaxChecksBeforeStopping
    IN  [rule |-> [r EXCEPT !.checks = @ + 1, !.watching = IF more THEN @ ELSE "Stopped"],
         step |-> IF more THEN "CheckAgain" ELSE "StoppedStillChanging"]
StopWatchingAsked(r, attached) ==
    IF r.watching # "On" THEN [rule |-> r, step |-> "None"]
    ELSE IF attached THEN CheckBeforeWatchingStops([r EXCEPT !.watching = "Stopping"])
    ELSE [rule |-> [r EXCEPT !.watching = "Stopping"], step |-> "None"]
FoundUnchanged(r) ==
    IF r.watching # "Stopping" THEN [rule |-> r, step |-> "None"]
    ELSE [rule |-> [r EXCEPT !.watching = "Stopped"], step |-> "Stopped"]

\* loadFinished(): the step watching takes, after the rest of it.
WatchingAfterLoad_OneLoad(r, status) ==
    IF r.watching # "Stopping" THEN [rule |-> r, step |-> "None"]
    ELSE [rule |-> [r EXCEPT !.watching = "Stopped"], step |-> "Stopped"]
WatchingAfterLoad_Waits(r, status) ==
    IF r.watching # "Stopping" \/ status # "Successful" THEN [rule |-> r, step |-> "None"]
    ELSE CheckBeforeWatchingStops(r)
WatchingAfterLoad(r, status) ==
    IF r.watching # "Stopping" THEN [rule |-> r, step |-> "None"]
    ELSE IF status = "Successful" THEN CheckBeforeWatchingStops(r)
    ELSE [rule |-> [r EXCEPT !.watching = "Stopped"], step |-> "Stopped"]

\* loadFinished(): the LoadDecision, with the members after it.
LoadFinished(r, status, lineCount, refresh, limits, searched) ==
    LET settled == SettleSearchLimits(r, limits, lineCount)
        follows == IsAutoRefreshAllowed(refresh)
        runs == r.searchWaits /\ status = "Successful"
        watched == WatchingAfterLoad(
            [r EXCEPT !.grew = FALSE, !.truncated = FALSE, !.loadedLines = lineCount,
                      !.firstLoadDone = TRUE, !.savedMarks = @ /\ r.firstLoadDone,
                      !.loadFinishedOnce = TRUE, !.searchWaits = FALSE,
                      !.searchRequested = @ /\ (r.searchWaits => runs)], status)
    IN  [rule |-> watched.rule,
         watching |-> watched.step,
         fromStart |-> ~r.firstLoadDone,
         onlyAppended |-> r.firstLoadDone /\ r.grew /\ ~r.truncated,
         limits |-> settled,
         restarts |-> follows /\ IsFileTruncated(refresh),
         continues |-> follows /\ ~IsFileTruncated(refresh) /\ searched # settled,
         appliesMarks |-> r.savedMarks /\ ~r.firstLoadDone,
         runsWaitingSearch |-> runs,
         recognizesFormat |-> r.formatPending /\ lineCount > r.recognizedFrom]

\* formatRecognitionTaken()
FormatRecognitionTaken_Once(r, recognized, lineCount) ==
    [r EXCEPT !.recognizedFrom = lineCount, !.formatPending = FALSE]
FormatRecognitionTaken(r, recognized, lineCount) ==
    [r EXCEPT !.recognizedFrom = lineCount,
              !.formatPending = @ /\ ~recognized /\ lineCount < SampleDepth]
=============================================================================
