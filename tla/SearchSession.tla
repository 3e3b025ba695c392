--------------------------- MODULE SearchSession ---------------------------
(***************************************************************************)
(* A Search Session (src/logdata/src/searchsession.cpp) with the run in    *)
(* flight and the Log Lines it searches.  The owner thread requests, stops *)
(* and is told that Log Lines changed; the run goes on meanwhile, and its  *)
(* reports arrive when the owner's event loop delivers them; the Log Lines *)
(* change under both, and the Session is told only later.                  *)
(*                                                                         *)
(* A run that ends because the Session is destroyed is left to             *)
(* BackgroundRun.                                                          *)
(***************************************************************************)
EXTENDS SearchOperation

CONSTANTS
    Ranges,             \* the ranges [start, end) that are requested
    InvalidPattern,     \* a pattern that does not compile
    MaxCacheLines,      \* resultsCacheLines of the Search Policy
    MaxRuns,            \* bound: runs started
    MaxChanges,         \* bound: times the Log Lines change
    OnlyGrows,          \* whether Log Lines are only ever appended
    CachePolicies,      \* what useResultsCache of the Search Policy can be
    ContinueUnsettled   \* whether a Search is continued that is not Settled: what the promises
                        \* below need of the order of calls, and the code does not ensure

\* Search Limits start and end within the Log File, in either order.
ASSUME SearchAssumption ==
    /\ MaxLines \in Nat /\ MaxRuns \in Nat /\ MaxBlocks \in Nat \ {0} /\ MaxCacheLines \in Nat
    /\ BlockLines \in Nat \ {0}
    /\ Ranges \subseteq (0..MaxLines) \X (0..MaxLines)
    /\ InvalidPattern \notin Patterns
    /\ CachePolicies \subseteq BOOLEAN

VARIABLES
    owner,          \* "free", or "starting": inside start() of the Background Run
    waiting,        \* the job the owner is starting
    lastRun,        \* runs started
    searchId,       \* currentSearchId_
    state,          \* state_
    results,        \* the Matches and what is still to be told of them
    changedUnder,   \* logLinesChangedUnderRun_
    cache,          \* searchResultsCache_
    cacheKey,       \* currentSearchKey_
    useCache,       \* useResultsCache of the Search Policy
    untold,         \* the first Log Line that changed and was not told yet
    changes,        \* times the Log Lines changed
    followed,       \* history: the Matches as the deltas told them
    faithful,       \* history: every delta was one
    current         \* history: no Log Line changed, or waited to be told, since the request

ownerVars == <<owner, waiting, lastRun, searchId>>
sessionVars == <<state, results, changedUnder, cache, cacheKey, useCache>>
fileVars == <<lines, untold, changes>>
historyVars == <<followed, faithful, current>>
vars == <<ownerVars, sessionVars, fileVars, historyVars, opVars, activeRun, reports>>

NoKey == [pattern |-> InvalidPattern, start |-> 0, end |-> 0]
NoLine == -1
Key(pattern, range) == [pattern |-> pattern, start |-> range[1], end |-> range[2]]
Keys == {NoKey} \cup {Key(p, r) : p \in Patterns, r \in Ranges}
NoResults == [k \in {} |-> {}]
AllTold == MaxLines

Phases == {"Idle", "InvalidPattern", "Running", "Complete", "Interrupted", "Failed"}
Lines == 0..(MaxLines - 1)

TypeOK ==
    /\ owner \in {"free", "starting"}
    /\ lastRun \in 0..MaxRuns /\ searchId \in 0..MaxRuns /\ activeRun \in 0..MaxRuns
    /\ state \in [phase : Phases, pattern : Patterns \cup {InvalidPattern},
                  start : 0..MaxLines, end : 0..MaxLines, fromCache : BOOLEAN, count : Int]
    /\ results \in [matches : SUBSET Lines, arrived : SUBSET Lines, stale : SUBSET Lines,
                    new : SUBSET Lines, removed : SUBSET Lines, rechecked : Lines \cup {NoLine},
                    replaced : BOOLEAN, pending : BOOLEAN, processed : 0..MaxLines]
    /\ changedUnder \in BOOLEAN /\ useCache \in BOOLEAN
    /\ cacheKey \in Keys /\ DOMAIN cache \subseteq Keys \ {NoKey}
    /\ \A key \in DOMAIN cache : cache[key] \subseteq Lines
    /\ lines \in Seq(Readings) /\ Len(lines) <= MaxLines
    /\ untold \in 0..AllTold
    /\ data.until \in 0..MaxLines /\ data.found \subseteq Lines
    /\ \A first \in DOMAIN data.ahead : first \in Lines /\ data.ahead[first] \in 1..MaxLines
    /\ limiter.count \in 0..MaxBlocks /\ limiter.count = InFlight
    /\ followed \subseteq Lines

-----------------------------------------------------------------------------
(* The Matches, and what follows them.                                     *)

Idle == [phase |-> "Idle", pattern |-> InvalidPattern, start |-> 0, end |-> 0,
         fromCache |-> FALSE, count |-> 0]

\* resetResults(): the Matches are replaced, by none.
Reset(r) == [r EXCEPT !.matches = {}, !.arrived = {}, !.stale = {}, !.new = {}, !.removed = {},
                      !.rechecked = NoLine, !.replaced = TRUE, !.processed = 0]

\* publishArrivedMatches()
Publish_ForgetsStale(r) ==
    [r EXCEPT !.matches = (@ \ r.stale) \cup r.arrived, !.stale = {}, !.arrived = {},
              !.new = IF r.replaced THEN @ ELSE @ \cup r.arrived]
Publish(r) ==
    [r EXCEPT !.matches = (@ \ r.stale) \cup r.arrived, !.stale = {}, !.arrived = {},
              !.removed = IF r.replaced THEN @ ELSE @ \cup r.stale,
              !.new = IF r.replaced THEN @ ELSE @ \cup r.arrived]

\* What a follower of the deltas holds once it was handed the one of r.
Followed(r) == IF r.replaced THEN r.matches ELSE (followed \ r.removed) \cup r.new

\* A delta adds no Match it told before, and removes only those it told.
IsDelta(r) ==
    \/ r.replaced /\ r.removed = {}
    \/ ~r.replaced /\ r.new \cap followed = {} /\ r.removed \subseteq followed

\* notifyStateChanged(), with the results r: the Matches that arrived are
\* published, and told, and nothing is left to tell.
Notify_KeepsTold(r) ==
    LET told == Publish(r) IN
    /\ followed' = Followed(told)
    /\ faithful' = (faithful /\ IsDelta(told))
    /\ results' = [told EXCEPT !.removed = {}, !.replaced = FALSE, !.pending = FALSE]
Notify(r) ==
    LET told == Publish(r) IN
    /\ followed' = Followed(told)
    /\ faithful' = (faithful /\ IsDelta(told))
    /\ results' = [told EXCEPT !.new = {}, !.removed = {}, !.replaced = FALSE, !.pending = FALSE]

\* takeCurrentResults(), then collectStaleMatch(): the first batch that
\* reaches past the Log Line searched again tells whether it still matches.
Collect_Ignored(r) == r
Collect(r) ==
    IF r.rechecked = NoLine \/ data.until <= r.rechecked THEN r
    ELSE IF r.rechecked \in data.found THEN [r EXCEPT !.rechecked = NoLine]
    ELSE [r EXCEPT !.rechecked = NoLine,
                   !.stale = @ \cup ({r.rechecked} \cap r.matches),
                   !.arrived = @ \ {r.rechecked}]

\* applyIncomingResults(), and the count of the Matches that goes with it.
Apply(r) ==
    LET collected == Collect(r)
    IN [collected EXCEPT !.arrived = @ \cup (data.found \ r.matches), !.processed = data.until]

Count_Arrived(r) == Cardinality(r.matches) + Cardinality(r.arrived)
Count(r) == Cardinality(r.matches) + Cardinality(r.arrived) - Cardinality(r.stale)

Taken == data' = [data EXCEPT !.found = {}]

-----------------------------------------------------------------------------
(* Requests.                                                               *)

Init ==
    /\ owner = "free" /\ waiting = NoJob /\ lastRun = 0 /\ searchId = 0
    /\ state = Idle
    /\ results = [matches |-> {}, arrived |-> {}, stale |-> {}, new |-> {}, removed |-> {},
                  rechecked |-> NoLine, replaced |-> TRUE, pending |-> FALSE, processed |-> 0]
    /\ changedUnder = FALSE
    /\ cache = NoResults /\ cacheKey = NoKey
    /\ useCache \in CachePolicies
    /\ lines \in UNION {[1..n -> Readings] : n \in 0..MaxLines}
    /\ untold = AllTold /\ changes = 0
    /\ followed = {} /\ faithful = TRUE /\ current = TRUE
    /\ data = EmptyData /\ job = NoJob /\ blocks = {} /\ limiter = NoneCounted
    /\ passedOver = FALSE /\ picked = NoBlock
    /\ activeRun = 0 /\ reports = <<>>

\* The Session took everything the run held combined, holds no Match beyond a
\* gap, and a Log Line searched again is the last one searched; or a run that
\* has yet to clear the data does so first.
Settled ==
    \/ /\ picked = NoBlock /\ data.found = {} /\ data.until <= results.processed
       /\ \A line \in results.matches \cup results.arrived : line < results.processed
       /\ results.rechecked \in {NoLine, results.processed - 1}
    \/ /\ job.id # 0
       /\ job.pc = "begun" /\ job.full

\* What is requested lies within the Log Lines last told (the Search Limits
\* are settled on them whenever the Log File was loaded).
Requestable == {range \in Ranges : range[2] <= NbLines \/ untold # AllTold}

\* request(): whether it continues the run held.
Continues(pattern, range) ==
    /\ state.phase \in {"Running", "Complete", "Interrupted"}
    /\ ~state.fromCache /\ ~changedUnder
    /\ pattern = state.pattern /\ range[1] = state.start /\ range[2] > state.end

\* startRun(), up to the Background Run being asked to start: the run before
\* is superseded, and the owner waits for it to end.
StartRun(newJob, newResults, newKey) ==
    /\ lastRun < MaxRuns
    /\ lastRun' = lastRun + 1
    /\ activeRun' = lastRun + 1
    /\ waiting' = newJob
    /\ owner' = "starting"
    /\ results' = newResults
    /\ changedUnder' = FALSE
    /\ cacheKey' = newKey
    /\ state' = [phase |-> "Running", pattern |-> newJob.pattern, start |-> newJob.start,
                 end |-> newJob.end, fromCache |-> FALSE,
                 count |-> Cardinality(newResults.matches)]
    /\ current' = (untold = AllTold)
    /\ UNCHANGED <<searchId, cache, useCache, fileVars, followed, faithful, opVars, reports>>

\* request() that continues: the last Log Line searched is searched again.
Recheck(r, start) == [r EXCEPT !.rechecked = IF r.processed > start THEN r.processed - 1 ELSE NoLine]
RequestContinued ==
    /\ owner = "free"
    /\ \E pattern \in Patterns, range \in Requestable :
          /\ Continues(pattern, range)
          /\ ContinueUnsettled \/ Settled
          /\ StartRun(UpdateJob(lastRun + 1, pattern, range[1], range[2], results.processed),
                      Recheck(Publish(results), range[1]), NoKey)

InCache(key) == useCache /\ key \in DOMAIN cache

\* request() that starts a run over.
RequestFresh ==
    /\ owner = "free"
    /\ \E pattern \in Patterns, range \in Requestable :
          /\ ~Continues(pattern, range)
          /\ ~InCache(Key(pattern, range))
          /\ StartRun(FullJob(lastRun + 1, pattern, range[1], range[2]), Reset(results),
                      Key(pattern, range))

\* startRun() returns from the Background Run and tells the state: the run
\* has begun, the one before has ended.
RunBegins ==
    /\ owner = "starting"
    /\ job = NoJob
    /\ job' = waiting
    /\ searchId' = waiting.id
    /\ waiting' = NoJob
    /\ owner' = "free"
    /\ Notify(results)
    /\ UNCHANGED <<lastRun, state, changedUnder, cache, cacheKey, useCache, fileVars, current,
                   data, blocks, limiter, passedOver, picked, activeRun, reports>>

\* invalidateCurrentRun()
Invalidate_KeepsAwaiting ==
    /\ activeRun' = 0
    /\ UNCHANGED searchId
Invalidate ==
    /\ activeRun' = 0
    /\ searchId' = 0

\* request() of a pattern that does not compile.
RequestInvalid ==
    /\ owner = "free"
    /\ Invalidate
    /\ \E range \in Requestable :
          state' = [Idle EXCEPT !.phase = "InvalidPattern", !.start = range[1], !.end = range[2]]
    /\ Notify(Reset(results))
    /\ UNCHANGED <<owner, waiting, lastRun, changedUnder, cache, cacheKey, useCache, fileVars,
                   current, opVars, reports>>

\* request() without a pattern.
RequestIdle ==
    /\ owner = "free"
    /\ Invalidate
    /\ state' = Idle
    /\ cacheKey' = NoKey
    /\ Notify(Reset(results))
    /\ UNCHANGED <<owner, waiting, lastRun, changedUnder, cache, useCache, fileVars, current,
                   opVars, reports>>

\* request() that the cache answers: adoptCacheHit().
RequestCached_KeepsRun ==
    /\ owner = "free"
    /\ UNCHANGED <<activeRun, searchId>>
    /\ \E pattern \in Patterns, range \in Requestable :
          LET key == Key(pattern, range) IN
          /\ ~Continues(pattern, range)
          /\ InCache(key)
          /\ state' = [phase |-> "Complete", pattern |-> pattern, start |-> range[1],
                       end |-> range[2], fromCache |-> TRUE, count |-> Cardinality(cache[key])]
          /\ cacheKey' = key
          /\ Notify([Reset(results) EXCEPT !.matches = cache[key], !.processed = range[2]])
    /\ current' = (untold = AllTold)
    /\ UNCHANGED <<owner, waiting, lastRun, changedUnder, cache, useCache, fileVars, opVars, reports>>
RequestCached ==
    /\ owner = "free"
    /\ Invalidate
    /\ \E pattern \in Patterns, range \in Requestable :
          LET key == Key(pattern, range) IN
          /\ ~Continues(pattern, range)
          /\ InCache(key)
          /\ state' = [phase |-> "Complete", pattern |-> pattern, start |-> range[1],
                       end |-> range[2], fromCache |-> TRUE, count |-> Cardinality(cache[key])]
          /\ cacheKey' = key
          /\ Notify([Reset(results) EXCEPT !.matches = cache[key], !.processed = range[2]])
    /\ current' = (untold = AllTold)
    /\ UNCHANGED <<owner, waiting, lastRun, changedUnder, cache, useCache, fileVars, opVars, reports>>

\* stop()
Stop ==
    /\ owner = "free"
    /\ Invalidate
    /\ IF state.phase = "Running"
       THEN /\ state' = [state EXCEPT !.phase = "Interrupted"]
            /\ Notify(results)
       ELSE UNCHANGED <<state, results, followed, faithful>>
    /\ UNCHANGED <<owner, waiting, lastRun, changedUnder, cache, cacheKey, useCache, fileVars,
                   current, opVars, reports>>

\* setSearchPolicy(), what it says of the cache.
SetSearchPolicy ==
    /\ owner = "free"
    /\ useCache' \in CachePolicies
    /\ UNCHANGED <<ownerVars, state, results, changedUnder, cache, cacheKey, fileVars,
                   historyVars, opVars, activeRun, reports>>

-----------------------------------------------------------------------------
(* Reports of the run, delivered on the owner thread.                      *)

\* handleSearchProgressed() and handleSearchFinished(): any other run's
\* report is one of a run since superseded.
IsAwaited_Any(report) == searchId # 0
IsAwaited(report) == report.id = searchId

DropReport ==
    /\ owner = "free"
    /\ reports # <<>>
    /\ ~IsAwaited(Head(reports))
    /\ reports' = Tail(reports)
    /\ UNCHANGED <<ownerVars, sessionVars, fileVars, historyVars, opVars, activeRun>>

\* The report being handled is the next one, awaited, and of one of kinds.
Handling(kinds) ==
    /\ owner = "free"
    /\ reports # <<>>
    /\ IsAwaited(Head(reports))
    /\ Head(reports).kind \in kinds
    /\ reports' = Tail(reports)
    /\ UNCHANGED <<ownerVars, changedUnder, useCache, fileVars, current, job, blocks, limiter, passedOver, picked,
                   activeRun>>

SearchProgressed ==
    /\ Handling({"progress"})
    /\ results' = [Apply(results) EXCEPT !.pending = TRUE]
    /\ state' = [state EXCEPT !.count = Count(Apply(results))]
    /\ Taken
    /\ UNCHANGED <<cache, cacheKey, followed, faithful>>

SearchFailed ==
    /\ Handling({"failed"})
    /\ cacheKey' = NoKey
    /\ state' = [state EXCEPT !.phase = "Failed", !.count = 0]
    /\ Notify(Reset(results))
    /\ UNCHANGED <<cache, data>>

\* The Matches the cache holds, over all its entries.
CachedLines(kept) == Cardinality(UNION {{key} \X kept[key] : key \in DOMAIN kept})

Restricted(results_, keys) == [key \in keys |-> results_[key]]

\* updateSearchResultsCache(): the entry just made stays, others are dropped
\* one by one, in the order of a hash map, until the cache fits its budget.
Kept_All(filled) == {DOMAIN filled}
Kept(filled) ==
    {keys \in SUBSET DOMAIN filled :
        /\ cacheKey \in keys
        /\ keys = {cacheKey} \/ CachedLines(Restricted(filled, keys)) <= MaxCacheLines
        /\ keys # DOMAIN filled =>
              \E last \in DOMAIN filled \ keys :
                 CachedLines(Restricted(filled, keys \cup {last})) > MaxCacheLines}

UpdateCache(matches) ==
    IF ~useCache \/ cacheKey = NoKey \/ Cardinality(matches) > MaxCacheLines
    THEN UNCHANGED cache
    ELSE LET filled == [key \in DOMAIN cache \cup {cacheKey} |->
                           IF key = cacheKey THEN matches ELSE cache[key]]
         IN \E keys \in Kept(filled) : cache' = Restricted(filled, keys)

\* A fresh run is cached once it searched its whole range.
Cacheable_Any(processed) == TRUE
Cacheable(processed) == processed = cacheKey.end

SearchFinished ==
    /\ Handling({"returned"})
    /\ LET final == Apply(results) IN
       /\ IF Cacheable(final.processed) THEN UpdateCache(Publish(final).matches)
          ELSE UNCHANGED cache
       /\ state' = [state EXCEPT !.phase = "Complete", !.count = Count(final)]
       /\ Notify(final)
    /\ Taken
    /\ UNCHANGED cacheKey

\* emitThrottledStateChanged(): the throttler's timer fires.
EmitThrottled ==
    /\ owner = "free"
    /\ results.pending
    /\ Notify(results)
    /\ UNCHANGED <<ownerVars, state, changedUnder, cache, cacheKey, useCache, fileVars, current,
                   opVars, activeRun, reports>>

-----------------------------------------------------------------------------
(* The Log Lines change, and the Session is told.                          *)

\* An index run reads the Log File: Log Lines are appended, and the last one
\* may have been incomplete ...
LinesGrow ==
    /\ changes < MaxChanges
    /\ \E grown \in UNION {[1..n -> Readings] : n \in (NbLines + 1)..MaxLines} :
          /\ \A i \in 1..(NbLines - 1) : grown[i] = lines[i]
          /\ lines' = grown
    /\ untold' = Least(untold, IF NbLines > 0 THEN NbLines - 1 ELSE 0)
    /\ changes' = changes + 1
    /\ current' = FALSE
    /\ UNCHANGED <<ownerVars, sessionVars, followed, faithful, opVars, activeRun, reports>>

\* ... or any of them reads differently: truncated, indexed again, decoded
\* differently.
LinesReplaced ==
    /\ ~OnlyGrows
    /\ changes < MaxChanges
    /\ lines' \in UNION {[1..n -> Readings] : n \in 0..MaxLines}
    /\ untold' = 0
    /\ changes' = changes + 1
    /\ current' = FALSE
    /\ UNCHANGED <<ownerVars, sessionVars, followed, faithful, opVars, activeRun, reports>>

\* How far the Session holds Log Lines to be searched: a run in flight may
\* have read its whole range.
SearchedEnd == IF state.phase = "Running" THEN state.end ELSE results.processed

\* The cached results that still hold when the Log Lines from first on changed.
Unchanged_All(first) == DOMAIN cache
Unchanged(first) == {key \in DOMAIN cache : key.end <= first}

\* logLinesChanged()
LogLinesChanged ==
    /\ owner = "free"
    /\ untold # AllTold
    /\ untold' = AllTold
    /\ cache' = Restricted(cache, Unchanged(untold))
    /\ IF state.end <= untold
       THEN UNCHANGED <<cacheKey, changedUnder>>
       ELSE /\ cacheKey' = IF state.phase = "Running" THEN NoKey ELSE cacheKey
            /\ changedUnder' = (changedUnder \/ untold + 1 < SearchedEnd)
    /\ UNCHANGED <<ownerVars, state, results, useCache, lines, changes, historyVars, opVars,
                   activeRun, reports>>

-----------------------------------------------------------------------------
RunStep == Run /\ UNCHANGED <<ownerVars, sessionVars, untold, changes, historyVars>>

Requests == RequestContinued \/ RequestFresh \/ RequestInvalid \/ RequestIdle \/ RequestCached \/ Stop
Reported == DropReport \/ SearchProgressed \/ SearchFailed \/ SearchFinished

Next ==
    \/ Requests \/ RunBegins \/ SetSearchPolicy
    \/ Reported \/ EmitThrottled
    \/ LinesGrow \/ LinesReplaced \/ LogLinesChanged
    \/ RunStep

Spec == Init /\ [][Next]_vars

\* The run goes on, and the owner's event loop delivers its reports.
FairSpec == Spec /\ WF_vars(RunStep) /\ WF_vars(RunBegins) /\ WF_vars(Reported)

-----------------------------------------------------------------------------
(* What a Search Session promises.                                         *)

\* What the Session holds to be Matches, told or not.
Held == (results.matches \cup results.arrived) \ results.stale

\* Every Log Line the Session counts as searched is a Match just when it
\* matches, while nothing changed since the request -- but for the one
\* searched again, until its verdict is in.  Whatever order blocks are
\* combined in, and whoever supersedes whom: no other run's results, no gap,
\* nothing lost (searchsession.h:48-53, 219-221).
SearchedIsDecided ==
    /\ state.phase \in {"Running", "Complete", "Interrupted"} /\ current
    => LET truth == MatchingLines(state.pattern, state.start, state.end) IN
       /\ Held \ {results.rechecked} \subseteq truth
       /\ \A line \in truth : line < results.processed => line \in Held \cup {results.rechecked}

\* A Search told complete that searched its whole range ...
SearchedWhole ==
    /\ state.phase = "Complete"
    /\ current
    /\ results.processed >= Least(state.end, NbLines)

\* ... has every Match ...
CompleteHasAllMatches ==
    SearchedWhole => MatchingLines(state.pattern, state.start, state.end) \subseteq results.matches

\* A Search told complete has searched all of its range, but for what could
\* not be read: a run returns only once every block it read was combined,
\* whatever room the limiter had for it (SearchOperation::doSearch()).
CompleteIsWhole ==
    state.phase = "Complete" /\ current /\ ~passedOver => results.processed >= Least(state.end, NbLines)

\* What the cache holds is what a run over the range would find now, unless
\* a change that reaches the range has not been told yet
\* (searchsession.h:101-105).
CacheIsCurrent ==
    \A key \in DOMAIN cache :
        key.end <= untold => cache[key] = MatchingLines(key.pattern, key.start, key.end)

\* The cache keeps to its budget of Matches.
CacheWithinBudget == CachedLines(cache) <= MaxCacheLines

\* ... and none that is not one; and the count told along the way agrees
\* with the Matches told with it, counted from sets that overlap as their
\* comments say (searchsession.h:200-212).
CompleteIsExact ==
    /\ SearchedWhole => results.matches = MatchingLines(state.pattern, state.start, state.end)
    /\ results.stale \subseteq results.matches
    /\ results.arrived \cap (results.matches \cup results.stale) = {}
    /\ state.count = Cardinality(Held)

\* Whoever follows the deltas holds the Matches, and every delta added only
\* new Matches and removed only old ones (matchesdelta.h:42-50).
FollowersInStep == faithful /\ (owner = "free" => followed = results.matches)

\* No run is awaited that was superseded: the branch of handleSearchFinished()
\* for one is the defensive fallback its comment calls it
\* (searchsession.cpp:507-512), and has no action here.
AwaitedNotSuperseded ==
    owner = "free" =>
        \A i \in DOMAIN reports : reports[i].id = searchId => reports[i].kind # "superseded"

\* A Search that was asked for settles: it completes, fails or is replaced.
SearchSettles == state.phase = "Running" ~> state.phase # "Running"
=============================================================================
