-------------------------- MODULE SearchDecided_proofs --------------------------
(***************************************************************************)
(* Proofs about SearchSession: what is searched is decided, what a Search  *)
(* is told complete with is exact, and what the cache holds is what a run  *)
(* would find now -- whatever order blocks are combined in, whoever        *)
(* supersedes whom, and whatever changes before the Session is told.       *)
(*                                                                         *)
(* The invariant relates what the Session holds to the data of its run,    *)
(* the data to the blocks in flight, and both to the Log Lines that can    *)
(* still be relied on.                                                     *)
(***************************************************************************)
EXTENDS SearchSession_proofs

Searched == state.phase \in {"Running", "Complete", "Interrupted"}
Awaited == owner = "free" /\ state.phase = "Running"

\* The run in flight is to be cached.
CachesRun == state.phase = "Running" /\ cacheKey # NoKey

\* What is promised of the Matches: where a Search is continued that is not
\* Settled, only that a run to be cached finds what it should.
Proper == CachesRun \/ (~ContinueUnsettled /\ Searched)

InRange == state.start..(state.end - 1)
RangeEnd == Later(state.start, state.end)
Truth == MatchingLines(state.pattern, state.start, state.end)

\* The Log Lines that read as they did when they were searched: all of them
\* while nothing changed since the request, otherwise those before what is
\* untold, but for the last one searched, which a continuation searches again.
Trusted == {line \in InRange :
    \/ CachesRun /\ line < untold
    \/ /\ ~ContinueUnsettled /\ Searched
       /\ \/ current
          \/ ~state.fromCache /\ ~changedUnder /\ line < untold /\ line < SearchedEnd - 1}

-----------------------------------------------------------------------------
(* The invariant.                                                          *)

\* What the Session holds, of the Log Lines it counts as searched.
DecidedInv ==
    \A line \in Trusted :
       /\ line \in Held \ {results.rechecked} => line \in Truth
       /\ line \in Truth /\ line < results.processed => line \in Held \cup {results.rechecked}
       /\ line \in results.stale => line \notin Truth

\* It lies within the range.
RangeInv ==
    Proper /\ (current \/ ~state.fromCache) =>
       /\ results.matches \cup results.arrived \subseteq InRange
       /\ results.processed <= RangeEnd
       /\ results.rechecked \in InRange \cup {NoLine}

\* What the run has to be taken, with what was taken of it, up to where it
\* searched without a gap.
DataInv ==
    Awaited /\ Proper /\ (job = NoJob \/ job.pc = "searching") =>
       /\ data.found \subseteq InRange
       /\ data.until <= RangeEnd
       /\ \A line \in Trusted :
             /\ line \in data.found => line \in Truth
             /\ line \in Truth /\ line < data.until =>
                   line \in data.found \/ (line # results.rechecked /\ line \in Held)

\* The blocks combined beyond a gap, and those still in flight or to be accepted.
InWork == blocks \cup ({picked, limiter.offered} \ {NoBlock})
BlockInv ==
    Awaited /\ Proper /\ job # NoJob /\ job.pc = "searching" =>
       /\ job.pattern = state.pattern /\ job.end <= state.end
       /\ state.start <= job.next /\ job.next <= RangeEnd
       /\ state.start <= data.until /\ results.rechecked <= data.until
       /\ \A first \in DOMAIN data.ahead :
             /\ first > data.until /\ data.ahead[first] <= state.end
             /\ \A line \in Trusted :
                   first <= line /\ line < data.ahead[first] /\ line \in Truth => line \in Held \cup data.found
       /\ \A block \in InWork :
             /\ state.start <= block.first /\ block.end <= state.end
             /\ block.matches \subseteq block.first..(block.end - 1)
             /\ \A line \in Trusted :
                   block.first <= line /\ line < block.end => (line \in block.matches <=> line \in Truth)

\* A run that is to begin was started for the Search told; one that continues
\* it starts from what the Session took, and nothing of the run before is left
\* to take, or it is cleared before.
NextJob == IF owner = "starting" THEN waiting ELSE job
Quiet == data.found = {} /\ data.until <= results.processed /\ picked = NoBlock
BegunInv ==
    owner = "starting" \/ (Awaited /\ job # NoJob /\ job.pc = "begun") =>
       /\ NextJob.pattern = state.pattern /\ NextJob.start = state.start /\ NextJob.end = state.end
       /\ ~state.fromCache
       /\ CachesRun => NextJob.full
       /\ ~NextJob.full /\ ~ContinueUnsettled =>
             /\ NextJob.position = results.processed
             /\ results.arrived = {}
             /\ \A line \in results.matches : line < results.processed
             /\ results.rechecked = IF results.processed > state.start THEN results.processed - 1 ELSE NoLine
             /\ Quiet \/ (owner = "starting" /\ job # NoJob /\ job.pc = "begun" /\ job.full)

\* Before a full run has begun, nothing is held.
ResetInv ==
    \/ owner = "starting" /\ waiting.full
    \/ owner = "free" /\ Searched /\ ~state.fromCache /\ job # NoJob /\ job.pc = "begun" /\ job.full
    => /\ results.matches = {} /\ results.arrived = {} /\ results.processed = 0
       /\ results.rechecked = NoLine

\* What is cached, and what the history says.
KeyInv ==
    /\ CachesRun => cacheKey = Key(state.pattern, <<state.start, state.end>>) /\ results.rechecked = NoLine
    /\ current => untold = AllTold
    /\ current /\ Searched => state.end <= NbLines
    /\ state.phase = "Complete" => results.rechecked = NoLine \/ results.processed <= results.rechecked
    /\ state.fromCache => state.phase = "Complete"

SessionInv == DecidedInv /\ RangeInv /\ ResetInv /\ KeyInv
WorkInv == DataInv /\ BlockInv /\ BegunInv
SearchInv == AwaitInv /\ FollowInv /\ SessionInv /\ WorkInv /\ CacheIsCurrent

-----------------------------------------------------------------------------
(* What the parts of the invariant are about.                              *)

\* The types of what the invariant is about.
LEMMA SearchTypes ==
    ASSUME TypeInv
    PROVE  /\ MaxLines \in Nat /\ NbLines \in Nat /\ NbLines <= MaxLines
           /\ state \in StateType /\ results \in ResultsType /\ IsData(data)
           /\ state.start \in Nat /\ state.end \in Nat /\ state.end <= MaxLines
           /\ RangeEnd \in Nat /\ RangeEnd >= state.start /\ RangeEnd >= state.end
           /\ RangeEnd = state.start \/ RangeEnd = state.end
           /\ results.processed \in Nat /\ results.rechecked \in Int
           /\ results.rechecked = NoLine \/ results.rechecked \in Nat
           /\ data.until \in Nat /\ data.found \subseteq Lines /\ untold \in Nat /\ untold <= MaxLines
           /\ results.matches \subseteq Lines /\ results.arrived \subseteq Lines /\ results.stale \subseteq Lines
           /\ Truth \subseteq InRange /\ Trusted \subseteq InRange /\ NoLine = -1
           /\ lines \in Seq(Readings) /\ Len(lines) <= MaxLines
           /\ \A line \in InRange : line \in Nat /\ state.start <= line /\ line < state.end
           /\ \A line \in Nat : state.start <= line /\ line < state.end => line \in InRange
<1>1. /\ MaxLines \in Nat /\ state \in StateType /\ results \in ResultsType /\ IsData(data)
      /\ lines \in Seq(Readings) /\ Len(lines) <= MaxLines /\ untold \in 0..MaxLines
  BY SearchAssumption DEF TypeInv, OwnerTypes, RunTypes, AllTold
<1>2. state.start \in Nat /\ state.end \in Nat /\ state.end <= MaxLines
  BY <1>1 DEF StateType
<1>3. /\ results.processed \in Nat /\ results.rechecked \in Lines \cup {NoLine}
      /\ results.matches \subseteq Lines /\ results.arrived \subseteq Lines /\ results.stale \subseteq Lines
  BY <1>1 DEF ResultsType
<1>4. data.until \in Nat /\ data.found \subseteq Lines
  BY <1>1 DEF IsData
<1>5. Truth \subseteq InRange
  BY <1>1, <1>2, MatchingType DEF Truth, InRange
<1>6. Trusted \subseteq InRange
  BY DEF Trusted
<1>7. results.rechecked = NoLine \/ results.rechecked \in Nat
  BY <1>1, <1>3 DEF Lines
<1> QED
  BY <1>1, <1>2, <1>3, <1>4, <1>5, <1>6, <1>7 DEF RangeEnd, Later, InRange, NoLine, NbLines

-----------------------------------------------------------------------------
(* What does not disturb the invariant.                                    *)

\* What is held stays decided while less is trusted, and that reads as it did.
LEMMA StaysDecided ==
    ASSUME DecidedInv, RangeInv, Held' = Held,
           results'.stale \subseteq results.stale,
           results'.matches \cup results'.arrived \subseteq results.matches \cup results.arrived,
           results'.rechecked = results.rechecked, results'.processed = results.processed,
           state'.start = state.start, state'.end = state.end, state'.fromCache = state.fromCache,
           current' => current, Proper' => Proper, Trusted' \subseteq Trusted,
           \A line \in Trusted' : line \in Truth' <=> line \in Truth
    PROVE  DecidedInv' /\ RangeInv'
<1>1. DecidedInv'
  BY DEF DecidedInv
<1>2. InRange' = InRange /\ RangeEnd' = RangeEnd
  BY DEF InRange, RangeEnd
<1>3. RangeInv'
  BY <1>2 DEF RangeInv
<1> QED
  BY <1>1, <1>3

\* So does what the run works on.
LEMMA StaysInWork ==
    ASSUME DataInv, BlockInv, Held' = Held, results'.rechecked = results.rechecked,
           state'.start = state.start, state'.end = state.end, state'.pattern = state.pattern,
           Awaited' => Awaited, Proper' => Proper, Trusted' \subseteq Trusted,
           \A line \in Trusted' : line \in Truth' <=> line \in Truth,
           UNCHANGED <<data, job, blocks, limiter, picked>>
    PROVE  DataInv' /\ BlockInv'
<1>1. InRange' = InRange /\ RangeEnd' = RangeEnd /\ InWork' = InWork
  BY DEF InRange, RangeEnd, InWork
<1>2. DataInv'
  BY <1>1 DEF DataInv
<1>3. BlockInv'
  BY <1>1 DEF BlockInv
<1> QED
  BY <1>2, <1>3

\* A run that has yet to begin is not disturbed.
LEMMA StaysBegun ==
    ASSUME BegunInv, ResetInv, UNCHANGED <<owner, waiting, data, job, picked>>,
           results'.matches \subseteq results.matches \cup results.arrived,
           results'.arrived \subseteq results.arrived,
           results'.rechecked = results.rechecked, results'.processed = results.processed,
           state'.pattern = state.pattern, state'.start = state.start, state'.end = state.end,
           state'.fromCache = state.fromCache,
           Awaited' => Awaited, CachesRun' => CachesRun, Searched' => Searched
    PROVE  BegunInv' /\ ResetInv'
<1>1. NextJob' = NextJob
  BY DEF NextJob
<1>2. Quiet' = Quiet
  BY DEF Quiet
<1>3. BegunInv'
  BY <1>1, <1>2 DEF BegunInv
<1>4. ResetInv'
  BY DEF ResetInv
<1> QED
  BY <1>3, <1>4

-----------------------------------------------------------------------------
(* The Log Lines change, and the Session is told.                          *)

\* Steps of nothing that the invariant is about.
LEMMA Undisturbed ==
    ASSUME SearchInv,
           UNCHANGED <<owner, waiting, state, results, changedUnder, cacheKey, cache, lines, untold, current,
                       data, job, blocks, limiter, picked>>
    PROVE  SessionInv' /\ WorkInv' /\ CacheIsCurrent'
<1>1. /\ Searched' = Searched /\ Awaited' = Awaited /\ CachesRun' = CachesRun /\ Proper' = Proper
      /\ InRange' = InRange /\ RangeEnd' = RangeEnd /\ Truth' = Truth /\ Trusted' = Trusted
      /\ Held' = Held /\ InWork' = InWork /\ NextJob' = NextJob /\ Quiet' = Quiet /\ NbLines' = NbLines
  BY DEF Searched, Awaited, CachesRun, Proper, InRange, RangeEnd, Truth, Trusted, SearchedEnd, Held, InWork,
         NextJob, Quiet, MatchingLines, NbLines
<1>2. SessionInv'
  BY <1>1 DEF SearchInv, SessionInv, DecidedInv, RangeInv, ResetInv, KeyInv
<1>3. WorkInv'
  BY <1>1 DEF SearchInv, WorkInv, DataInv, BlockInv, BegunInv
<1>4. CacheIsCurrent'
  BY DEF SearchInv, CacheIsCurrent, MatchingLines, NbLines
<1> QED
  BY <1>2, <1>3, <1>4

\* Before what is untold, the Log Lines read as they did.
LEMMA BeforeUntold ==
    ASSUME TypeInv, LinesGrow \/ LinesReplaced
    PROVE  /\ untold' <= untold /\ untold' \in Nat /\ NbLines' \in Nat
           /\ \A line \in Nat : line < untold' =>
                 /\ line < NbLines /\ line < NbLines'
                 /\ lines'[line + 1] = lines[line + 1]
<1>1. untold \in Nat /\ NbLines \in Nat /\ lines' \in Seq(Readings) /\ NbLines' \in Nat
  <2>1. TypeInv'
    BY TypeStep DEF Next
  <2> QED
    BY <2>1, SearchTypes DEF TypeInv, RunTypes, NbLines
<1>2. CASE LinesGrow
  <2>1. PICK grown \in UNION {[1..n -> Readings] : n \in (NbLines + 1)..MaxLines} :
            /\ \A i \in 1..(NbLines - 1) : grown[i] = lines[i]
            /\ lines' = grown
    BY <1>2 DEF LinesGrow
  <2>2. NbLines' >= NbLines + 1
    <3>1. NbLines + 1 \in Nat
      BY <1>1
    <3> QED
      BY <2>1, <3>1, LinesType DEF NbLines
  <2>3. untold' = Least(untold, IF NbLines > 0 THEN NbLines - 1 ELSE 0)
    BY <1>2 DEF LinesGrow
  <2>4. untold' <= untold /\ untold' \in Nat /\ untold' <= (IF NbLines > 0 THEN NbLines - 1 ELSE 0)
    BY <1>1, <2>3 DEF Least
  <2>5. ASSUME NEW line \in Nat, line < untold'
        PROVE  line < NbLines /\ line < NbLines' /\ lines'[line + 1] = lines[line + 1]
    <3>1. line + 1 \in 1..(NbLines - 1)
      BY <1>1, <2>4, <2>5
    <3> QED
      BY <1>1, <2>1, <2>2, <3>1
  <2> QED
    BY <1>1, <2>4, <2>5
<1>3. CASE LinesReplaced
  BY <1>1, <1>3 DEF LinesReplaced
<1> QED
  BY <1>2, <1>3

\* So what matches there still does.
LEMMA MatchingBeforeUntold ==
    ASSUME TypeInv, LinesGrow \/ LinesReplaced, NEW pattern, NEW start \in Nat, NEW end \in Nat
    PROVE  /\ \A line \in Nat : line < untold' =>
                 (line \in MatchingLines(pattern, start, end)' <=> line \in MatchingLines(pattern, start, end))
           /\ end <= untold' => MatchingLines(pattern, start, end)' = MatchingLines(pattern, start, end)
<1>1. /\ lines \in Seq(Readings) /\ Len(lines) <= MaxLines
      /\ lines' \in Seq(Readings) /\ Len(lines') <= MaxLines
  <2>1. TypeInv'
    BY TypeStep DEF Next
  <2> QED
    BY <2>1 DEF TypeInv, RunTypes
<1>2. \A line : line \in MatchingLines(pattern, start, end) <=>
          /\ line \in Nat /\ start <= line /\ line < end /\ line < NbLines /\ pattern \in lines[line + 1]
  BY <1>1, MatchingType
<1>3. \A line : line \in MatchingLines(pattern, start, end)' <=>
          /\ line \in Nat /\ start <= line /\ line < end /\ line < NbLines' /\ pattern \in lines'[line + 1]
  <2>1. NbLines' \in Nat
    BY <1>1 DEF NbLines
  <2> QED
    BY <1>1, <2>1 DEF MatchingLines, NbLines, Least
<1>4. ASSUME NEW line \in Nat, line < untold'
      PROVE  line \in MatchingLines(pattern, start, end)' <=> line \in MatchingLines(pattern, start, end)
  BY <1>2, <1>3, <1>4, BeforeUntold
<1>5. ASSUME end <= untold'
      PROVE  MatchingLines(pattern, start, end)' = MatchingLines(pattern, start, end)
  <2>1. untold' \in Nat
    BY BeforeUntold
  <2>2. \A line : line \in MatchingLines(pattern, start, end)' <=> line \in MatchingLines(pattern, start, end)
    BY <1>2, <1>3, <1>4, <1>5, <2>1
  <2> QED
    BY <2>2
<1> QED
  BY <1>4, <1>5

\* The keys of what is cached.
LEMMA KeyType ==
    ASSUME NEW key \in Keys
    PROVE  key.start \in Nat /\ key.end \in Nat
<1>1. CASE key = NoKey
  BY <1>1 DEF NoKey
<1>2. CASE key \in {Key(p, r) : p \in Patterns, r \in Ranges}
  <2>1. PICK p \in Patterns, r \in Ranges : key = Key(p, r)
    BY <1>2
  <2> QED
    BY <2>1, RangeType, SearchAssumption DEF Key
<1> QED
  BY <1>1, <1>2 DEF Keys

\* The Log Lines change.
LEMMA LinesChangeKeeps ==
    ASSUME SearchInv, LinesGrow \/ LinesReplaced
    PROVE  SessionInv' /\ WorkInv' /\ CacheIsCurrent'
<1>a. TypeInv
  BY DEF SearchInv, AwaitInv
<1>b. /\ UNCHANGED <<owner, waiting, state, results, changedUnder, cacheKey, cache, data, job, blocks, limiter, picked>>
      /\ current' = FALSE
  BY DEF LinesGrow, LinesReplaced, ownerVars, sessionVars, opVars
<1>1. /\ Searched' = Searched /\ Awaited' = Awaited /\ CachesRun' = CachesRun /\ Proper' = Proper
      /\ InRange' = InRange /\ Held' = Held /\ SearchedEnd' = SearchedEnd
  BY <1>b DEF Searched, Awaited, CachesRun, Proper, InRange, SearchedEnd, Held
<1>2. \A line \in InRange : line \in Nat
  BY <1>a, SearchTypes
<1>3. /\ untold' <= untold /\ untold' \in Nat /\ untold \in Nat
  BY <1>a, BeforeUntold, SearchTypes
<1>4. Trusted' \subseteq Trusted /\ \A line \in Trusted' : line \in Nat /\ line < untold'
  BY <1>b, <1>1, <1>2, <1>3 DEF Trusted
<1>5. \A line \in Trusted' : line \in Truth' <=> line \in Truth
  <2>1. PICK pattern, start, end : pattern = state.pattern /\ start = state.start /\ end = state.end
    OBVIOUS
  <2>2. start \in Nat /\ end \in Nat
    BY <1>a, <2>1, SearchTypes
  <2>3. /\ Truth = MatchingLines(pattern, start, end)
        /\ Truth' = MatchingLines(pattern, start, end)'
    BY <1>b, <2>1 DEF Truth, MatchingLines
  <2>4. \A line \in Nat : line < untold' =>
            (line \in MatchingLines(pattern, start, end)' <=> line \in MatchingLines(pattern, start, end))
    BY <1>a, <2>2, MatchingBeforeUntold
  <2> QED
    BY <1>4, <2>3, <2>4
<1>6. DecidedInv' /\ RangeInv'
  BY <1>b, <1>1, <1>4, <1>5, StaysDecided DEF SearchInv, SessionInv
<1>7. DataInv' /\ BlockInv'
  BY <1>b, <1>1, <1>4, <1>5, StaysInWork DEF SearchInv, WorkInv
<1>8. BegunInv' /\ ResetInv'
  BY <1>b, <1>1, StaysBegun DEF SearchInv, SessionInv, WorkInv
<1>9. KeyInv'
  BY <1>b, <1>1 DEF SearchInv, SessionInv, KeyInv
<1>10. CacheIsCurrent'
  <2> SUFFICES ASSUME NEW key \in DOMAIN cache, key.end <= untold'
               PROVE  cache[key] = MatchingLines(key.pattern, key.start, key.end)'
    BY <1>b DEF CacheIsCurrent, MatchingLines
  <2>1. key.start \in Nat /\ key.end \in Nat
    BY <1>a, KeyType DEF TypeInv, IsCache
  <2>2. cache[key] = MatchingLines(key.pattern, key.start, key.end)
    BY <1>3, <2>1 DEF SearchInv, CacheIsCurrent
  <2> QED
    BY <1>a, <2>1, <2>2, MatchingBeforeUntold
<1> QED
  BY <1>6, <1>7, <1>8, <1>9, <1>10 DEF SessionInv, WorkInv

\* logLinesChanged()
LEMMA LogLinesChangedKeeps ==
    ASSUME SearchInv, LogLinesChanged
    PROVE  SessionInv' /\ WorkInv' /\ CacheIsCurrent'
<1>a. TypeInv
  BY DEF SearchInv, AwaitInv
<1>b. /\ UNCHANGED <<owner, waiting, state, results, lines, data, job, blocks, limiter, picked, current>>
      /\ untold' = MaxLines /\ untold # MaxLines
      /\ cache' = Restricted(cache, Unchanged(untold))
      /\ state.end <= untold => UNCHANGED <<cacheKey, changedUnder>>
      /\ ~(state.end <= untold) =>
            /\ cacheKey' = IF state.phase = "Running" THEN NoKey ELSE cacheKey
            /\ changedUnder' = (changedUnder \/ untold + 1 < SearchedEnd)
  BY DEF LogLinesChanged, ownerVars, opVars, historyVars, AllTold
<1>c. /\ ~current /\ untold \in Nat /\ MaxLines \in Nat /\ state.end \in Nat
      /\ state.start \in Nat /\ results.processed \in Nat /\ SearchedEnd \in Nat
      /\ \A line \in InRange : line \in Nat /\ state.start <= line /\ line < state.end
  BY <1>a, <1>b, SearchTypes DEF SearchInv, SessionInv, KeyInv, AllTold, SearchedEnd
<1>1. /\ Searched' = Searched /\ Awaited' = Awaited /\ (CachesRun' => CachesRun)
      /\ (Proper' => Proper)
      /\ InRange' = InRange /\ Held' = Held /\ SearchedEnd' = SearchedEnd /\ Truth' = Truth
  BY <1>b DEF Searched, Awaited, CachesRun, Proper, InRange, SearchedEnd, Held, Truth, MatchingLines, NbLines
<1>2. Trusted' \subseteq Trusted
  <2> SUFFICES ASSUME NEW line \in Trusted' PROVE line \in Trusted
    OBVIOUS
  <2>1. line \in InRange /\ line \in Nat /\ line < state.end
    BY <1>c, <1>1 DEF Trusted
  <2>2. CASE state.end <= untold
    <3>1. line < untold
      BY <1>c, <2>1, <2>2
    <3>2. CachesRun' = CachesRun
      BY <1>b, <2>2 DEF CachesRun
    <3> QED
      BY <1>b, <1>1, <1>c, <2>1, <2>2, <3>1, <3>2 DEF Trusted
  <2>3. CASE ~(state.end <= untold)
    <3>1. ~CachesRun'
      BY <1>b, <2>3 DEF CachesRun
    <3>2. /\ ~ContinueUnsettled /\ Searched /\ ~state.fromCache /\ ~changedUnder' /\ line < SearchedEnd - 1
      BY <1>b, <1>c, <1>1, <3>1 DEF Trusted
    <3>3. ~changedUnder /\ ~(untold + 1 < SearchedEnd)
      BY <1>b, <2>3, <3>2
    <3>4. line < untold
      BY <1>c, <2>1, <3>2, <3>3
    <3> QED
      BY <2>1, <3>2, <3>3, <3>4 DEF Trusted
  <2> QED
    BY <2>2, <2>3
<1>3. DecidedInv' /\ RangeInv'
  BY <1>b, <1>1, <1>2, StaysDecided DEF SearchInv, SessionInv
<1>4. DataInv' /\ BlockInv'
  BY <1>b, <1>1, <1>2, StaysInWork DEF SearchInv, WorkInv
<1>5. BegunInv' /\ ResetInv'
  BY <1>b, <1>1, StaysBegun DEF SearchInv, SessionInv, WorkInv
<1>6. KeyInv'
  BY <1>b, <1>c, <1>1 DEF SearchInv, SessionInv, KeyInv, CachesRun
<1>7. CacheIsCurrent'
  <2> SUFFICES ASSUME NEW key \in DOMAIN cache'
               PROVE  cache'[key] = MatchingLines(key.pattern, key.start, key.end)'
    BY DEF CacheIsCurrent, MatchingLines
  <2>1. key \in DOMAIN cache /\ key.end <= untold /\ cache'[key] = cache[key]
    BY <1>b DEF Restricted, Unchanged
  <2>2. cache[key] = MatchingLines(key.pattern, key.start, key.end)
    BY <2>1 DEF SearchInv, CacheIsCurrent
  <2> QED
    BY <1>b, <2>1, <2>2 DEF MatchingLines, NbLines
<1> QED
  BY <1>3, <1>4, <1>5, <1>6, <1>7 DEF SessionInv, WorkInv

-----------------------------------------------------------------------------
(* The owner tells the state.                                              *)

\* notifyStateChanged() publishes what is held.
LEMMA NotifyHolds ==
    ASSUME SearchInv, Notify(results)
    PROVE  /\ Held' = Held /\ results'.matches = Held
           /\ results'.arrived = {} /\ results'.stale = {}
           /\ results'.rechecked = results.rechecked /\ results'.processed = results.processed
<1>1. results \in ResultsType /\ Tellable(results) /\ faithful
  BY DEF SearchInv, AwaitInv, TypeInv, OwnerTypes, FollowInv
<1>2. /\ results'.matches = (results.matches \cup results.arrived) \ results.stale
      /\ results'.arrived = {} /\ results'.stale = {}
  BY <1>1, NotifyFollow
<1>3. results'.rechecked = results.rechecked /\ results'.processed = results.processed
  BY <1>1, NotifyFields
<1> QED
  BY <1>2, <1>3 DEF Held

\* A range searched from its start ends there, or later.
LEMMA SearchedInRange ==
    ASSUME SearchInv, Proper, ~state.fromCache
    PROVE  \A line \in InRange : line < results.processed - 1 => line < state.end - 1
<1>1. results.processed <= RangeEnd
  BY DEF SearchInv, SessionInv, RangeInv
<1> QED
  BY <1>1, SearchTypes DEF SearchInv, AwaitInv

\* emitThrottledStateChanged()
LEMMA EmitThrottledKeeps ==
    ASSUME SearchInv, EmitThrottled
    PROVE  SessionInv' /\ WorkInv' /\ CacheIsCurrent'
<1>1. /\ Notify(results)
      /\ UNCHANGED <<owner, waiting, state, changedUnder, cacheKey, cache, lines, untold, current,
                     data, job, blocks, limiter, picked>>
  BY DEF EmitThrottled, ownerVars, fileVars, opVars
<1>2. /\ Held' = Held /\ results'.matches = Held
      /\ results'.arrived = {} /\ results'.stale = {}
      /\ results'.rechecked = results.rechecked /\ results'.processed = results.processed
  BY <1>1, NotifyHolds
<1>3. /\ Searched' = Searched /\ Awaited' = Awaited /\ CachesRun' = CachesRun /\ Proper' = Proper
      /\ SearchedEnd' = SearchedEnd /\ InRange' = InRange /\ Truth' = Truth
  BY <1>1, <1>2 DEF Searched, Awaited, CachesRun, Proper, SearchedEnd, InRange, Truth, MatchingLines, NbLines
<1>4. Trusted' = Trusted
  BY <1>1, <1>3 DEF Trusted
<1>5. Held \subseteq results.matches \cup results.arrived
  BY DEF Held
<1>6. DecidedInv' /\ RangeInv'
  BY <1>1, <1>2, <1>3, <1>4, <1>5, StaysDecided DEF SearchInv, SessionInv
<1>7. DataInv' /\ BlockInv'
  BY <1>1, <1>2, <1>3, <1>4, StaysInWork DEF SearchInv, WorkInv
<1>8. BegunInv' /\ ResetInv'
  BY <1>1, <1>2, <1>3, <1>5, StaysBegun DEF SearchInv, SessionInv, WorkInv
<1>9. KeyInv'
  BY <1>1, <1>2, <1>3 DEF SearchInv, SessionInv, KeyInv, NbLines
<1>10. CacheIsCurrent'
  BY <1>1 DEF SearchInv, CacheIsCurrent, MatchingLines, NbLines
<1> QED
  BY <1>6, <1>7, <1>8, <1>9, <1>10 DEF SessionInv, WorkInv

\* stop()
LEMMA StopKeeps ==
    ASSUME SearchInv, Stop
    PROVE  SessionInv' /\ WorkInv' /\ CacheIsCurrent'
<1>1. CASE state.phase # "Running"
  <2>1. UNCHANGED <<owner, waiting, state, results, changedUnder, cacheKey, cache, lines, untold, current,
                    data, job, blocks, limiter, picked>>
    BY <1>1 DEF Stop, fileVars, opVars
  <2> QED
    BY <2>1, Undisturbed
<1>2. CASE state.phase = "Running"
  <2>1. /\ Notify(results) /\ owner = "free"
        /\ state' = [state EXCEPT !.phase = "Interrupted"]
        /\ UNCHANGED <<owner, waiting, changedUnder, cacheKey, cache, lines, untold, current,
                       data, job, blocks, limiter, picked>>
    BY <1>2 DEF Stop, fileVars, opVars
  <2>2. /\ Held' = Held /\ results'.matches = Held
        /\ results'.arrived = {} /\ results'.stale = {}
        /\ results'.rechecked = results.rechecked /\ results'.processed = results.processed
    BY <2>1, NotifyHolds
  <2>3. /\ state'.phase = "Interrupted" /\ state'.pattern = state.pattern
        /\ state'.start = state.start /\ state'.end = state.end /\ state'.fromCache = state.fromCache
    BY <2>1 DEF SearchInv, AwaitInv, TypeInv, OwnerTypes, StateType
  <2>4. /\ Searched /\ Searched' /\ ~Awaited' /\ ~CachesRun' /\ (Proper' => Proper)
        /\ SearchedEnd = state.end /\ SearchedEnd' = results.processed
        /\ InRange' = InRange /\ Truth' = Truth /\ ~state.fromCache
    BY <1>2, <2>1, <2>2, <2>3
    DEF Searched, Awaited, CachesRun, Proper, SearchedEnd, InRange, Truth, MatchingLines, NbLines,
        SearchInv, SessionInv, KeyInv
  <2>5. Trusted' \subseteq Trusted
    <3> SUFFICES ASSUME NEW line \in Trusted' PROVE line \in Trusted
      OBVIOUS
    <3>1. /\ line \in InRange /\ ~ContinueUnsettled
          /\ \/ current
             \/ ~changedUnder /\ line < untold /\ line < results.processed - 1
      BY <2>1, <2>4 DEF Trusted
    <3>2. Proper
      BY <2>4, <3>1 DEF Proper
    <3>3. line < results.processed - 1 => line < SearchedEnd - 1
      BY <2>4, <3>1, <3>2, SearchedInRange
    <3> QED
      BY <2>4, <3>1, <3>3 DEF Trusted
  <2>6. Held \subseteq results.matches \cup results.arrived
    BY DEF Held
  <2>7. DecidedInv' /\ RangeInv'
    BY <2>1, <2>2, <2>3, <2>4, <2>5, <2>6, StaysDecided DEF SearchInv, SessionInv
  <2>8. DataInv' /\ BlockInv'
    BY <2>4 DEF DataInv, BlockInv
  <2>9. BegunInv' /\ ResetInv'
    BY <2>1, <2>2, <2>3, <2>4, <2>6, StaysBegun DEF SearchInv, SessionInv, WorkInv
  <2>10. KeyInv'
    BY <2>1, <2>2, <2>3, <2>4 DEF SearchInv, SessionInv, KeyInv, NbLines
  <2>11. CacheIsCurrent'
    BY <2>1 DEF SearchInv, CacheIsCurrent, MatchingLines, NbLines
  <2> QED
    BY <2>7, <2>8, <2>9, <2>10, <2>11 DEF SessionInv, WorkInv
<1> QED
  BY <1>1, <1>2

\* startRun() returns from the Background Run.
LEMMA RunBeginsKeeps ==
    ASSUME SearchInv, RunBegins
    PROVE  SessionInv' /\ WorkInv' /\ CacheIsCurrent'
<1>1. /\ Notify(results) /\ owner = "starting" /\ owner' = "free" /\ job = NoJob /\ job' = waiting
      /\ UNCHANGED <<state, changedUnder, cacheKey, cache, lines, untold, current, data, blocks, limiter, picked>>
  BY DEF RunBegins, fileVars
<1>2. /\ Held' = Held /\ results'.matches = Held
      /\ results'.arrived = {} /\ results'.stale = {}
      /\ results'.rechecked = results.rechecked /\ results'.processed = results.processed
  BY <1>1, NotifyHolds
<1>3. /\ Searched' = Searched /\ CachesRun' = CachesRun /\ Proper' = Proper
      /\ SearchedEnd' = SearchedEnd /\ InRange' = InRange /\ Truth' = Truth
  BY <1>1, <1>2 DEF Searched, CachesRun, Proper, SearchedEnd, InRange, Truth, MatchingLines, NbLines
<1>4. Trusted' = Trusted
  BY <1>1, <1>3 DEF Trusted
<1>5. Held \subseteq results.matches \cup results.arrived /\ results.arrived = {}
  BY <1>1 DEF Held, SearchInv, FollowInv
<1>6. waiting.pc = "begun" /\ waiting \in JobType
  BY <1>1 DEF SearchInv, AwaitInv, OwnerInv, TypeInv, OwnerTypes
<1>7. DecidedInv' /\ RangeInv'
  BY <1>1, <1>2, <1>3, <1>4, <1>5, StaysDecided DEF SearchInv, SessionInv
<1>8. DataInv' /\ BlockInv'
  <2>1. job' # NoJob /\ job'.pc = "begun"
    BY <1>1, <1>6, SearchAssumption DEF JobType, NoJob
  <2> QED
    BY <2>1 DEF DataInv, BlockInv
<1>9. BegunInv'
  <2>1. NextJob = waiting /\ NextJob' = waiting /\ Quiet' = Quiet
    BY <1>1, <1>2 DEF NextJob, Quiet
  <2> QED
    BY <1>1, <1>2, <1>3, <1>5, <2>1 DEF SearchInv, WorkInv, BegunInv
<1>10. ResetInv'
  BY <1>1, <1>2, <1>5 DEF SearchInv, SessionInv, ResetInv
<1>11. KeyInv'
  BY <1>1, <1>2, <1>3 DEF SearchInv, SessionInv, KeyInv, NbLines
<1>12. CacheIsCurrent'
  BY <1>1 DEF SearchInv, CacheIsCurrent, MatchingLines, NbLines
<1> QED
  BY <1>7, <1>8, <1>9, <1>10, <1>11, <1>12 DEF SessionInv, WorkInv

-----------------------------------------------------------------------------
(* Requests.                                                               *)

\* request() of no pattern, or of one that does not compile.
LEMMA RequestNoneKeeps ==
    ASSUME SearchInv, RequestInvalid \/ RequestIdle
    PROVE  SessionInv' /\ WorkInv' /\ CacheIsCurrent'
<1>1. /\ owner = "free" /\ owner' = "free"
      /\ UNCHANGED <<cache, lines, untold, current>>
  BY DEF RequestInvalid, RequestIdle, fileVars
<1>2. state'.phase \in {"Idle", "InvalidPattern"} /\ state'.fromCache = FALSE
  <2>1. Idle \in StateType /\ Idle.phase = "Idle" /\ Idle.fromCache = FALSE
    BY SearchAssumption DEF Idle, StateType, Phases
  <2>2. ASSUME NEW start, NEW end, state' = [Idle EXCEPT !.phase = "InvalidPattern", !.start = start, !.end = end]
        PROVE  state'.phase = "InvalidPattern" /\ state'.fromCache = FALSE
    BY <2>1, <2>2 DEF StateType
  <2> QED
    BY <2>1, <2>2 DEF RequestInvalid, RequestIdle
<1>3. ~Searched' /\ ~Awaited' /\ ~CachesRun' /\ ~Proper' /\ Trusted' = {}
  BY <1>2 DEF Searched, Awaited, CachesRun, Proper, Trusted
<1>4. SessionInv'
  BY <1>1, <1>2, <1>3 DEF SearchInv, SessionInv, DecidedInv, RangeInv, ResetInv, KeyInv
<1>5. WorkInv'
  BY <1>1, <1>3 DEF WorkInv, DataInv, BlockInv, BegunInv
<1>6. CacheIsCurrent'
  BY <1>1 DEF SearchInv, CacheIsCurrent, MatchingLines, NbLines
<1> QED
  BY <1>4, <1>5, <1>6

\* request() that the cache answers.
LEMMA RequestCachedKeeps ==
    ASSUME SearchInv, RequestCached
    PROVE  SessionInv' /\ WorkInv' /\ CacheIsCurrent'
<1>1. PICK pattern \in Patterns, range \in Requestable :
          /\ InCache(Key(pattern, range))
          /\ state' = [phase |-> "Complete", pattern |-> pattern, start |-> range[1],
                       end |-> range[2], fromCache |-> TRUE,
                       count |-> Cardinality(cache[Key(pattern, range)])]
          /\ cacheKey' = Key(pattern, range)
          /\ Notify([Reset(results) EXCEPT !.matches = cache[Key(pattern, range)], !.processed = range[2]])
  BY DEF RequestCached
<1>2. /\ owner = "free" /\ owner' = "free" /\ current' = (untold = AllTold)
      /\ UNCHANGED <<cache, lines, untold>>
  BY DEF RequestCached, fileVars
<1>3. /\ range \in Ranges /\ range[1] \in Nat /\ range[2] \in Nat /\ range[2] \in 0..MaxLines
      /\ Key(pattern, range) \in DOMAIN cache /\ cache[Key(pattern, range)] \in SUBSET Lines
      /\ untold \in Nat /\ MaxLines \in Nat
  BY <1>1, RangeType, SearchAssumption, SearchTypes
  DEF Requestable, InCache, SearchInv, AwaitInv, TypeInv, IsCache
<1>4. state'.phase = "Complete" /\ state'.fromCache = TRUE
  BY <1>1
<1>5. /\ ~CachesRun' /\ ~Awaited' /\ Searched'
      /\ Truth' = MatchingLines(pattern, range[1], range[2])
      /\ InRange' = range[1]..(range[2] - 1) /\ RangeEnd' = Later(range[1], range[2])
  <2>1. state'.pattern = pattern /\ state'.start = range[1] /\ state'.end = range[2]
    BY <1>1
  <2> QED
    BY <1>2, <1>4, <2>1 DEF CachesRun, Awaited, Searched, Truth, MatchingLines, NbLines, InRange, RangeEnd
<1>6. /\ results'.matches = cache[Key(pattern, range)] /\ results'.arrived = {} /\ results'.stale = {}
      /\ results'.rechecked = NoLine /\ results'.processed = range[2]
  <2> DEFINE r == [Reset(results) EXCEPT !.matches = cache[Key(pattern, range)], !.processed = range[2]]
  <2>1. results \in ResultsType
    BY DEF SearchInv, AwaitInv, TypeInv, OwnerTypes
  <2>2. Reset(results) \in ResultsType
    BY <2>1, ResetFields
  <2>3. /\ r \in ResultsType /\ r.matches = cache[Key(pattern, range)]
        /\ r.arrived = Reset(results).arrived /\ r.stale = Reset(results).stale
        /\ r.rechecked = Reset(results).rechecked /\ r.processed = range[2]
    BY ONLY <1>3, <2>2 DEF ResultsType
  <2>4. Notify(r)
    BY <1>1
  <2> HIDE DEF r
  <2>5. /\ results'.matches = (r.matches \ r.stale) \cup r.arrived
        /\ results'.arrived = {} /\ results'.stale = {}
        /\ results'.rechecked = r.rechecked /\ results'.processed = r.processed
    BY <2>3, <2>4, NotifyFields
  <2> QED
    BY <2>1, <2>3, <2>5, ResetFields
<1>7. Held' = cache[Key(pattern, range)]
  BY <1>6 DEF Held
<1>8. /\ Truth' \subseteq InRange' /\ range[2] <= RangeEnd'
      /\ current' => cache[Key(pattern, range)] = Truth'
  <2>1. MatchingLines(pattern, range[1], range[2]) \subseteq range[1]..(range[2] - 1)
    BY <1>3, MatchingType DEF SearchInv, AwaitInv, TypeInv, RunTypes
  <2>2. /\ Key(pattern, range).pattern = pattern /\ Key(pattern, range).start = range[1]
        /\ Key(pattern, range).end = range[2]
    BY DEF Key
  <2>3. current' => cache[Key(pattern, range)] = MatchingLines(pattern, range[1], range[2])
    <3>1. PICK key \in DOMAIN cache : key = Key(pattern, range)
      BY <1>3
    <3>2. key.end <= untold => cache[key] = MatchingLines(key.pattern, key.start, key.end)
      BY DEF SearchInv, CacheIsCurrent
    <3>3. current' => range[2] <= untold
      <4>1. current' => untold = MaxLines
        BY <1>2, Zenon DEF AllTold
      <4>2. range[2] <= MaxLines
        BY <1>3
      <4> QED
        BY <4>1, <4>2
    <3>4. cache[key] = cache[Key(pattern, range)] /\ key.pattern = pattern /\ key.start = range[1]
          /\ key.end = range[2]
      BY <2>2, <3>1
    <3> QED
      BY <3>2, <3>3, <3>4
  <2> QED
    BY <1>3, <1>5, <2>1, <2>3 DEF Later
<1>9. \A line \in Trusted' : current'
  BY <1>4, <1>5 DEF Trusted
<1>10. DecidedInv'
  BY <1>6, <1>7, <1>8, <1>9 DEF DecidedInv
<1>11. RangeInv'
  BY <1>4, <1>6, <1>8 DEF RangeInv
<1>12. ResetInv'
  BY <1>2, <1>4 DEF ResetInv
<1>13. KeyInv'
  <2>1. current' => range[2] <= NbLines'
    BY <1>1, <1>2 DEF Requestable, NbLines
  <2>2. state'.end = range[2]
    BY <1>1
  <2> QED
    BY <1>2, <1>4, <1>5, <1>6, <2>1, <2>2 DEF KeyInv
<1>14. WorkInv'
  BY <1>2, <1>5 DEF WorkInv, DataInv, BlockInv, BegunInv
<1>15. CacheIsCurrent'
  BY <1>2 DEF SearchInv, CacheIsCurrent, MatchingLines, NbLines
<1> QED
  BY <1>10, <1>11, <1>12, <1>13, <1>14, <1>15 DEF SessionInv

\* What startRun() does to what the invariant is about.
LEMMA StartRunFields ==
    ASSUME SearchInv, NEW newJob \in JobType, NEW newResults \in ResultsType, NEW newKey,
           StartRun(newJob, newResults, newKey), owner = "free"
    PROVE  /\ owner' = "starting" /\ waiting' = newJob /\ results' = newResults /\ cacheKey' = newKey
           /\ state'.phase = "Running" /\ state'.pattern = newJob.pattern /\ state'.start = newJob.start
           /\ state'.end = newJob.end /\ state'.fromCache = FALSE /\ changedUnder' = FALSE
           /\ current' = (untold = AllTold)
           /\ UNCHANGED <<cache, lines, untold, data, job, blocks, limiter, picked>>
           /\ ~Awaited' /\ Searched' /\ NextJob' = newJob /\ NbLines' = NbLines
           /\ InRange' = newJob.start..(newJob.end - 1) /\ RangeEnd' = Later(newJob.start, newJob.end)
           /\ Truth' = MatchingLines(newJob.pattern, newJob.start, newJob.end)
           /\ SearchedEnd' = newJob.end /\ CachesRun' = (newKey # NoKey)
           /\ DataInv' /\ BlockInv' /\ CacheIsCurrent'
<1>1. /\ owner' = "starting" /\ waiting' = newJob /\ results' = newResults /\ cacheKey' = newKey
      /\ state' = [phase |-> "Running", pattern |-> newJob.pattern, start |-> newJob.start,
                   end |-> newJob.end, fromCache |-> FALSE,
                   count |-> Cardinality(newResults.matches)]
      /\ changedUnder' = FALSE /\ current' = (untold = AllTold)
      /\ UNCHANGED <<cache, lines, untold, data, job, blocks, limiter, picked>>
  BY DEF StartRun, fileVars, opVars
<1>2. /\ state'.phase = "Running" /\ state'.pattern = newJob.pattern /\ state'.start = newJob.start
      /\ state'.end = newJob.end /\ state'.fromCache = FALSE
  BY <1>1
<1>3. /\ ~Awaited' /\ Searched' /\ NextJob' = newJob /\ NbLines' = NbLines
      /\ InRange' = newJob.start..(newJob.end - 1) /\ RangeEnd' = Later(newJob.start, newJob.end)
      /\ Truth' = MatchingLines(newJob.pattern, newJob.start, newJob.end)
      /\ SearchedEnd' = newJob.end /\ CachesRun' = (newKey # NoKey)
  BY <1>1, <1>2 DEF Awaited, Searched, NextJob, NbLines, InRange, RangeEnd, Truth, MatchingLines, SearchedEnd,
                    CachesRun
<1>4. DataInv' /\ BlockInv'
  BY <1>3 DEF DataInv, BlockInv
<1>5. CacheIsCurrent'
  BY <1>1 DEF SearchInv, CacheIsCurrent, MatchingLines, NbLines
<1> QED
  BY <1>1, <1>2, <1>3, <1>4, <1>5

\* request() that starts a run over.
LEMMA RequestFreshKeeps ==
    ASSUME SearchInv, RequestFresh
    PROVE  SessionInv' /\ WorkInv' /\ CacheIsCurrent'
<1>1. PICK pattern \in Patterns, range \in Requestable :
          StartRun(FullJob(lastRun + 1, pattern, range[1], range[2]), Reset(results), Key(pattern, range))
  BY DEF RequestFresh
<1> DEFINE newJob == FullJob(lastRun + 1, pattern, range[1], range[2])
<1>2. /\ range \in Ranges /\ range[1] \in 0..MaxLines /\ range[2] \in 0..MaxLines
      /\ range[1] \in Nat /\ range[2] \in Nat /\ lastRun + 1 \in 1..MaxRuns /\ 0 \in 0..MaxLines
      /\ results \in ResultsType
  BY <1>1, RangeType, SearchAssumption
  DEF Requestable, StartRun, SearchInv, AwaitInv, TypeInv, OwnerTypes
<1>3. /\ newJob.full = TRUE /\ newJob.pattern = pattern /\ newJob.start = range[1] /\ newJob.end = range[2]
  BY DEF FullJob
<1>4. newJob \in JobType
  BY <1>2 DEF FullJob, JobType
<1>5. /\ Reset(results) \in ResultsType
      /\ Reset(results).matches = {} /\ Reset(results).arrived = {} /\ Reset(results).stale = {}
      /\ Reset(results).rechecked = NoLine /\ Reset(results).processed = 0
  BY <1>2, ResetFields
<1>6. owner = "free"
  BY DEF RequestFresh
<1> HIDE DEF newJob
<1>7. StartRun(newJob, Reset(results), Key(pattern, range))
  BY <1>1 DEF newJob
<1>8. /\ owner' = "starting" /\ waiting' = newJob /\ results' = Reset(results)
      /\ cacheKey' = Key(pattern, range)
      /\ state'.phase = "Running" /\ state'.pattern = pattern /\ state'.start = range[1]
      /\ state'.end = range[2] /\ state'.fromCache = FALSE
      /\ current' = (untold = AllTold) /\ untold' = untold
      /\ ~Awaited' /\ Searched' /\ NextJob' = newJob /\ NbLines' = NbLines
      /\ InRange' = range[1]..(range[2] - 1) /\ RangeEnd' = Later(range[1], range[2])
      /\ Truth' = MatchingLines(pattern, range[1], range[2])
      /\ DataInv' /\ BlockInv' /\ CacheIsCurrent'
  BY <1>3, <1>4, <1>5, <1>6, <1>7, StartRunFields
<1>9. Held' = {}
  BY <1>5, <1>8 DEF Held
<1>10. DecidedInv'
  <2>1. \A line \in Trusted' : line \in Nat /\ ~(line < 0)
    BY <1>2, <1>8 DEF Trusted
  <2> QED
    BY <1>5, <1>8, <1>9, <2>1 DEF DecidedInv
<1>11. RangeInv'
  BY <1>2, <1>5, <1>8 DEF RangeInv, Later
<1>12. ResetInv'
  BY <1>5, <1>8 DEF ResetInv
<1>13. KeyInv'
  <2>1. Key(pattern, range) = Key(pattern, <<range[1], range[2]>>)
    BY DEF Key
  <2>2. current' => range[2] <= NbLines
    BY <1>1, <1>8 DEF Requestable
  <2> QED
    BY <1>5, <1>8, <2>1, <2>2, Zenon DEF KeyInv
<1>14. BegunInv'
  BY <1>3, <1>8 DEF BegunInv
<1> QED
  BY <1>8, <1>10, <1>11, <1>12, <1>13, <1>14 DEF SessionInv, WorkInv

\* request() that continues: of what was held, only the last Log Line searched
\* may be wrong, and that one is searched again.
LEMMA RequestContinuedKeeps ==
    ASSUME SearchInv, RequestContinued
    PROVE  SessionInv' /\ WorkInv' /\ CacheIsCurrent'
<1>1. PICK pattern \in Patterns, range \in Requestable :
          /\ Continues(pattern, range)
          /\ ContinueUnsettled \/ Settled
          /\ StartRun(UpdateJob(lastRun + 1, pattern, range[1], range[2], results.processed),
                      Recheck(Publish(results), range[1]), NoKey)
  BY DEF RequestContinued
<1> DEFINE newJob == UpdateJob(lastRun + 1, pattern, range[1], range[2], results.processed)
           newResults == Recheck(Publish(results), range[1])
           last == results.processed - 1
<1>a. /\ TypeInv /\ owner = "free"
  BY DEF SearchInv, AwaitInv, RequestContinued
<1>2. /\ range \in Ranges /\ range[1] \in 0..MaxLines /\ range[2] \in 0..MaxLines
      /\ range[1] \in Nat /\ range[2] \in Nat /\ lastRun + 1 \in 1..MaxRuns
      /\ results.processed \in 0..MaxLines /\ results.processed \in Nat
  BY <1>1, <1>a, RangeType, SearchAssumption
  DEF Requestable, StartRun, TypeInv, OwnerTypes, ResultsType
<1>3. /\ newJob \in JobType /\ newJob.full = FALSE /\ newJob.pattern = pattern
      /\ newJob.start = range[1] /\ newJob.end = range[2] /\ newJob.position = results.processed
  <2>1. PICK id \in 1..MaxRuns, start \in 0..MaxLines, end \in 0..MaxLines, position \in 0..MaxLines :
            id = lastRun + 1 /\ start = range[1] /\ end = range[2] /\ position = results.processed
    BY <1>2
  <2>2. UpdateJob(id, pattern, start, end, position) \in JobType
    BY JobTypes
  <2>3. LET update == UpdateJob(id, pattern, start, end, position) IN
        /\ update.full = FALSE /\ update.pattern = pattern /\ update.start = start /\ update.end = end
        /\ update.position = position
    BY DEF UpdateJob, FullJob
  <2> QED
    BY <2>1, <2>2, <2>3
<1>4. /\ Searched /\ ~state.fromCache /\ ~changedUnder
      /\ pattern = state.pattern /\ range[1] = state.start /\ range[2] > state.end
  BY <1>1 DEF Continues, Searched
<1>5. /\ newResults \in ResultsType /\ newResults.matches = Held
      /\ newResults.arrived = {} /\ newResults.stale = {}
      /\ newResults.processed = results.processed
      /\ newResults.rechecked = IF results.processed > state.start THEN last ELSE NoLine
  <2>1. results \in ResultsType /\ Tellable(results)
    BY DEF SearchInv, AwaitInv, TypeInv, OwnerTypes, FollowInv
  <2>2. /\ Publish(results) \in ResultsType
        /\ Publish(results).matches = (results.matches \ results.stale) \cup results.arrived
        /\ Publish(results).arrived = {} /\ Publish(results).stale = {}
        /\ Publish(results).processed = results.processed
    BY <2>1, PublishFields
  <2>3. (results.matches \ results.stale) \cup results.arrived = Held
    BY <2>1 DEF Held, Tellable
  <2>4. PICK published \in ResultsType, start \in Nat : published = Publish(results) /\ start = range[1]
    BY <1>2, <2>2
  <2>5. /\ Recheck(published, start) \in ResultsType
        /\ Recheck(published, start).matches = published.matches
        /\ Recheck(published, start).arrived = published.arrived
        /\ Recheck(published, start).stale = published.stale
        /\ Recheck(published, start).processed = published.processed
        /\ Recheck(published, start).rechecked =
              IF published.processed > start THEN published.processed - 1 ELSE NoLine
    BY RecheckFields
  <2> QED
    BY <1>4, <2>2, <2>3, <2>4, <2>5
<1> HIDE DEF newJob, newResults
<1>6. StartRun(newJob, newResults, NoKey)
  BY <1>1 DEF newJob, newResults
<1>7. /\ owner' = "starting" /\ waiting' = newJob /\ results' = newResults
      /\ state'.phase = "Running" /\ state'.pattern = pattern /\ state'.start = range[1]
      /\ state'.end = range[2] /\ state'.fromCache = FALSE /\ changedUnder' = FALSE
      /\ current' = (untold = AllTold)
      /\ UNCHANGED <<cache, lines, untold, data, job, blocks, limiter, picked>>
      /\ ~Awaited' /\ Searched' /\ NextJob' = newJob /\ NbLines' = NbLines
      /\ InRange' = range[1]..(range[2] - 1) /\ RangeEnd' = Later(range[1], range[2])
      /\ Truth' = MatchingLines(pattern, range[1], range[2])
      /\ SearchedEnd' = range[2] /\ ~CachesRun'
      /\ DataInv' /\ BlockInv' /\ CacheIsCurrent'
  BY <1>3, <1>5, <1>6, <1>a, StartRunFields
<1>8. ResetInv'
  BY <1>3, <1>7 DEF ResetInv
<1>9. KeyInv'
  <2>1. current' => range[2] <= NbLines
    BY <1>1, <1>7 DEF Requestable
  <2> QED
    BY <1>7, <2>1, Zenon DEF KeyInv
<1>10. CASE ContinueUnsettled
  <2>1. ~Proper' /\ Trusted' = {}
    BY <1>7, <1>10 DEF Proper, Trusted
  <2>2. DecidedInv' /\ RangeInv'
    BY <2>1 DEF DecidedInv, RangeInv
  <2>3. BegunInv'
    BY <1>3, <1>7, <1>10 DEF BegunInv
  <2> QED
    BY <1>7, <1>8, <1>9, <2>2, <2>3 DEF SessionInv, WorkInv
<1>11. CASE ~ContinueUnsettled
  <2>1. Proper /\ Settled
    BY <1>1, <1>4, <1>11 DEF Proper
  <2>2. /\ results.matches \cup results.arrived \subseteq InRange
        /\ results.processed <= RangeEnd
        /\ results.rechecked \in InRange \cup {NoLine}
    BY <1>4, <2>1 DEF SearchInv, SessionInv, RangeInv
  <2>3. /\ Held' = Held /\ Held \subseteq InRange
        /\ results'.matches = Held /\ results'.arrived = {} /\ results'.stale = {}
        /\ results'.processed = results.processed
        /\ results'.rechecked = IF results.processed > state.start THEN last ELSE NoLine
    BY <1>5, <1>7, <2>2 DEF Held
  <2>4. \/ /\ picked = NoBlock /\ data.found = {} /\ data.until <= results.processed
           /\ \A line \in results.matches \cup results.arrived : line < results.processed
           /\ results.rechecked \in {NoLine, last}
        \/ /\ job # NoJob /\ job.pc = "begun" /\ job.full
           /\ Held = {} /\ results.processed = 0 /\ results.rechecked = NoLine
    <3>1. CASE job.id # 0 /\ job.pc = "begun" /\ job.full
      <4>1. job # NoJob
        BY <3>1 DEF NoJob
      <4>2. /\ results.matches = {} /\ results.arrived = {} /\ results.processed = 0
            /\ results.rechecked = NoLine
        BY <1>a, <1>4, <3>1, <4>1 DEF SearchInv, SessionInv, ResetInv
      <4> QED
        BY <3>1, <4>1, <4>2 DEF Held
    <3>2. CASE ~(job.id # 0 /\ job.pc = "begun" /\ job.full)
      BY <2>1, <3>2 DEF Settled
    <3> QED
      BY <3>1, <3>2
  <2>5. /\ state.start \in Nat /\ state.end \in Nat /\ RangeEnd = Later(state.start, state.end)
        /\ untold \in Nat /\ MaxLines \in Nat /\ untold <= MaxLines
        /\ InRange = state.start..(state.end - 1) /\ state.end <= MaxLines
    BY <1>a, SearchTypes DEF RangeEnd, InRange
  <2>6. \A line \in Held : line < results.processed
    BY <2>4 DEF Held
  <2>7. results.processed > state.start =>
            /\ results.processed <= state.end /\ last \in Nat /\ last < state.end /\ last >= state.start
    BY <1>2, <2>2, <2>5 DEF Later
  \* What was searched before the last Log Line was trusted.
  <2>8. ASSUME NEW line \in Trusted', line < last
        PROVE  line \in Trusted /\ line \in InRange /\ line \in Nat
    <3>1. line \in Nat /\ state.start <= line
      BY <1>4, <1>7, <2>5 DEF Trusted
    <3>2. results.processed > state.start
      BY <1>2, <2>5, <2>8, <3>1
    <3>3. line \in InRange /\ line < state.end - 1 /\ line < MaxLines
      BY <2>5, <2>7, <2>8, <3>1, <3>2
    <3>4. line < untold
      <4>1. CASE current'
        <5>1. untold = MaxLines
          BY <1>7, <4>1, Zenon DEF AllTold
        <5> QED
          BY <3>3, <5>1
      <4>2. CASE ~current'
        BY <1>7, <4>2 DEF Trusted
      <4> QED
        BY <4>1, <4>2
    <3>5. line < SearchedEnd - 1
      BY <2>5, <2>7, <2>8, <3>2, <3>3 DEF SearchedEnd
    <3> QED
      BY <1>4, <1>11, <3>1, <3>3, <3>4, <3>5 DEF Trusted
  \* What matches there is what matched there before.
  <2>9. ASSUME NEW line \in InRange
        PROVE  line \in Truth' <=> line \in Truth
    <3>1. lines \in Seq(Readings) /\ Len(lines) <= MaxLines
      BY <1>a, SearchTypes
    <3>2. line \in Nat /\ state.start <= line /\ line < state.end /\ line < range[2]
      BY <1>2, <1>4, <2>5
    <3>3. line \in Truth <=> line < NbLines /\ state.pattern \in lines[line + 1]
      BY <2>5, <3>1, <3>2, MatchingType DEF Truth
    <3>4. line \in Truth' <=> line < NbLines /\ pattern \in lines[line + 1]
      BY <1>2, <1>4, <1>7, <3>1, <3>2, MatchingType
    <3> QED
      BY <1>4, <3>3, <3>4
  <2>10. DecidedInv'
    <3> SUFFICES ASSUME NEW line \in Trusted'
                 PROVE  /\ line \in Held' \ {results'.rechecked} => line \in Truth'
                        /\ line \in Truth' /\ line < results'.processed =>
                              line \in Held' \cup {results'.rechecked}
                        /\ line \in results'.stale => line \notin Truth'
      BY DEF DecidedInv
    <3>1. line \in Nat /\ state.start <= line
      BY <1>4, <1>7, <2>5 DEF Trusted
    <3>2. CASE line < last
      <4>1. line \in Trusted /\ line \in InRange
        BY <2>8, <3>2
      <4>2. line # results.rechecked
        BY <1>2, <2>4, <3>1, <3>2 DEF NoLine
      <4>3. /\ line \in Held \ {results.rechecked} => line \in Truth
            /\ line \in Truth /\ line < results.processed => line \in Held \cup {results.rechecked}
        BY <4>1 DEF SearchInv, SessionInv, DecidedInv
      <4>4. line < results.processed
        BY <1>2, <3>1, <3>2
      <4> QED
        BY <2>3, <2>9, <4>1, <4>2, <4>3, <4>4
    <3>3. CASE ~(line < last)
      <4>1. line < results.processed => line = last /\ results.processed > state.start
        BY <1>2, <2>5, <3>1, <3>3
      <4> QED
        BY <2>3, <2>6, <4>1
    <3> QED
      BY <3>2, <3>3
  <2>11. RangeInv'
    <3>1. InRange \subseteq InRange' /\ RangeEnd <= RangeEnd'
      BY <1>2, <1>4, <1>7, <2>5 DEF Later
    <3>2. results.processed <= RangeEnd'
      BY <1>2, <1>4, <1>7, <2>2, <2>5, <3>1 DEF Later
    <3>3. results'.rechecked \in InRange' \cup {NoLine}
      BY <1>2, <1>4, <1>7, <2>3, <2>5, <2>7
    <3> QED
      BY <2>3, <3>1, <3>2, <3>3 DEF RangeInv
  <2>12. BegunInv'
    <3>1. Quiet' \/ (owner' = "starting" /\ job' # NoJob /\ job'.pc = "begun" /\ job'.full)
      BY <1>7, <2>3, <2>4 DEF Quiet
    <3>2. /\ NextJob'.pattern = state'.pattern /\ NextJob'.start = state'.start /\ NextJob'.end = state'.end
          /\ ~state'.fromCache /\ ~CachesRun' /\ NextJob'.position = results'.processed
      BY <1>3, <1>7, <2>3
    <3>3. results'.rechecked =
              IF results'.processed > state'.start THEN results'.processed - 1 ELSE NoLine
      BY <1>4, <1>7, <2>3
    <3> QED
      BY <2>3, <2>6, <3>1, <3>2, <3>3 DEF BegunInv
  <2> QED
    BY <1>7, <1>8, <1>9, <2>10, <2>11, <2>12 DEF SessionInv, WorkInv
<1> QED
  BY <1>10, <1>11

-----------------------------------------------------------------------------
(* Reports of the run.                                                     *)

\* Whatever is awaited has searched, or has ended.
LEMMA AwaitedJob ==
    ASSUME SearchInv, NEW kinds, Handling(kinds)
    PROVE  /\ Awaited /\ Searched /\ ~state.fromCache
           /\ job = NoJob \/ (job # NoJob /\ job.pc = "searching")
           /\ "progress" \notin kinds => job = NoJob
<1>1. owner = "free" /\ state.phase = "Running" /\ searchId # 0
  BY HandlingRunning DEF SearchInv
<1>2. /\ job \in JobType \cup {NoJob} /\ reports \in Seq(ReportType) /\ reports # <<>>
      /\ Head(reports).id = searchId /\ Head(reports).kind \in kinds
  BY DEF Handling, IsAwaited, SearchInv, AwaitInv, TypeInv, RunTypes
<1>3. 1 \in DOMAIN reports /\ reports[1].id = searchId /\ reports[1].kind \in kinds
  BY <1>2
<1>4. searchId = lastRun /\ activeRun = lastRun /\ job.id \in {0, lastRun}
  BY <1>1 DEF SearchInv, AwaitInv, OwnerInv
<1>5. reports[1].id = job.id => reports[1].kind = "progress" /\ job.pc # "begun"
  BY <1>3 DEF SearchInv, AwaitInv, ReportsInv
<1>6. ASSUME job # NoJob
      PROVE  job.pc = "searching" /\ "progress" \in kinds
  <2>1. job.id # 0 /\ job.pc \in {"begun", "searching", "skipped"}
    BY <1>2, <1>6, SearchAssumption DEF JobType
  <2>2. job.id = activeRun /\ reports[1].id = job.id
    BY <1>3, <1>4, <2>1
  <2>3. job.pc # "skipped"
    BY <2>1, <2>2 DEF SearchInv, AwaitInv, OwnerInv
  <2> QED
    BY <1>3, <1>5, <2>1, <2>2, <2>3
<1>7. ~state.fromCache
  BY <1>1 DEF SearchInv, SessionInv, KeyInv
<1> QED
  BY <1>1, <1>6, <1>7 DEF Awaited, Searched

\* takeCurrentResults() and collectStaleMatch(): what the run found is taken,
\* and the Log Line searched again decided, once the run has passed it.
LEMMA ApplyDecides ==
    ASSUME SearchInv, Awaited, Proper, ~state.fromCache,
           job = NoJob \/ job.pc = "searching"
    PROVE  LET r == Apply(results)
               held == (r.matches \cup r.arrived) \ r.stale
           IN /\ r.matches \cup r.arrived \subseteq InRange
              /\ r.processed = data.until /\ r.processed <= RangeEnd
              /\ r.rechecked \in InRange \cup {NoLine}
              /\ \A line \in Trusted :
                    /\ line \in held \ {r.rechecked} => line \in Truth
                    /\ line \in Truth /\ line < r.processed => line \in held /\ line # r.rechecked
                    /\ line \in r.stale => line \notin Truth
                    /\ line \in Truth /\ line \in data.found => line \in held
                    /\ line \in Truth /\ line \in Held /\ line # results.rechecked => line \in held
<1> DEFINE r == Apply(results)
           held == (r.matches \cup r.arrived) \ r.stale
           kept == Collect(results)
<1>a. TypeInv /\ results \in ResultsType /\ IsData(data)
  BY DEF SearchInv, AwaitInv, TypeInv, OwnerTypes, RunTypes
<1>b. /\ results.rechecked \in Int /\ data.until \in Nat /\ NoLine = -1
      /\ \A line \in Trusted : line \in Nat
  BY <1>a, SearchTypes
<1>1. /\ r.matches = results.matches /\ r.arrived = kept.arrived \cup (data.found \ results.matches)
      /\ r.stale = kept.stale /\ r.rechecked = kept.rechecked /\ r.processed = data.until
  BY <1>a, ApplyFields
<1>2. /\ data.found \subseteq InRange /\ data.until <= RangeEnd
      /\ \A line \in Trusted :
            /\ line \in data.found => line \in Truth
            /\ line \in Truth /\ line < data.until =>
                  line \in data.found \/ (line # results.rechecked /\ line \in Held)
  BY DEF SearchInv, WorkInv, DataInv
<1>3. /\ results.matches \cup results.arrived \subseteq InRange
      /\ results.rechecked \in InRange \cup {NoLine}
  BY DEF SearchInv, SessionInv, RangeInv
<1>4. \A line \in Trusted :
         /\ line \in Held \ {results.rechecked} => line \in Truth
         /\ line \in results.stale => line \notin Truth
  BY DEF SearchInv, SessionInv, DecidedInv
<1> HIDE DEF r, kept
<1>5. CASE results.rechecked = NoLine \/ data.until <= results.rechecked
  <2>1. /\ kept.arrived = results.arrived /\ kept.stale = results.stale
        /\ kept.rechecked = results.rechecked
    BY <1>a, <1>5, CollectFields DEF kept
  <2>2. results.matches \cup r.arrived \subseteq InRange /\ r.rechecked \in InRange \cup {NoLine}
    BY <1>1, <1>2, <1>3, <2>1
  <2>3. ASSUME NEW line \in Trusted
        PROVE  /\ line \in held \ {r.rechecked} => line \in Truth
               /\ line \in Truth /\ line < r.processed => line \in held /\ line # r.rechecked
               /\ line \in r.stale => line \notin Truth
               /\ line \in Truth /\ line \in data.found => line \in held
               /\ line \in Truth /\ line \in Held => line \in held
    <3>1. held = Held \cup ((data.found \ results.matches) \ results.stale)
      BY <1>1, <2>1 DEF Held
    <3>2. line \in Truth /\ line \in data.found => line \in held
      BY <1>1, <1>4, <2>1
    <3>3. line < r.processed => line # r.rechecked
      BY <1>b, <1>1, <1>5, <2>1
    <3> QED
      BY <1>1, <1>2, <1>4, <2>1, <3>1, <3>2, <3>3
  <2> QED
    BY <1>1, <1>2, <2>2, <2>3 DEF r
<1>6. CASE ~(results.rechecked = NoLine \/ data.until <= results.rechecked)
  <2>1. /\ kept.rechecked = NoLine
        /\ results.rechecked \in data.found =>
              kept.stale = results.stale /\ kept.arrived = results.arrived
        /\ results.rechecked \notin data.found =>
              /\ kept.stale = results.stale \cup ({results.rechecked} \cap results.matches)
              /\ kept.arrived = results.arrived \ {results.rechecked}
    BY <1>a, <1>6, CollectFields DEF kept
  <2>2. results.matches \cup r.arrived \subseteq InRange /\ r.rechecked = NoLine
    BY <1>1, <1>2, <1>3, <2>1
  <2>3. ASSUME NEW line \in Trusted
        PROVE  /\ line \in held => line \in Truth
               /\ line \in Truth /\ line < r.processed => line \in held /\ line # NoLine
               /\ line \in r.stale => line \notin Truth
               /\ line \in Truth /\ line \in data.found => line \in held
               /\ line \in Truth /\ line \in Held /\ line # results.rechecked => line \in held
    <3>1. line # NoLine
      BY <1>b
    <3>2. CASE line # results.rechecked
      <4>1. line \in held <=> line \in Held \/ (line \in data.found /\ line \notin results.stale /\ line \notin results.matches)
        BY <1>1, <2>1, <3>2 DEF Held
      <4>2. line \in r.stale <=> line \in results.stale
        BY <1>1, <2>1, <3>2
      <4>3. line \in Truth /\ line \in data.found => line \in held
        BY <1>1, <1>4, <4>1, <4>2 DEF Held
      <4> QED
        BY <1>1, <1>2, <1>4, <3>1, <3>2, <4>1, <4>2, <4>3
    <3>3. CASE line = results.rechecked
      <4>1. line < data.until
        BY <1>b, <1>6, <3>3
      <4>2. line \in Truth <=> line \in data.found
        BY <1>2, <3>3, <4>1
      <4>3. line \in r.stale => line \notin Truth
        BY <1>1, <1>4, <2>1, <3>3, <4>2
      <4>4. line \in held <=> line \in data.found
        BY <1>1, <1>4, <2>1, <3>3, <4>2
      <4> QED
        BY <3>1, <3>3, <4>2, <4>3, <4>4
    <3> QED
      BY <3>2, <3>3
  <2> QED
    BY <1>1, <1>2, <2>2, <2>3 DEF r
<1> QED
  BY <1>5, <1>6

\* A progress report: what the run found so far is taken.
LEMMA SearchProgressedKeeps ==
    ASSUME SearchInv, SearchProgressed
    PROVE  SessionInv' /\ WorkInv' /\ CacheIsCurrent'
<1> DEFINE r == Apply(results)
           held == (r.matches \cup r.arrived) \ r.stale
<1>1. Handling({"progress"})
  BY DEF SearchProgressed
<1>2. /\ Awaited /\ Searched /\ ~state.fromCache
      /\ job = NoJob \/ (job # NoJob /\ job.pc = "searching")
  BY <1>1, AwaitedJob
<1>a. /\ TypeInv /\ results \in ResultsType /\ IsData(data) /\ state \in StateType /\ data.until \in Nat
      /\ results.rechecked \in Int /\ NoLine = -1
      /\ \A line \in Trusted : line \in Nat
  BY SearchTypes DEF SearchInv, AwaitInv, TypeInv, OwnerTypes, RunTypes
<1>3. /\ results' = [r EXCEPT !.pending = TRUE]
      /\ state' = [state EXCEPT !.count = Count(r)]
      /\ data' = [data EXCEPT !.found = {}]
      /\ UNCHANGED <<owner, waiting, changedUnder, cacheKey, cache, lines, untold, current, job, blocks, limiter, picked>>
  BY DEF SearchProgressed, Handling, Taken, ownerVars, fileVars
<1>4. /\ results'.matches = r.matches /\ results'.arrived = r.arrived /\ results'.stale = r.stale
      /\ results'.rechecked = r.rechecked /\ results'.processed = r.processed
  <2>1. r \in ResultsType
    BY <1>a, ApplyFields
  <2> HIDE DEF r
  <2> QED
    BY ONLY <1>3, <2>1 DEF ResultsType
<1>5. /\ state'.phase = state.phase /\ state'.pattern = state.pattern /\ state'.start = state.start
      /\ state'.end = state.end /\ state'.fromCache = state.fromCache
  BY ONLY <1>3, <1>a DEF StateType
<1>6. data'.until = data.until /\ data'.ahead = data.ahead /\ data'.found = {}
  BY <1>a, <1>3 DEF IsData
<1>7. /\ Awaited' /\ CachesRun' = CachesRun /\ Proper' = Proper /\ Searched'
      /\ InRange' = InRange /\ RangeEnd' = RangeEnd /\ Truth' = Truth /\ SearchedEnd' = SearchedEnd
      /\ NbLines' = NbLines /\ InWork' = InWork
  BY <1>2, <1>3, <1>5 DEF Awaited, CachesRun, Proper, Searched, InRange, RangeEnd, Truth, MatchingLines, NbLines,
                         SearchedEnd, InWork
<1>8. Trusted' = Trusted /\ Held' = held
  BY <1>3, <1>4, <1>5, <1>7, <1>2 DEF Trusted, Held, Searched
<1>9. /\ r.rechecked = NoLine \/ (r.rechecked = results.rechecked /\ data.until <= results.rechecked)
      /\ r.processed = data.until
  BY <1>a, ApplyFields, CollectFields
<1>10. Proper =>
          /\ r.matches \cup r.arrived \subseteq InRange
          /\ r.processed <= RangeEnd
          /\ r.rechecked \in InRange \cup {NoLine}
          /\ \A line \in Trusted :
                /\ line \in held \ {r.rechecked} => line \in Truth
                /\ line \in Truth /\ line < r.processed => line \in held /\ line # r.rechecked
                /\ line \in r.stale => line \notin Truth
                /\ line \in Truth /\ line \in data.found => line \in held
                /\ line \in Truth /\ line \in Held /\ line # results.rechecked => line \in held
  BY <1>2, ApplyDecides
<1>11. \A line \in Trusted : Proper
  BY DEF Trusted, Proper
<1> HIDE DEF r, held
<1>12. DecidedInv' /\ RangeInv'
  BY <1>4, <1>7, <1>8, <1>10, <1>11 DEF DecidedInv, RangeInv
<1>13. DataInv'
  <2>1. Proper => data.until <= RangeEnd
    BY <1>9, <1>10
  <2> QED
    BY <1>4, <1>6, <1>7, <1>8, <1>9, <1>10, <2>1 DEF DataInv
<1>14. BlockInv'
  <2> SUFFICES ASSUME Proper, job # NoJob, job.pc = "searching"
               PROVE  BlockInv'
    BY <1>3, <1>7 DEF BlockInv
  <2>1. /\ job.pattern = state.pattern /\ job.end <= state.end
        /\ state.start <= job.next /\ job.next <= RangeEnd
        /\ state.start <= data.until /\ results.rechecked <= data.until
        /\ \A first \in DOMAIN data.ahead :
              /\ first > data.until /\ data.ahead[first] <= state.end
              /\ \A line \in Trusted :
                    first <= line /\ line < data.ahead[first] /\ line \in Truth => line \in Held \cup data.found
        /\ \A block \in InWork :
              /\ state.start <= block.first /\ block.end <= state.end
              /\ block.matches \subseteq block.first..(block.end - 1)
              /\ \A line \in Trusted :
                    block.first <= line /\ line < block.end => (line \in block.matches <=> line \in Truth)
    BY <1>2 DEF SearchInv, WorkInv, BlockInv
  <2>2. results'.rechecked <= data.until
    BY <1>4, <1>9, <1>a, <2>1
  <2>3. ASSUME NEW first \in DOMAIN data.ahead, NEW line \in Trusted,
               first <= line, line < data.ahead[first], line \in Truth
        PROVE  line \in held
    <3>1. first \in Nat /\ first > data.until /\ line \in Nat
      BY <1>a, <2>1, SearchAssumption DEF IsData, IsAhead, Lines
    <3>2. line # results.rechecked
      BY <1>a, <2>1, <2>3, <3>1
    <3>3. line \in Held \cup data.found
      BY <2>1, <2>3
    <3> QED
      BY <1>10, <2>3, <3>2, <3>3
  <2> QED
    BY <1>3, <1>5, <1>6, <1>7, <1>8, <2>1, <2>2, <2>3 DEF BlockInv
<1>15. BegunInv'
  BY <1>2, <1>3, <1>7 DEF BegunInv, Awaited, NoJob
<1>16. ResetInv'
  BY <1>2, <1>3 DEF ResetInv, Awaited
<1>17. KeyInv'
  <2>1. CachesRun => results.rechecked = NoLine
    BY DEF SearchInv, SessionInv, KeyInv
  <2>2. CachesRun => r.rechecked = NoLine
    BY <1>9, <2>1
  <2> QED
    BY <1>2, <1>3, <1>4, <1>5, <1>7, <2>2 DEF SearchInv, SessionInv, KeyInv, Awaited
<1>18. CacheIsCurrent'
  BY <1>3 DEF SearchInv, CacheIsCurrent, MatchingLines, NbLines
<1> QED
  BY <1>12, <1>13, <1>14, <1>15, <1>16, <1>17, <1>18 DEF SessionInv, WorkInv

\* A run that failed leaves nothing to promise.
LEMMA SearchFailedKeeps ==
    ASSUME SearchInv, SearchFailed
    PROVE  SessionInv' /\ WorkInv' /\ CacheIsCurrent'
<1>1. /\ owner = "free" /\ owner' = "free" /\ state' = [state EXCEPT !.phase = "Failed", !.count = 0]
      /\ UNCHANGED <<cache, lines, untold, current>>
  BY DEF SearchFailed, Handling, ownerVars, fileVars
<1>2. ~state.fromCache
  BY AwaitedJob DEF SearchFailed
<1>3. state'.phase = "Failed" /\ state'.fromCache = state.fromCache
  BY <1>1 DEF SearchInv, AwaitInv, TypeInv, OwnerTypes, StateType
<1>4. ~Searched' /\ ~Awaited' /\ ~CachesRun' /\ ~Proper' /\ Trusted' = {}
  BY <1>3 DEF Searched, Awaited, CachesRun, Proper, Trusted
<1>5. SessionInv'
  BY <1>1, <1>2, <1>3, <1>4 DEF SearchInv, SessionInv, DecidedInv, RangeInv, ResetInv, KeyInv
<1>6. WorkInv'
  BY <1>1, <1>4 DEF WorkInv, DataInv, BlockInv, BegunInv
<1>7. CacheIsCurrent'
  BY <1>1 DEF SearchInv, CacheIsCurrent, MatchingLines, NbLines
<1> QED
  BY <1>5, <1>6, <1>7

\* A run that returned: what it found is taken and told, and cached when it
\* was a fresh one over its whole range.
LEMMA SearchFinishedKeeps ==
    ASSUME SearchInv, SearchFinished
    PROVE  SessionInv' /\ WorkInv' /\ CacheIsCurrent'
<1> DEFINE r == Apply(results)
           held == (r.matches \cup r.arrived) \ r.stale
<1>1. Handling({"returned"})
  BY DEF SearchFinished
<1>2. Awaited /\ Searched /\ ~state.fromCache /\ job = NoJob
  BY <1>1, AwaitedJob
<1>a. /\ TypeInv /\ results \in ResultsType /\ IsData(data) /\ state \in StateType /\ data.until \in Nat
      /\ results.rechecked \in Int /\ NoLine = -1 /\ untold \in Nat
      /\ \A line \in Trusted : line \in Nat
  BY SearchTypes DEF SearchInv, AwaitInv, TypeInv, OwnerTypes, RunTypes
<1>3. /\ Notify(r)
      /\ state' = [state EXCEPT !.phase = "Complete", !.count = Count(r)]
      /\ owner = "free" /\ owner' = "free" /\ job' = NoJob
      /\ UNCHANGED <<changedUnder, cacheKey, lines, untold, current>>
      /\ IF Cacheable(r.processed) THEN UpdateCache(Publish(r).matches) ELSE UNCHANGED cache
  BY <1>2 DEF SearchFinished, Handling, ownerVars, fileVars
<1>4. r \in ResultsType /\ Tellable(r)
  <2>1. results.new = {} /\ results.removed = {} /\ Tellable(results)
    BY <1>3 DEF SearchInv, FollowInv
  <2> QED
    BY <1>a, <2>1, ApplyFields, ApplyTellable
<1>5. /\ results'.matches = held /\ results'.arrived = {} /\ results'.stale = {}
      /\ results'.rechecked = r.rechecked /\ results'.processed = r.processed
      /\ Publish(r).matches = held
  <2>1. /\ results'.matches = (r.matches \ r.stale) \cup r.arrived
        /\ results'.arrived = {} /\ results'.stale = {}
        /\ results'.rechecked = r.rechecked /\ results'.processed = r.processed
    BY <1>3, <1>4, NotifyFields
  <2>2. Publish(r).matches = (r.matches \ r.stale) \cup r.arrived
    BY <1>4, PublishFields
  <2>3. (r.matches \ r.stale) \cup r.arrived = held
    BY <1>4 DEF Tellable
  <2> QED
    BY <2>1, <2>2, <2>3
<1>6. /\ state'.phase = "Complete" /\ state'.pattern = state.pattern /\ state'.start = state.start
      /\ state'.end = state.end /\ state'.fromCache = state.fromCache
  BY ONLY <1>3, <1>a DEF StateType
<1>7. /\ ~Awaited' /\ ~CachesRun' /\ (Proper' => Proper) /\ Searched'
      /\ InRange' = InRange /\ RangeEnd' = RangeEnd /\ Truth' = Truth
      /\ SearchedEnd' = r.processed /\ SearchedEnd = state.end /\ NbLines' = NbLines
  BY <1>2, <1>3, <1>5, <1>6 DEF Awaited, CachesRun, Proper, Searched, InRange, RangeEnd, Truth, MatchingLines,
                               NbLines, SearchedEnd
<1>8. Held' = held
  BY <1>5 DEF Held
<1>9. /\ r.rechecked = NoLine \/ (r.rechecked = results.rechecked /\ data.until <= results.rechecked)
      /\ r.processed = data.until
  BY <1>a, ApplyFields, CollectFields
<1>10. Proper =>
          /\ r.matches \cup r.arrived \subseteq InRange
          /\ r.processed <= RangeEnd
          /\ r.rechecked \in InRange \cup {NoLine}
          /\ \A line \in Trusted :
                /\ line \in held \ {r.rechecked} => line \in Truth
                /\ line \in Truth /\ line < r.processed => line \in held /\ line # r.rechecked
                /\ line \in r.stale => line \notin Truth
  BY <1>2, ApplyDecides
<1> DEFINE matches == Publish(r).matches
<1>b. matches = held
  BY <1>5
<1> HIDE DEF r
<1>11. held \subseteq r.matches \cup r.arrived
  OBVIOUS
<1> HIDE DEF held, matches
<1>12. Trusted' \subseteq Trusted /\ \A line \in Trusted' : Proper
  <2> SUFFICES ASSUME NEW line \in Trusted' PROVE line \in Trusted /\ Proper
    OBVIOUS
  <2>1. /\ line \in InRange /\ ~ContinueUnsettled
        /\ \/ current
           \/ ~changedUnder /\ line < untold /\ line < r.processed - 1
    BY <1>3, <1>6, <1>7 DEF Trusted
  <2>2. Proper
    BY <1>2, <2>1 DEF Proper
  <2>3. line < r.processed - 1 => line < SearchedEnd - 1
    <3>1. /\ state.start \in Nat /\ state.end \in Nat /\ RangeEnd = Later(state.start, state.end)
          /\ line \in Nat /\ state.start <= line /\ line < state.end
      BY <1>a, <2>1, SearchTypes DEF RangeEnd
    <3>2. r.processed <= RangeEnd /\ r.processed \in Nat
      BY <1>9, <1>10, <1>a, <2>2
    <3>3. r.processed <= state.end \/ r.processed <= state.start
      BY <3>1, <3>2 DEF Later
    <3> QED
      BY <1>7, <3>1, <3>2, <3>3
  <2> QED
    BY <1>2, <2>1, <2>2, <2>3 DEF Trusted
<1>13. DecidedInv'
  BY <1>5, <1>7, <1>8, <1>10, <1>12 DEF DecidedInv
<1>14. RangeInv'
  BY <1>5, <1>7, <1>10, <1>11 DEF RangeInv
<1>15. WorkInv'
  BY <1>3, <1>7 DEF WorkInv, DataInv, BlockInv, BegunInv
<1>16. ResetInv'
  BY <1>3 DEF ResetInv
<1>17. KeyInv'
  <2>1. current => untold = AllTold /\ (Searched => state.end <= NbLines)
    BY DEF SearchInv, SessionInv, KeyInv
  <2> QED
    BY <1>2, <1>3, <1>5, <1>6, <1>7, <1>9, <2>1 DEF KeyInv
<1>18. CacheIsCurrent'
  <2>1. CASE UNCHANGED cache
    BY <1>3, <2>1 DEF SearchInv, CacheIsCurrent, MatchingLines, NbLines
  <2>2. CASE ~UNCHANGED cache
    <3> DEFINE filled == [key \in DOMAIN cache \cup {cacheKey} |->
                             IF key = cacheKey THEN matches ELSE cache[key]]
    <3>1. /\ r.processed = cacheKey.end /\ cacheKey # NoKey
          /\ \E keys \in Kept(filled) : cache' = Restricted(filled, keys)
      BY <1>3, <2>2 DEF UpdateCache, Cacheable, matches
    <3>2. PICK keys \in SUBSET DOMAIN filled : cache' = Restricted(filled, keys)
      BY <3>1 DEF Kept
    <3>3. /\ CachesRun /\ Proper /\ cacheKey.pattern = state.pattern
          /\ cacheKey.start = state.start /\ cacheKey.end = state.end
      BY <1>2, <3>1 DEF CachesRun, Proper, Awaited, Key, SearchInv, SessionInv, KeyInv
    <3>4. r.rechecked = NoLine
      BY <1>9, <3>3 DEF SearchInv, SessionInv, KeyInv
    <3>5. state.end <= untold => matches = Truth
      <4> SUFFICES ASSUME state.end <= untold PROVE held = Truth
        BY <1>b
      <4>1. \A line \in InRange : line \in Nat /\ line < state.end
        BY <1>a, SearchTypes
      <4>2. InRange \subseteq Trusted
        <5>1. \A line \in InRange : line < untold
          BY <1>a, <4>1, SearchTypes
        <5> QED
          BY <3>3, <5>1 DEF Trusted
      <4>3. held \subseteq InRange /\ Truth \subseteq InRange
        BY <1>10, <1>11, <1>a, <3>3, SearchTypes
      <4>4. ASSUME NEW line \in held PROVE line \in Truth
        BY <1>10, <1>a, <3>3, <3>4, <4>1, <4>2, <4>3
      <4>5. ASSUME NEW line \in Truth PROVE line \in held
        BY <1>10, <3>1, <3>3, <4>1, <4>2, <4>3
      <4> QED
        BY <4>4, <4>5
    <3>6. ASSUME NEW key \in DOMAIN cache', key.end <= untold
          PROVE  cache'[key] = MatchingLines(key.pattern, key.start, key.end)'
      <4>1. /\ key \in DOMAIN cache \cup {cacheKey}
            /\ cache'[key] = IF key = cacheKey THEN matches ELSE cache[key]
        BY <3>2 DEF Restricted
      <4>2. CASE key = cacheKey
        <5>1. cache'[key] = Truth
          BY <3>3, <3>5, <3>6, <4>1, <4>2
        <5> QED
          BY <1>3, <3>3, <4>2, <5>1 DEF Truth, MatchingLines, NbLines
      <4>3. CASE key # cacheKey
        <5>1. cache'[key] = MatchingLines(key.pattern, key.start, key.end)
          BY <3>6, <4>1, <4>3 DEF SearchInv, CacheIsCurrent
        <5> QED
          BY <1>3, <5>1 DEF MatchingLines, NbLines
      <4> QED
        BY <4>2, <4>3
    <3> QED
      BY <1>3, <3>6 DEF CacheIsCurrent, MatchingLines
  <2> QED
    BY <2>1, <2>2
<1> QED
  BY <1>13, <1>14, <1>15, <1>16, <1>17, <1>18 DEF SessionInv

-----------------------------------------------------------------------------
(* The run goes on.                                                        *)

\* A superseded run leaves nothing to take, if there was nothing, or clears it.
LEMMA StaysQuiet ==
    ASSUME RunTypes, Run, Superseded, UNCHANGED results, results.processed \in Nat,
           Quiet \/ (job # NoJob /\ job.pc = "begun" /\ job.full)
    PROVE  Quiet'
<1>1. CASE RunFull
  <2>1. data' = EmptyData /\ picked' = NoBlock
    BY <1>1 DEF RunFull, RunTypes
  <2> QED
    BY <2>1, EmptyDataFields DEF Quiet
<1>2. CASE RunUpdate
  BY <1>2 DEF RunUpdate, Quiet
<1>3. CASE ReadBlock
  BY <1>3 DEF ReadBlock
<1>4. CASE PickBlock
  BY <1>4 DEF PickBlock, Quiet, RunTypes
<1>5. CASE CombineBlock
  BY <1>5 DEF CombineBlock, Quiet, RunTypes
<1>6. CASE EndRun
  BY <1>6 DEF EndRun, Quiet
<1>7. CASE FailRun
  <2>1. data' = EmptyData /\ picked' = NoBlock
    BY <1>7 DEF FailRun
  <2> QED
    BY <2>1, EmptyDataFields DEF Quiet
<1>8. CASE AcceptBlock
  BY <1>8 DEF AcceptBlock, Quiet, RunTypes
<1> QED
  BY <1>1, <1>2, <1>3, <1>4, <1>5, <1>6, <1>7, <1>8 DEF Run

\* What a step of the run leaves alone.
LEMMA RunStepFrame ==
    ASSUME SearchInv, RunStep
    PROVE  /\ TypeInv /\ RunTypes /\ Run
           /\ UNCHANGED <<owner, waiting, lastRun, searchId, state, results, changedUnder, cache, cacheKey,
                          lines, untold, current, activeRun>>
           /\ Searched' = Searched /\ Awaited' = Awaited /\ CachesRun' = CachesRun /\ Proper' = Proper
           /\ InRange' = InRange /\ RangeEnd' = RangeEnd /\ Truth' = Truth /\ Trusted' = Trusted
           /\ Held' = Held /\ NbLines' = NbLines
           /\ job # NoJob /\ job' # NoJob => job'.pc # "begun"
           /\ Awaited => ~Superseded /\ job.pc # "skipped"
<1>1. /\ TypeInv /\ RunTypes /\ Run
      /\ UNCHANGED <<owner, waiting, lastRun, searchId, state, results, changedUnder, cache, cacheKey,
                     untold, current>>
  BY DEF SearchInv, AwaitInv, TypeInv, RunStep, ownerVars, sessionVars, historyVars
<1>2. UNCHANGED <<lines, activeRun>>
  BY <1>1, RunStepJob DEF Run, RunFull, RunUpdate, ReadBlock, AcceptBlock, PickBlock, CombineBlock, EndRun, FailRun
<1>3. /\ Searched' = Searched /\ Awaited' = Awaited /\ CachesRun' = CachesRun /\ Proper' = Proper
      /\ InRange' = InRange /\ RangeEnd' = RangeEnd /\ Truth' = Truth /\ Trusted' = Trusted
      /\ Held' = Held /\ NbLines' = NbLines
  BY <1>1, <1>2 DEF Searched, Awaited, CachesRun, Proper, InRange, RangeEnd, Truth, Trusted, SearchedEnd, Held,
                    MatchingLines, NbLines
<1>4. job # NoJob /\ job' # NoJob => job'.pc # "begun"
  BY <1>1, RunStepJob
<1>5. Awaited => ~Superseded /\ job.pc # "skipped"
  <2>1. job.id # 0
    BY <1>1, RunStepJob
  <2> QED
    BY <2>1 DEF SearchInv, AwaitInv, OwnerInv, Awaited, Superseded
<1> QED
  BY <1>1, <1>2, <1>3, <1>4, <1>5

\* Where a run begins, the Log Lines before are decided and nothing waits to
\* be taken.
LEMMA BeginsKeep ==
    ASSUME SearchInv, RunStep, Awaited, Proper, job.pc = "begun", RunFull \/ RunUpdate
    PROVE  DataInv' /\ BlockInv'
<1>a. /\ TypeInv /\ RunTypes /\ UNCHANGED <<state, results>> /\ ~Superseded
      /\ Awaited' /\ Proper' /\ InRange' = InRange /\ RangeEnd' = RangeEnd /\ Truth' = Truth
      /\ Trusted' = Trusted /\ Held' = Held
  BY RunStepFrame
<1>b. /\ job # NoJob /\ job \in JobType /\ IsData(data) /\ NbLines \in Nat /\ MaxLines \in Nat
      /\ state.start \in Nat /\ state.end \in Nat /\ RangeEnd \in Nat /\ RangeEnd >= state.start
      /\ results.processed \in Nat /\ NoLine = -1 /\ data.until \in Nat
      /\ \A line \in InRange : line \in Nat /\ state.start <= line
      /\ Trusted \subseteq InRange
  BY <1>a, SearchTypes DEF RunTypes, RunFull, RunUpdate, NoJob
<1>c. /\ job.pattern = state.pattern /\ job.start = state.start /\ job.end = state.end
      /\ ~state.fromCache
      /\ CachesRun => job.full
      /\ ~job.full /\ ~ContinueUnsettled =>
            /\ job.position = results.processed /\ results.arrived = {}
            /\ \A line \in results.matches : line < results.processed
            /\ results.rechecked = IF results.processed > state.start THEN results.processed - 1 ELSE NoLine
            /\ Quiet
  BY <1>b DEF SearchInv, WorkInv, BegunInv, NextJob, Awaited
<1>d. blocks = {} /\ picked = NoBlock /\ InWork = {} /\ InWork' = {}
  BY <1>a DEF RunTypes, InWork, RunFull, RunUpdate
<1>1. \E line \in Nat :
         /\ state.start <= line /\ line <= RangeEnd /\ results.rechecked <= line
         /\ data'.until = line /\ data'.found = {} /\ DOMAIN data'.ahead = {}
         /\ job'.pattern = state.pattern /\ job'.next = line /\ job'.end = Least(state.end, NbLines)
         /\ \A before \in Trusted : before \in Truth /\ before < line =>
               before # results.rechecked /\ before \in Held
  <2>1. CASE RunFull
    <3>1. BeginSearch(EmptyData, 0) /\ job.full /\ 0 \in 0..MaxLines /\ IsData(EmptyData)
      BY <1>a, <1>b, <2>1, EmptyDataFields DEF RunFull
    <3>2. /\ data'.until = Later(0, job.start) /\ data'.found = EmptyData.found /\ DOMAIN data'.ahead = {}
          /\ job'.pattern = job.pattern /\ job'.next = Later(0, job.start) /\ job'.end = Least(job.end, NbLines)
      BY <1>a, <1>b, <3>1, BeginFields
    <3>3. Later(0, job.start) = state.start /\ EmptyData.found = {}
      BY <1>b, <1>c, EmptyDataFields DEF Later
    <3>4. results.rechecked = NoLine
      BY <1>b, <1>c, <3>1 DEF SearchInv, SessionInv, ResetInv, Awaited, Searched
    <3> QED
      BY <1>b, <1>c, <3>2, <3>3, <3>4
  <2>2. CASE RunUpdate
    <3>1. ~job.full /\ ~CachesRun /\ ~ContinueUnsettled /\ Searched /\ Quiet
      BY <1>c, <2>2 DEF RunUpdate, Proper
    <3>2. /\ job.position = results.processed /\ results.arrived = {}
          /\ \A line \in results.matches : line < results.processed
          /\ results.rechecked = IF results.processed > state.start THEN results.processed - 1 ELSE NoLine
          /\ data.until <= results.processed /\ data.found = {}
      BY <1>c, <3>1 DEF Quiet
    <3>3. results.processed <= RangeEnd
      BY <1>c DEF SearchInv, SessionInv, RangeInv
    <3> DEFINE from == ContinueAt(job.position)
    <3>4. from = IF results.processed >= 1 THEN results.processed - 1 ELSE 0
      BY <1>b, <3>2 DEF ContinueAt, Later
    <3>5. from \in 0..MaxLines
      BY <1>b, <3>2, <3>4 DEF JobType
    <3> HIDE DEF from
    <3>6. BeginSearch(data, from)
      BY <1>a, <2>2 DEF RunUpdate, from
    <3> DEFINE line == Later(from, state.start)
    <3>7. /\ data'.until = line /\ data'.found = data.found /\ DOMAIN data'.ahead = {}
          /\ job'.pattern = job.pattern /\ job'.next = line /\ job'.end = Least(job.end, NbLines)
      BY <1>a, <1>b, <1>c, <3>5, <3>6, BeginFields
    <3>8. /\ line \in Nat /\ state.start <= line /\ line <= RangeEnd /\ line <= Later(results.processed, state.start)
          /\ results.rechecked = line \/ (results.rechecked = NoLine /\ line = state.start)
      BY <1>b, <3>2, <3>3, <3>4 DEF Later
    <3> HIDE DEF line
    <3>9. ASSUME NEW before \in Trusted, before \in Truth, before < line
          PROVE  before # results.rechecked /\ before \in Held
      <4>1. before \in Nat /\ state.start <= before
        BY <1>b
      <4>2. results.rechecked = line
        BY <1>b, <3>8, <3>9, <4>1
      <4>3. before < results.processed
        BY <1>b, <3>2, <3>9, <4>1, <4>2
      <4>4. before # results.rechecked
        BY <3>8, <3>9, <4>1, <4>2
      <4> QED
        BY <3>9, <4>3, <4>4 DEF SearchInv, SessionInv, DecidedInv
    <3>10. results.rechecked <= line
      BY <1>b, <3>8
    <3> QED
      BY <1>c, <3>2, <3>7, <3>8, <3>9, <3>10
  <2> QED
    BY <2>1, <2>2
<1>2. PICK line \in Nat :
         /\ state.start <= line /\ line <= RangeEnd /\ results.rechecked <= line
         /\ data'.until = line /\ data'.found = {} /\ DOMAIN data'.ahead = {}
         /\ job'.pattern = state.pattern /\ job'.next = line /\ job'.end = Least(state.end, NbLines)
         /\ \A before \in Trusted : before \in Truth /\ before < line =>
               before # results.rechecked /\ before \in Held
  BY <1>1
<1>3. DataInv'
  BY <1>a, <1>2 DEF DataInv
<1>4. job'.end <= state.end
  BY <1>b, <1>2 DEF Least
<1>5. BlockInv'
  BY <1>a, <1>d, <1>2, <1>4 DEF BlockInv
<1> QED
  BY <1>3, <1>5

\* Reading a block leaves the data; what the block holds is what matches.
LEMMA ReadKeeps ==
    ASSUME SearchInv, RunStep, Awaited, Proper, ReadBlock
    PROVE  DataInv' /\ BlockInv'
<1>a. /\ TypeInv /\ RunTypes /\ UNCHANGED <<state, results>>
      /\ Awaited' /\ Proper' /\ InRange' = InRange /\ RangeEnd' = RangeEnd /\ Truth' = Truth
      /\ Trusted' = Trusted /\ Held' = Held
  BY RunStepFrame
<1>b. /\ job # NoJob /\ job.pc = "searching" /\ job \in JobType /\ NbLines \in Nat /\ MaxLines \in Nat
      /\ state.start \in Nat /\ state.end \in Nat /\ RangeEnd \in Nat /\ RangeEnd >= state.end
      /\ lines \in Seq(Readings) /\ Len(lines) <= MaxLines
      /\ Trusted \subseteq InRange
      /\ \A line \in InRange : line \in Nat /\ state.start <= line /\ line < state.end
  BY <1>a, SearchTypes DEF RunTypes, ReadBlock, NoJob
<1>c. job.next \in Nat /\ job.end \in Nat /\ job.next < job.end /\ UNCHANGED <<data, picked>>
  BY <1>b DEF ReadBlock, JobType
<1>d. DataInv /\ BlockInv
  BY DEF SearchInv, WorkInv
<1>1. DataInv'
  BY <1>a, <1>b, <1>c, <1>d DEF DataInv
<1> DEFINE asked == Least(BlockLines, job.end - job.next)
<1>2. asked \in Nat /\ asked <= job.end - job.next
  BY <1>c, SearchAssumption DEF Least
<1> HIDE DEF asked
<1> DEFINE blockTo(read) == [first |-> job.next, end |-> job.next + read,
                            matches |-> MatchingLines(job.pattern, job.next, job.next + read)]
<1>3. \E read \in Nat :
         /\ job.next + read <= job.end
         /\ job' = [job EXCEPT !.next = @ + read]
         /\ \/ UNCHANGED <<blocks, limiter>>
            \/ blocks' = blocks \cup {blockTo(read)} /\ limiter'.offered = limiter.offered
            \/ UNCHANGED blocks /\ limiter'.offered = blockTo(read)
  <2>1. \/ \E read \in 1..Least(asked, NbLines - job.next) :
             /\ job' = [job EXCEPT !.next = @ + read]
             /\ \/ /\ blocks' = blocks \cup {blockTo(read)}
                   /\ limiter' = [limiter EXCEPT !.count = @ + 1]
                \/ /\ limiter' = [limiter EXCEPT !.offered = blockTo(read)]
                   /\ UNCHANGED blocks
        \/ /\ job' = [job EXCEPT !.next = @ + asked]
           /\ UNCHANGED <<blocks, limiter>>
    BY DEF ReadBlock, asked
  <2>2. \A read \in 1..Least(asked, NbLines - job.next) : read \in Nat /\ job.next + read <= job.end
    BY <1>b, <1>c, <1>2 DEF Least
  <2>3. job.next + asked <= job.end
    BY <1>c, <1>2
  <2>4. \A block : /\ [limiter EXCEPT !.count = @ + 1].offered = limiter.offered
                   /\ [limiter EXCEPT !.offered = block].offered = block
    BY <1>a, FlightTypes
  <2> HIDE DEF blockTo
  <2> QED
    BY <1>2, <2>1, <2>2, <2>3, <2>4
<1>4. PICK read \in Nat :
         /\ job.next + read <= job.end
         /\ job' = [job EXCEPT !.next = @ + read]
         /\ \/ UNCHANGED <<blocks, limiter>>
            \/ blocks' = blocks \cup {blockTo(read)} /\ limiter'.offered = limiter.offered
            \/ UNCHANGED blocks /\ limiter'.offered = blockTo(read)
  BY <1>3
<1>5. /\ job'.next = job.next + read /\ job'.pattern = job.pattern /\ job'.end = job.end
      /\ job'.pc = job.pc
  BY ONLY <1>b, <1>4 DEF JobType
<1>6. /\ job.pattern = state.pattern /\ job.end <= state.end /\ state.start <= job.next
  BY <1>a, <1>b, <1>d DEF BlockInv
<1> DEFINE block == blockTo(read)
<1>7. /\ block.first = job.next /\ block.end = job.next + read
      /\ block.matches = MatchingLines(state.pattern, job.next, job.next + read)
  BY <1>6
<1>e. \/ UNCHANGED <<blocks, limiter>>
      \/ blocks' = blocks \cup {block} /\ limiter'.offered = limiter.offered
      \/ UNCHANGED blocks /\ limiter'.offered = block
  BY <1>4
<1> HIDE DEF block
<1>8. /\ block.first >= state.start /\ block.end <= state.end
      /\ block.matches \subseteq block.first..(block.end - 1)
      /\ \A line \in Trusted :
            block.first <= line /\ line < block.end => (line \in block.matches <=> line \in Truth)
  <2>1. job.next + read \in Nat
    BY <1>c
  <2>2. /\ block.matches \subseteq block.first..(block.end - 1)
        /\ \A line : line \in block.matches <=>
              /\ line \in Nat /\ block.first <= line /\ line < block.end /\ line < NbLines
              /\ state.pattern \in lines[line + 1]
    BY <1>b, <1>c, <1>7, <2>1, MatchingType
  <2>3. \A line : line \in Truth <=>
              /\ line \in Nat /\ state.start <= line /\ line < state.end /\ line < NbLines
              /\ state.pattern \in lines[line + 1]
    BY <1>b, MatchingType DEF Truth
  <2>4. block.first >= state.start /\ block.end <= state.end
    BY <1>b, <1>c, <1>4, <1>6, <1>7
  <2> QED
    BY <1>b, <2>2, <2>3, <2>4
<1>9. InWork' \subseteq InWork \cup {block}
  BY <1>c, <1>e DEF InWork
<1>10. job'.next <= RangeEnd /\ state.start <= job'.next
  BY <1>b, <1>c, <1>4, <1>5, <1>6
<1>11. BlockInv'
  BY <1>a, <1>b, <1>c, <1>d, <1>5, <1>6, <1>8, <1>9, <1>10 DEF BlockInv
<1> QED
  BY <1>1, <1>11

\* Combining a block beyond a gap notes it; combining one that is not joins on
\* it those noted before: either way what was searched without a gap is decided.
LEMMA CombineKeeps ==
    ASSUME SearchInv, RunStep, Awaited, Proper, CombineBlock
    PROVE  DataInv' /\ BlockInv'
<1>a. /\ TypeInv /\ RunTypes /\ UNCHANGED <<state, results>>
      /\ Awaited' /\ Proper' /\ InRange' = InRange /\ RangeEnd' = RangeEnd /\ Truth' = Truth
      /\ Trusted' = Trusted /\ Held' = Held
  BY RunStepFrame
<1>b. /\ job # NoJob /\ job.pc = "searching" /\ MaxLines \in Nat
      /\ state.start \in Nat /\ state.end \in Nat /\ RangeEnd \in Nat /\ RangeEnd >= state.end
      /\ IsData(data) /\ data.until \in Nat /\ results.rechecked \in Int
      /\ Trusted \subseteq InRange
      /\ \A line \in InRange : line \in Nat /\ state.start <= line /\ line < state.end
      /\ \A line \in Nat : state.start <= line /\ line < state.end => line \in InRange
  BY <1>a, SearchTypes DEF RunTypes, CombineBlock, NoJob
<1>c. /\ UNCHANGED <<job, blocks>> /\ picked' = NoBlock /\ picked # NoBlock
      /\ data' = AddAll(data, picked.first, picked.end, picked.matches)
  BY DEF CombineBlock
<1>d. /\ picked.first \in Lines /\ picked.end \in 1..MaxLines /\ picked.matches \in SUBSET Lines
      /\ picked.first \in Nat /\ picked.end \in Nat
  BY <1>a, <1>b, <1>c DEF RunTypes, BlockType, Lines
<1>e. /\ data.found \subseteq InRange
      /\ data.until <= RangeEnd
      /\ \A line \in Trusted :
            /\ line \in data.found => line \in Truth
            /\ line \in Truth /\ line < data.until =>
                  line \in data.found \/ (line # results.rechecked /\ line \in Held)
  BY <1>b DEF SearchInv, WorkInv, DataInv
<1>f. /\ job.pattern = state.pattern /\ job.end <= state.end
      /\ state.start <= job.next /\ job.next <= RangeEnd
      /\ state.start <= data.until /\ results.rechecked <= data.until
      /\ \A first \in DOMAIN data.ahead :
            /\ first > data.until /\ data.ahead[first] <= state.end
            /\ \A line \in Trusted :
                  first <= line /\ line < data.ahead[first] /\ line \in Truth => line \in Held \cup data.found
      /\ \A block \in InWork :
            /\ state.start <= block.first /\ block.end <= state.end
            /\ block.matches \subseteq block.first..(block.end - 1)
            /\ \A line \in Trusted :
                  block.first <= line /\ line < block.end => (line \in block.matches <=> line \in Truth)
  BY <1>b DEF SearchInv, WorkInv, BlockInv
<1>g. /\ state.start <= picked.first /\ picked.end <= state.end
      /\ picked.matches \subseteq picked.first..(picked.end - 1)
      /\ \A line \in Trusted :
            picked.first <= line /\ line < picked.end => (line \in picked.matches <=> line \in Truth)
      /\ InWork' \subseteq InWork
  <2>1. limiter'.offered = limiter.offered /\ picked \in InWork
    BY <1>a, <1>c, FlightTypes DEF CombineBlock, InWork
  <2>2. InWork' \subseteq InWork
    BY <1>c, <2>1 DEF InWork
  <2> QED
    BY <1>f, <2>1, <2>2
<1>h. \A first \in DOMAIN data.ahead : first \in Nat /\ data.ahead[first] \in Nat
  BY <1>b DEF IsData, IsAhead, Lines
<1>1. data'.found = data.found \cup picked.matches
  BY <1>b, <1>c, <1>d, AddAllFields
<1>2. data'.found \subseteq InRange
  <2>1. ASSUME NEW line \in picked.matches PROVE line \in InRange
    BY <1>b, <1>d, <1>g
  <2> QED
    BY <1>1, <1>e, <2>1
<1>3. \A line \in Trusted : line \in data'.found => line \in Truth
  <2>1. \A line \in picked.matches : picked.first <= line /\ line < picked.end
    BY <1>d, <1>g
  <2> QED
    BY <1>1, <1>e, <1>g, <2>1
<1>4. CASE picked.first > data.until
  <2>1. /\ data'.until = data.until
        /\ DOMAIN data'.ahead = DOMAIN data.ahead \cup {picked.first}
        /\ \A f \in DOMAIN data.ahead : f # picked.first => data'.ahead[f] = data.ahead[f]
        /\ data'.ahead[picked.first] = IF picked.first \in DOMAIN data.ahead
                                       THEN Later(data.ahead[picked.first], picked.end) ELSE picked.end
    BY <1>b, <1>c, <1>d, <1>4, AddAllFields
  <2>2. DataInv'
    BY <1>a, <1>1, <1>2, <1>3, <1>e, <2>1 DEF DataInv
  <2>3. ASSUME NEW first \in DOMAIN data'.ahead
        PROVE  /\ first > data'.until /\ data'.ahead[first] <= state.end
               /\ \A line \in Trusted :
                     first <= line /\ line < data'.ahead[first] /\ line \in Truth => line \in Held \cup data'.found
    <3>1. CASE first # picked.first
      BY <1>1, <1>f, <2>1, <3>1
    <3>2. CASE first = picked.first
      <4>1. first > data'.until /\ data'.ahead[first] <= state.end
        BY <1>4, <1>f, <1>g, <2>1, <3>2 DEF Later
      <4>2. ASSUME NEW line \in Trusted, first <= line, line < data'.ahead[first], line \in Truth
            PROVE  line \in Held \cup data'.found
        <5>1. CASE line < picked.end
          BY <1>1, <1>g, <3>2, <4>2, <5>1
        <5>2. CASE ~(line < picked.end)
          <6>1. first \in DOMAIN data.ahead /\ line < data.ahead[first]
            BY <2>1, <3>2, <4>2, <5>2 DEF Later
          <6> QED
            BY <1>1, <1>f, <4>2, <6>1
        <5> QED
          BY <5>1, <5>2
      <4> QED
        BY <4>1, <4>2
    <3> QED
      BY <3>1, <3>2
  <2>4. BlockInv'
    BY <1>a, <1>c, <1>f, <1>g, <2>1, <2>3 DEF BlockInv
  <2> QED
    BY <2>2, <2>4
<1>5. CASE ~(picked.first > data.until)
  <2>1. PICK ahead, until : ahead = data.ahead /\ until = Later(data.until, picked.end)
    OBVIOUS
  <2>2. /\ IsAhead(ahead) /\ until \in 0..MaxLines /\ until \in Nat
        /\ until = data.until \/ until = picked.end
        /\ data.until <= until /\ until <= RangeEnd
    BY <1>b, <1>d, <1>e, <1>g, <2>1 DEF IsData, Later
  <2>3. PICK joined : joined = Joined(until, ahead)
    OBVIOUS
  <2>4. /\ joined \in until..MaxLines
        /\ joined = until \/ \E first \in DOMAIN ahead : joined = ahead[first]
        /\ \A line \in until..(joined - 1) :
              \E first \in DOMAIN ahead : first <= line /\ line < ahead[first]
    BY <2>2, <2>3, JoinedProperties
  <2>5. /\ data'.until = joined
        /\ DOMAIN data'.ahead = {f \in DOMAIN data.ahead : f > joined}
        /\ \A f \in DOMAIN data'.ahead : data'.ahead[f] = data.ahead[f]
    BY <1>b, <1>c, <1>d, <1>5, <2>1, <2>3, AddAllFields
  <2>6. joined \in Nat /\ joined <= RangeEnd /\ data.until <= joined
    BY <1>b, <1>f, <1>h, <2>1, <2>2, <2>4
  <2>7. ASSUME NEW line \in Trusted, line \in Truth, line < joined
        PROVE  line \in data'.found \/ (line # results.rechecked /\ line \in Held)
    <3>1. line \in Nat
      BY <1>b
    <3>2. CASE line < data.until
      BY <1>1, <1>e, <2>7, <3>2
    <3>3. CASE ~(line < data.until) /\ line < until
      <4>1. picked.first <= line /\ line < picked.end
        BY <1>b, <1>d, <1>5, <2>2, <3>1, <3>3
      <4> QED
        BY <1>1, <1>g, <2>7, <4>1
    <3>4. CASE ~(line < until)
      <4>1. line \in until..(joined - 1)
        BY <2>2, <2>6, <2>7, <3>1, <3>4
      <4>2. PICK first \in DOMAIN data.ahead : first <= line /\ line < data.ahead[first]
        BY <2>1, <2>4, <4>1
      <4>3. line # results.rechecked
        BY <1>b, <1>f, <1>h, <3>1, <4>2
      <4> QED
        BY <1>1, <1>f, <2>7, <4>2, <4>3
    <3> QED
      BY <3>2, <3>3, <3>4
  <2>8. DataInv'
    BY <1>a, <1>2, <1>3, <2>5, <2>6, <2>7 DEF DataInv
  <2>9. state.start <= joined /\ results.rechecked <= joined
    BY <1>b, <1>f, <2>6
  <2>10. BlockInv'
    BY <1>a, <1>c, <1>f, <1>g, <1>1, <2>5, <2>9 DEF BlockInv
  <2> QED
    BY <2>8, <2>10
<1> QED
  BY <1>4, <1>5

\* The run goes on.
LEMMA RunStepKeeps ==
    ASSUME SearchInv, RunStep
    PROVE  SessionInv' /\ WorkInv' /\ CacheIsCurrent'
<1>a. /\ TypeInv /\ RunTypes /\ Run
      /\ UNCHANGED <<owner, waiting, lastRun, searchId, state, results, changedUnder, cache, cacheKey,
                     lines, untold, current, activeRun>>
      /\ Searched' = Searched /\ Awaited' = Awaited /\ CachesRun' = CachesRun /\ Proper' = Proper
      /\ InRange' = InRange /\ RangeEnd' = RangeEnd /\ Truth' = Truth /\ Trusted' = Trusted
      /\ Held' = Held /\ NbLines' = NbLines
      /\ job # NoJob /\ job' # NoJob => job'.pc # "begun"
      /\ Awaited => ~Superseded /\ job.pc # "skipped"
  BY RunStepFrame
<1>b. job # NoJob /\ results.processed \in Nat
  BY <1>a, RunStepJob, SearchTypes
<1>1. DecidedInv' /\ RangeInv'
  BY <1>a DEF SearchInv, SessionInv, DecidedInv, RangeInv
<1>2. ResetInv'
  BY <1>a, <1>b DEF SearchInv, SessionInv, ResetInv
<1>3. KeyInv'
  BY <1>a DEF SearchInv, SessionInv, KeyInv
<1>4. CacheIsCurrent'
  BY <1>a DEF SearchInv, CacheIsCurrent, MatchingLines, NbLines
<1>5. BegunInv'
  <2> SUFFICES ASSUME owner = "starting" PROVE BegunInv'
    BY <1>a, <1>b DEF BegunInv, Awaited
  <2>1. Superseded
    <3>1. activeRun = lastRun /\ job.id < lastRun /\ lastRun \in Nat
      BY SearchAssumption DEF SearchInv, AwaitInv, OwnerInv, TypeInv, OwnerTypes
    <3>2. job.id \in Nat
      BY <1>a, RunStepJob
    <3> QED
      BY <3>1, <3>2 DEF Superseded
  <2>2. Quiet \/ (job # NoJob /\ job.pc = "begun" /\ job.full) => Quiet'
    BY <1>a, <1>b, <2>1, StaysQuiet
  <2>3. NextJob' = NextJob
    BY <1>a DEF NextJob
  <2> QED
    BY <1>a, <2>2, <2>3 DEF SearchInv, WorkInv, BegunInv
<1>6. DataInv' /\ BlockInv'
  <2> SUFFICES ASSUME Awaited, Proper PROVE DataInv' /\ BlockInv'
    BY <1>a DEF DataInv, BlockInv
  <2>a. ~Superseded /\ job.pc # "skipped" /\ DataInv /\ BlockInv
    BY <1>a DEF SearchInv, WorkInv
  <2>1. CASE RunFull \/ RunUpdate
    BY <2>1, BeginsKeep DEF RunFull, RunUpdate
  <2>2. CASE ReadBlock
    BY <2>2, ReadKeeps
  <2>3. CASE PickBlock
    <3>1. UNCHANGED <<data, job>> /\ InWork' \subseteq InWork
      BY <2>3 DEF PickBlock, InWork
    <3> QED
      BY <1>a, <2>a, <3>1 DEF DataInv, BlockInv
  <2>4. CASE CombineBlock
    BY <2>4, CombineKeeps
  <2>5. CASE EndRun
    BY <1>a, <2>a, <2>5 DEF EndRun, DataInv, BlockInv
  <2>6. CASE FailRun
    <3>1. data'.until = 0 /\ data'.found = {} /\ job' = NoJob
      BY <2>6, EmptyDataFields DEF FailRun
    <3>2. /\ RangeEnd >= 0
          /\ \A line \in Trusted : line \in Nat
      BY <1>a, SearchTypes
    <3> QED
      BY <1>a, <3>1, <3>2 DEF DataInv, BlockInv
  <2>7. CASE AcceptBlock
    <3>1. UNCHANGED <<data, job>> /\ InWork' \subseteq InWork
      BY <2>7 DEF AcceptBlock, InWork
    <3> QED
      BY <1>a, <2>a, <3>1 DEF DataInv, BlockInv
  <2> QED
    BY <1>a, <2>1, <2>2, <2>3, <2>4, <2>5, <2>6, <2>7 DEF Run
<1> QED
  BY <1>1, <1>2, <1>3, <1>4, <1>5, <1>6 DEF SessionInv, WorkInv

-----------------------------------------------------------------------------
(* The invariant holds.                                                    *)

\* Every step of the owner, of the Log File and of the run keeps it.
LEMMA SearchStep == SearchInv /\ [Next]_vars => SearchInv'
<1> SUFFICES ASSUME SearchInv, [Next]_vars PROVE SearchInv'
  OBVIOUS
<1>1. AwaitInv'
  BY AwaitStep DEF SearchInv
<1>2. FollowInv'
  BY FollowStep DEF SearchInv
<1>3. SessionInv' /\ WorkInv' /\ CacheIsCurrent'
  <2>1. CASE RequestContinued
    BY <2>1, RequestContinuedKeeps
  <2>2. CASE RequestFresh
    BY <2>2, RequestFreshKeeps
  <2>3. CASE RequestInvalid \/ RequestIdle
    BY <2>3, RequestNoneKeeps
  <2>4. CASE RequestCached
    BY <2>4, RequestCachedKeeps
  <2>5. CASE Stop
    BY <2>5, StopKeeps
  <2>6. CASE RunBegins
    BY <2>6, RunBeginsKeeps
  <2>7. CASE SearchProgressed
    BY <2>7, SearchProgressedKeeps
  <2>8. CASE SearchFailed
    BY <2>8, SearchFailedKeeps
  <2>9. CASE SearchFinished
    BY <2>9, SearchFinishedKeeps
  <2>10. CASE EmitThrottled
    BY <2>10, EmitThrottledKeeps
  <2>11. CASE LinesGrow \/ LinesReplaced
    BY <2>11, LinesChangeKeeps
  <2>12. CASE LogLinesChanged
    BY <2>12, LogLinesChangedKeeps
  <2>13. CASE RunStep
    BY <2>13, RunStepKeeps
  <2>14. CASE SetSearchPolicy \/ DropReport \/ UNCHANGED vars
    <3>1. UNCHANGED <<owner, waiting, state, results, changedUnder, cacheKey, cache, lines, untold, current,
                      data, job, blocks, limiter, picked>>
      BY <2>14 DEF SetSearchPolicy, DropReport, vars, ownerVars, sessionVars, fileVars, historyVars, opVars
    <3> QED
      BY <3>1, Undisturbed
  <2> QED
    BY <2>1, <2>2, <2>3, <2>4, <2>5, <2>6, <2>7, <2>8, <2>9, <2>10, <2>11, <2>12, <2>13, <2>14
    DEF Next, Requests, Reported
<1> QED
  BY <1>1, <1>2, <1>3 DEF SearchInv

\* Nothing is searched at first, and nothing is cached.
LEMMA SearchInit == Init => SearchInv
<1> SUFFICES ASSUME Init PROVE SessionInv /\ WorkInv /\ CacheIsCurrent
  BY AwaitInit, FollowInit DEF SearchInv
<1>1. /\ owner = "free" /\ state.phase = "Idle" /\ state.fromCache = FALSE
      /\ untold = AllTold /\ DOMAIN cache = {}
  BY DEF Init, Idle, NoResults
<1>2. ~Searched /\ ~Awaited /\ ~CachesRun /\ ~Proper /\ Trusted = {}
  BY <1>1 DEF Searched, Awaited, CachesRun, Proper, Trusted
<1>3. SessionInv
  BY <1>1, <1>2 DEF SessionInv, DecidedInv, RangeInv, ResetInv, KeyInv
<1>4. WorkInv
  BY <1>1, <1>2 DEF WorkInv, DataInv, BlockInv, BegunInv
<1>5. CacheIsCurrent
  BY <1>1 DEF CacheIsCurrent
<1> QED
  BY <1>3, <1>4, <1>5

\* What is searched is decided, what the run has to be taken is what it found,
\* and the cache is current, in whatever order it all happens.
THEOREM SearchInvariant == Spec => []SearchInv
  BY SearchInit, SearchStep, PTL DEF Spec

\* Whatever Searches were continued, stopped or superseded, and whatever
\* changed meanwhile: what is cached is what a run over the range would find,
\* unless a change that reaches the range has not been told yet.
THEOREM CacheIsCurrentHolds == Spec => []CacheIsCurrent
<1>1. SearchInv => CacheIsCurrent
  BY DEF SearchInv
<1> QED
  BY <1>1, SearchInvariant, PTL

\* Where only Settled Searches are continued, every Log Line counted as
\* searched is a Match just when it matches, but for the one searched again.
THEOREM SearchedIsDecidedHolds ==
    ASSUME ~ContinueUnsettled
    PROVE  Spec => []SearchedIsDecided
<1>1. SearchInv => SearchedIsDecided
  <2> SUFFICES ASSUME SearchInv, Searched, current
               PROVE  /\ Held \ {results.rechecked} \subseteq Truth
                      /\ \A line \in Truth : line < results.processed => line \in Held \cup {results.rechecked}
    BY DEF SearchedIsDecided, Searched, Truth
  <2>1. Trusted = InRange /\ Proper
    BY DEF Trusted, Proper
  <2>2. Truth \subseteq InRange
    BY SearchTypes DEF SearchInv, AwaitInv
  <2>3. Held \subseteq InRange
    BY <2>1 DEF SearchInv, SessionInv, RangeInv, Held
  <2> QED
    BY <2>1, <2>2, <2>3 DEF SearchInv, SessionInv, DecidedInv
<1> QED
  BY <1>1, SearchInvariant, PTL

\* Where only Settled Searches are continued, a Search told complete that
\* searched its whole range has exactly the Matches; and the count told with
\* the Matches is always theirs.
THEOREM CompleteIsExactHolds ==
    ASSUME ~ContinueUnsettled
    PROVE  Spec => []CompleteIsExact
<1>1. SearchInv => CompleteIsExact
  <2> SUFFICES ASSUME SearchInv PROVE CompleteIsExact
    OBVIOUS
  <2>1. /\ results.stale \subseteq results.matches
        /\ results.arrived \cap (results.matches \cup results.stale) = {}
        /\ state.count = Cardinality(Held)
    BY DEF SearchInv, FollowInv, Tellable
  <2>2. ASSUME SearchedWhole
        PROVE  results.matches = Truth
    <3>a. /\ TypeInv /\ state.end \in Nat /\ NbLines \in Nat /\ results.processed \in Nat
          /\ NoLine = -1 /\ Truth \subseteq InRange
          /\ \A line \in InRange : line \in Nat /\ line < state.end
      BY SearchTypes DEF SearchInv, AwaitInv
    <3>b. Searched /\ state.phase = "Complete" /\ current
      BY <2>2 DEF SearchedWhole, Searched
    <3>1. Held = results.matches
      BY <3>b DEF SearchInv, FollowInv, Held
    <3>2. results.processed >= state.end
      <4>1. state.end <= NbLines
        BY <3>b DEF SearchInv, SessionInv, KeyInv
      <4> QED
        BY <2>2, <3>a, <4>1 DEF SearchedWhole, Least
    <3>3. Trusted = InRange /\ Proper
      BY <3>b DEF Trusted, Proper
    <3>4. results.matches \subseteq InRange /\ results.rechecked \in InRange \cup {NoLine}
      BY <3>b, <3>3 DEF SearchInv, SessionInv, RangeInv
    <3>5. results.rechecked = NoLine
      <4>1. results.rechecked = NoLine \/ results.processed <= results.rechecked
        BY <3>b DEF SearchInv, SessionInv, KeyInv
      <4> QED
        BY <3>a, <3>2, <3>4, <4>1
    <3>6. ASSUME NEW line \in InRange
          PROVE  line \in results.matches <=> line \in Truth
      <4>1. line # NoLine /\ line < results.processed
        BY <3>a, <3>2
      <4> QED
        BY <3>1, <3>3, <3>5, <4>1 DEF SearchInv, SessionInv, DecidedInv
    <3> QED
      BY <3>a, <3>4, <3>6
  <2> QED
    BY <2>1, <2>2 DEF CompleteIsExact, Truth
<1> QED
  BY <1>1, SearchInvariant, PTL

=================================================================================
