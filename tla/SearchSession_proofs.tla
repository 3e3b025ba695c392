------------------------ MODULE SearchSession_proofs ------------------------
(***************************************************************************)
(* Proofs about SearchSession, for every Log File, every set of patterns   *)
(* and Search Limits, and every bound: what it keeps has its types, no run *)
(* is awaited that was superseded, whoever follows the deltas is in step,  *)
(* and the cache keeps to its budget.                                      *)
(*                                                                         *)
(* What a Search is told complete with is in SearchDecided_proofs.         *)
(***************************************************************************)
EXTENDS SearchSession, FiniteSetTheorems, WellFoundedInduction, TLAPS

-----------------------------------------------------------------------------
(* Types.                                                                  *)

JobType == [id : 1..MaxRuns, pc : {"begun", "searching", "skipped"}, full : BOOLEAN,
            pattern : Patterns, start : 0..MaxLines, end : 0..MaxLines,
            position : 0..MaxLines, next : 0..MaxLines]
BlockType == [first : Lines, end : 1..MaxLines, matches : SUBSET Lines]
ReportType == [id : 1..MaxRuns, kind : {"progress", "returned", "superseded", "failed"}]
StateType == [phase : Phases, pattern : Patterns \cup {InvalidPattern},
              start : 0..MaxLines, end : 0..MaxLines, fromCache : BOOLEAN, count : Int]
ResultsType == [matches : SUBSET Lines, arrived : SUBSET Lines, stale : SUBSET Lines,
                new : SUBSET Lines, removed : SUBSET Lines, rechecked : Lines \cup {NoLine},
                replaced : BOOLEAN, pending : BOOLEAN, processed : 0..MaxLines]

\* What was combined beyond a gap: blocks by their first Log Line.
IsAhead(ahead) ==
    /\ ahead = [first \in DOMAIN ahead |-> ahead[first]]
    /\ \A first \in DOMAIN ahead : first \in Lines /\ ahead[first] \in 1..MaxLines
IsData(d) ==
    /\ d = [until |-> d.until, ahead |-> d.ahead, found |-> d.found]
    /\ d.until \in 0..MaxLines /\ IsAhead(d.ahead) /\ d.found \subseteq Lines
IsCache(kept) ==
    /\ DOMAIN kept \subseteq Keys \ {NoKey} /\ IsFiniteSet(DOMAIN kept)
    /\ \A key \in DOMAIN kept : kept[key] \subseteq Lines

\* The types of what the owner keeps, and of what a run does.
OwnerTypes ==
    /\ owner \in {"free", "starting"}
    /\ lastRun \in 0..MaxRuns /\ searchId \in 0..MaxRuns /\ activeRun \in 0..MaxRuns
    /\ waiting \in JobType \cup {NoJob}
    /\ state \in StateType /\ results \in ResultsType
    /\ changedUnder \in BOOLEAN /\ useCache \in BOOLEAN
    /\ cacheKey \in Keys
    /\ untold \in 0..AllTold
    /\ followed \subseteq Lines /\ faithful \in BOOLEAN /\ current \in BOOLEAN
    /\ owner = "starting" => waiting # NoJob
\* A block read later begins where those read before it end, or after.
InOrder ==
    /\ \A block \in blocks :
          /\ block.first < block.end
          /\ block.end <= (IF limiter.offered = NoBlock THEN job.next ELSE limiter.offered.first)
    /\ limiter.offered # NoBlock =>
          limiter.offered.first < limiter.offered.end /\ limiter.offered.end <= job.next
RunTypes ==
    /\ lines \in Seq(Readings) /\ Len(lines) <= MaxLines
    /\ job \in JobType \cup {NoJob}
    /\ blocks \subseteq BlockType /\ IsFiniteSet(blocks)
    /\ picked \in BlockType \cup {NoBlock}
    /\ limiter \in [count : 0..MaxBlocks, offered : BlockType \cup {NoBlock}]
    /\ limiter.count = InFlight /\ InOrder
    /\ passedOver \in BOOLEAN
    /\ reports \in Seq(ReportType)
    /\ IsData(data)
    /\ blocks # {} \/ picked # NoBlock \/ limiter.offered # NoBlock => job.id # 0 /\ job.pc = "searching"
TypeInv == OwnerTypes /\ RunTypes /\ IsCache(cache)

\* The invariant of the types has the type invariant as a part.
LEMMA TypeInvImplies == TypeInv => TypeOK
  BY DEF TypeInv, OwnerTypes, RunTypes, IsCache, IsData, IsAhead, TypeOK, StateType, ResultsType

\* The Log Lines are finitely many, and so is every set of them.
LEMMA LinesFinite ==
    /\ Lines \subseteq Nat /\ IsFiniteSet(Lines)
    /\ \A S \in SUBSET Lines : IsFiniteSet(S) /\ Cardinality(S) \in Nat
<1>1. IsFiniteSet(Lines)
  BY SearchAssumption, FS_Interval DEF Lines
<1>2. ASSUME NEW S \in SUBSET Lines
      PROVE  IsFiniteSet(S) /\ Cardinality(S) \in Nat
  BY <1>1, FS_Subset, FS_CardinalityType
<1>3. Lines \subseteq Nat
  BY SearchAssumption DEF Lines
<1> QED
  BY <1>1, <1>2, <1>3

\* What matches is among the Log Lines.
LEMMA MatchingType ==
    ASSUME NEW pattern, NEW start \in Nat, NEW end \in Nat, lines \in Seq(Readings), Len(lines) <= MaxLines
    PROVE  /\ MatchingLines(pattern, start, end) \subseteq Lines
           /\ MatchingLines(pattern, start, end) \subseteq start..(end - 1)
           /\ \A line : line \in MatchingLines(pattern, start, end) <=>
                 /\ line \in Nat /\ start <= line /\ line < end /\ line < NbLines
                 /\ pattern \in lines[line + 1]
<1>1. NbLines \in Nat
  BY DEF NbLines
<1>2. Least(end, NbLines) \in Nat /\ Least(end, NbLines) <= end /\ Least(end, NbLines) <= NbLines
  BY <1>1 DEF Least
<1> QED
  BY <1>1, <1>2, SearchAssumption DEF MatchingLines, Lines, NbLines, Least

-----------------------------------------------------------------------------
(* What the operators on the Matches do, field by field.                   *)

\* resetResults()
LEMMA ResetFields ==
    ASSUME NEW r \in ResultsType
    PROVE  /\ Reset(r) \in ResultsType
           /\ Reset(r).matches = {} /\ Reset(r).arrived = {} /\ Reset(r).stale = {}
           /\ Reset(r).new = {} /\ Reset(r).removed = {} /\ Reset(r).rechecked = NoLine
           /\ Reset(r).replaced = TRUE /\ Reset(r).processed = 0
<1>1. 0 \in 0..MaxLines
  BY SearchAssumption
<1> QED
  BY <1>1 DEF Reset, ResultsType

\* publishArrivedMatches()
LEMMA PublishFields ==
    ASSUME NEW r \in ResultsType
    PROVE  /\ Publish(r) \in ResultsType
           /\ Publish(r).matches = (r.matches \ r.stale) \cup r.arrived
           /\ Publish(r).arrived = {} /\ Publish(r).stale = {}
           /\ Publish(r).new = IF r.replaced THEN r.new ELSE r.new \cup r.arrived
           /\ Publish(r).removed = IF r.replaced THEN r.removed ELSE r.removed \cup r.stale
           /\ Publish(r).rechecked = r.rechecked /\ Publish(r).replaced = r.replaced
           /\ Publish(r).processed = r.processed
  BY DEF Publish, ResultsType

\* The last Log Line searched is searched again.
LEMMA RecheckFields ==
    ASSUME NEW r \in ResultsType, NEW start \in Nat
    PROVE  /\ Recheck(r, start) \in ResultsType
           /\ Recheck(r, start).matches = r.matches /\ Recheck(r, start).arrived = r.arrived
           /\ Recheck(r, start).stale = r.stale /\ Recheck(r, start).new = r.new
           /\ Recheck(r, start).removed = r.removed /\ Recheck(r, start).replaced = r.replaced
           /\ Recheck(r, start).processed = r.processed
           /\ Recheck(r, start).rechecked = IF r.processed > start THEN r.processed - 1 ELSE NoLine
<1>1. (IF r.processed > start THEN r.processed - 1 ELSE NoLine) \in Lines \cup {NoLine}
  BY SearchAssumption DEF ResultsType, Lines
<1> QED
  BY <1>1 DEF Recheck, ResultsType

\* collectStaleMatch()
LEMMA CollectFields ==
    ASSUME NEW r \in ResultsType
    PROVE  /\ Collect(r) \in ResultsType
           /\ Collect(r).matches = r.matches /\ Collect(r).new = r.new
           /\ Collect(r).removed = r.removed /\ Collect(r).replaced = r.replaced
           /\ Collect(r).processed = r.processed
           /\ r.rechecked = NoLine \/ data.until <= r.rechecked => Collect(r) = r
           /\ ~(r.rechecked = NoLine \/ data.until <= r.rechecked) =>
                 /\ Collect(r).rechecked = NoLine
                 /\ r.rechecked \in data.found =>
                       Collect(r).stale = r.stale /\ Collect(r).arrived = r.arrived
                 /\ r.rechecked \notin data.found =>
                       /\ Collect(r).stale = r.stale \cup ({r.rechecked} \cap r.matches)
                       /\ Collect(r).arrived = r.arrived \ {r.rechecked}
<1>1. CASE r.rechecked = NoLine \/ data.until <= r.rechecked
  BY <1>1 DEF Collect, ResultsType
<1>2. CASE ~(r.rechecked = NoLine \/ data.until <= r.rechecked) /\ r.rechecked \in data.found
  BY <1>2 DEF Collect, ResultsType
<1>3. CASE ~(r.rechecked = NoLine \/ data.until <= r.rechecked) /\ r.rechecked \notin data.found
  BY <1>3 DEF Collect, ResultsType
<1> QED
  BY <1>1, <1>2, <1>3

\* applyIncomingResults()
LEMMA ApplyFields ==
    ASSUME NEW r \in ResultsType, IsData(data)
    PROVE  /\ Apply(r) \in ResultsType
           /\ Apply(r).matches = r.matches
           /\ Apply(r).arrived = Collect(r).arrived \cup (data.found \ r.matches)
           /\ Apply(r).stale = Collect(r).stale /\ Apply(r).new = r.new
           /\ Apply(r).removed = r.removed /\ Apply(r).rechecked = Collect(r).rechecked
           /\ Apply(r).replaced = r.replaced /\ Apply(r).processed = data.until
<1>1. Collect(r) \in ResultsType
  BY CollectFields
<1>2. data.found \ r.matches \in SUBSET Lines /\ data.until \in 0..MaxLines
  BY DEF IsData
<1>3. Apply(r) = [Collect(r) EXCEPT !.arrived = @ \cup (data.found \ r.matches), !.processed = data.until]
  BY DEF Apply
<1>4. /\ Apply(r) \in ResultsType
      /\ Apply(r).matches = Collect(r).matches
      /\ Apply(r).arrived = Collect(r).arrived \cup (data.found \ r.matches)
      /\ Apply(r).stale = Collect(r).stale /\ Apply(r).new = Collect(r).new
      /\ Apply(r).removed = Collect(r).removed /\ Apply(r).rechecked = Collect(r).rechecked
      /\ Apply(r).replaced = Collect(r).replaced /\ Apply(r).processed = data.until
  BY ONLY <1>1, <1>2, <1>3 DEF ResultsType
<1> QED
  BY <1>4, CollectFields

\* notifyStateChanged(): the Matches are published, and told.
LEMMA NotifyFields ==
    ASSUME NEW r \in ResultsType, Notify(r)
    PROVE  /\ results' \in ResultsType
           /\ results'.matches = (r.matches \ r.stale) \cup r.arrived
           /\ results'.arrived = {} /\ results'.stale = {}
           /\ results'.new = {} /\ results'.removed = {} /\ results'.replaced = FALSE
           /\ results'.rechecked = r.rechecked /\ results'.processed = r.processed
           /\ followed' = Followed(Publish(r))
           /\ faithful' = (faithful /\ IsDelta(Publish(r)))
<1>1. results' = [Publish(r) EXCEPT !.new = {}, !.removed = {}, !.replaced = FALSE, !.pending = FALSE]
  BY DEF Notify
<1>2. Publish(r) \in ResultsType
  BY PublishFields
<1>3. /\ results' \in ResultsType
      /\ results'.matches = Publish(r).matches
      /\ results'.arrived = Publish(r).arrived /\ results'.stale = Publish(r).stale
      /\ results'.new = {} /\ results'.removed = {} /\ results'.replaced = FALSE
      /\ results'.rechecked = Publish(r).rechecked /\ results'.processed = Publish(r).processed
  BY ONLY <1>1, <1>2 DEF ResultsType
<1> QED
  BY <1>3, PublishFields DEF Notify

-----------------------------------------------------------------------------
(* What is searched without a gap.                                         *)

\* A set of Log Line numbers has a least one.
LEMMA LeastElement ==
    ASSUME NEW S \in SUBSET Nat, S # {}
    PROVE  \E m \in S : \A n \in S : m <= n
<1>1. \E m \in S : \A n \in S : ~(<<n, m>> \in OpToRel(<, Nat))
  BY NatLessThanWellFounded, WFMin
<1>2. PICK m \in S : \A n \in S : ~(<<n, m>> \in OpToRel(<, Nat))
  BY <1>1
<1>3. ASSUME NEW n \in S, n < m
      PROVE  FALSE
  <2>1. n \in Nat /\ m \in Nat
    OBVIOUS
  <2>2. <<n, m>> \in OpToRel(<, Nat)
    BY <1>3, <2>1 DEF OpToRel
  <2> QED
    BY <1>2, <2>2
<1>4. \A n \in S : n \in Nat /\ m \in Nat
  OBVIOUS
<1> QED
  BY <1>3, <1>4

\* A bounded one has a greatest.
LEMMA GreatestElement ==
    ASSUME NEW N \in Nat, NEW S \in SUBSET (0..N), S # {}
    PROVE  \E m \in S : \A n \in S : n <= m
<1> DEFINE T == {N - s : s \in S}
<1>a. \A s \in S : s \in 0..N
  OBVIOUS
<1>1. T \in SUBSET Nat /\ T # {}
  <2>1. \A s \in S : N - s \in Nat
    BY <1>a
  <2>2. PICK s \in S : TRUE
    OBVIOUS
  <2>3. N - s \in T
    OBVIOUS
  <2> QED
    BY <2>1, <2>3
<1>2. PICK t \in T : \A n \in T : t <= n
  BY <1>1, LeastElement
<1>3. PICK s \in S : t = N - s
  OBVIOUS
<1>4. ASSUME NEW n \in S PROVE n <= s
  <2>1. N - n \in T
    OBVIOUS
  <2>2. t <= N - n
    BY <1>2, <2>1
  <2> QED
    BY <1>a, <1>3, <2>2
<1> QED
  BY <1>4

\* Joining the blocks beyond a gap reaches the end of one of them, or stays;
\* no block that starts there reaches beyond; and every Log Line passed over
\* is in one of them.
LEMMA JoinedProperties ==
    ASSUME NEW ahead, IsAhead(ahead), NEW until \in 0..MaxLines
    PROVE  LET joined == Joined(until, ahead) IN
           /\ joined \in until..MaxLines
           /\ joined = until \/ \E first \in DOMAIN ahead : joined = ahead[first]
           /\ \A first \in DOMAIN ahead : first <= joined => ahead[first] <= joined
           /\ \A line \in until..(joined - 1) :
                 \E first \in DOMAIN ahead : first <= line /\ line < ahead[first]
<1> DEFINE Ends == {until} \cup {ahead[first] : first \in DOMAIN ahead}
           Closed == {line \in Ends : /\ line >= until
                                      /\ \A first \in DOMAIN ahead : first <= line => ahead[first] <= line}
           joined == Joined(until, ahead)
<1>1. Ends \in SUBSET (0..MaxLines) /\ until \in Ends /\ MaxLines \in Nat
  BY SearchAssumption DEF IsAhead
<1>2. Closed # {}
  <2>1. PICK last \in Ends : \A end \in Ends : end <= last
    BY <1>1, GreatestElement
  <2>2. last \in Closed
    BY <1>1, <2>1
  <2> QED
    BY <2>2
<1>3. PICK least \in Closed : \A line \in Closed : least <= line
  <2>1. Closed \in SUBSET Nat
    BY <1>1
  <2> HIDE DEF Closed
  <2> QED
    BY <1>2, <2>1, LeastElement
<1>4. joined \in Closed /\ \A line \in Closed : joined <= line
  <2>1. joined = CHOOSE line \in Ends :
                    /\ line >= until
                    /\ \A first \in DOMAIN ahead : first <= line => ahead[first] <= line
                    /\ \A other \in Ends :
                          /\ other >= until
                          /\ \A first \in DOMAIN ahead : first <= other => ahead[first] <= other
                          => line <= other
    BY DEF Joined
  <2>2. /\ least \in Ends
        /\ least >= until
        /\ \A first \in DOMAIN ahead : first <= least => ahead[first] <= least
        /\ \A other \in Ends :
              /\ other >= until
              /\ \A first \in DOMAIN ahead : first <= other => ahead[first] <= other
              => least <= other
    BY <1>3
  <2> HIDE DEF Ends, joined
  <2>3. /\ joined \in Ends
        /\ joined >= until
        /\ \A first \in DOMAIN ahead : first <= joined => ahead[first] <= joined
        /\ \A other \in Ends :
              /\ other >= until
              /\ \A first \in DOMAIN ahead : first <= other => ahead[first] <= other
              => joined <= other
    BY <2>1, <2>2
  <2> QED
    BY <2>3
<1>5. ASSUME NEW line \in until..(joined - 1),
             \A first \in DOMAIN ahead : first <= line => ahead[first] <= line
      PROVE  FALSE
  <2> DEFINE Below == {end \in Ends : end <= line}
  <2>1. Below \in SUBSET (0..MaxLines) /\ until \in Below
    BY <1>1
  <2>2. PICK last \in Below : \A end \in Below : end <= last
    <3> HIDE DEF Below
    <3> QED
      BY <1>1, <2>1, GreatestElement
  <2>3. last \in Closed
    <3>1. ASSUME NEW first \in DOMAIN ahead, first <= last
          PROVE  ahead[first] <= last
      <4>1. first \in Nat /\ last <= line
        BY <1>1, SearchAssumption DEF IsAhead, Lines
      <4>2. ahead[first] <= line
        BY <1>5, <1>1, <3>1, <4>1
      <4> QED
        BY <2>2, <4>2
    <3> QED
      BY <1>1, <2>1, <2>2, <3>1
  <2> QED
    BY <1>1, <1>4, <2>3
<1>6. ASSUME NEW line \in until..(joined - 1)
      PROVE  \E first \in DOMAIN ahead : first <= line /\ line < ahead[first]
  <2>1. PICK first \in DOMAIN ahead : first <= line /\ ~(ahead[first] <= line)
    BY <1>5
  <2> QED
    BY <1>1, <2>1 DEF IsAhead
<1> QED
  BY <1>1, <1>4, <1>6

\* addAll() of a block beyond a gap, which is noted, and of one that is not,
\* which is joined on.
LEMMA AddAllFields ==
    ASSUME NEW d, IsData(d), NEW first \in Lines, NEW end \in 1..MaxLines, NEW matches \in SUBSET Lines
    PROVE  LET added == AddAll(d, first, end, matches) IN
           /\ IsData(added) /\ added.found = d.found \cup matches
           /\ first > d.until =>
                 /\ added.until = d.until
                 /\ DOMAIN added.ahead = DOMAIN d.ahead \cup {first}
                 /\ \A f \in DOMAIN d.ahead : f # first => added.ahead[f] = d.ahead[f]
                 /\ added.ahead[first] = IF first \in DOMAIN d.ahead THEN Later(d.ahead[first], end)
                                         ELSE end
           /\ ~(first > d.until) =>
                 /\ added.until = Joined(Later(d.until, end), d.ahead)
                 /\ DOMAIN added.ahead = {f \in DOMAIN d.ahead : f > added.until}
                 /\ \A f \in DOMAIN added.ahead : added.ahead[f] = d.ahead[f]
<1> DEFINE added == AddAll(d, first, end, matches)
<1>1. CASE first > d.until
  <2> DEFINE ahead == [f \in DOMAIN d.ahead \cup {first} |->
                          IF f # first THEN d.ahead[f]
                          ELSE IF first \in DOMAIN d.ahead THEN Later(d.ahead[first], end) ELSE end]
  <2>1. added = [d EXCEPT !.found = @ \cup matches, !.ahead = ahead]
    BY <1>1 DEF AddAll
  <2>2. IsAhead(ahead)
    BY DEF IsAhead, IsData, Later
  <2> HIDE DEF ahead
  <2>3. added = [until |-> d.until, ahead |-> ahead, found |-> d.found \cup matches]
    BY <2>1 DEF IsData
  <2>4. IsData(added)
    BY <2>2, <2>3 DEF IsData
  <2> QED
    BY <1>1, <2>3, <2>4 DEF ahead
<1>2. CASE ~(first > d.until)
  <2> DEFINE joined == Joined(Later(d.until, end), d.ahead)
             ahead == [f \in {f \in DOMAIN d.ahead : f > joined} |-> d.ahead[f]]
  <2>1. added = [d EXCEPT !.found = @ \cup matches, !.until = joined, !.ahead = ahead]
    BY <1>2 DEF AddAll
  <2>2. Later(d.until, end) \in 0..MaxLines
    BY DEF IsData, Later
  <2>3. joined \in 0..MaxLines
    BY <2>2, JoinedProperties, SearchAssumption DEF IsData
  <2>4. IsAhead(ahead)
    BY DEF IsAhead, IsData
  <2> HIDE DEF ahead, joined
  <2>5. added = [until |-> joined, ahead |-> ahead, found |-> d.found \cup matches]
    BY <2>1 DEF IsData
  <2>6. IsData(added)
    BY <2>3, <2>4, <2>5 DEF IsData
  <2> QED
    BY <1>2, <2>5, <2>6 DEF ahead, joined
<1> QED
  BY <1>1, <1>2

\* searchFrom()
LEMMA SearchFromFields ==
    ASSUME NEW d, IsData(d), NEW line \in 0..MaxLines
    PROVE  /\ IsData(SearchFrom(d, line)) /\ SearchFrom(d, line).until = line
           /\ SearchFrom(d, line).found = d.found /\ DOMAIN SearchFrom(d, line).ahead = {}
<1>1. IsAhead(NoneAhead) /\ DOMAIN NoneAhead = {}
  BY DEF IsAhead, NoneAhead
<1>2. SearchFrom(d, line) = [d EXCEPT !.until = line, !.ahead = NoneAhead]
  BY DEF SearchFrom
<1>3. SearchFrom(d, line) = [until |-> line, ahead |-> NoneAhead, found |-> d.found]
  BY <1>2 DEF IsData
<1> QED
  BY <1>1, <1>3 DEF IsData

\* Nothing is held of a run that was cleared.
LEMMA EmptyDataFields ==
    /\ IsData(EmptyData) /\ EmptyData.until = 0 /\ EmptyData.found = {}
    /\ DOMAIN EmptyData.ahead = {}
<1>1. IsAhead(NoneAhead) /\ DOMAIN NoneAhead = {} /\ 0 \in 0..MaxLines
  BY SearchAssumption DEF IsAhead, NoneAhead
<1> QED
  BY <1>1 DEF EmptyData, IsData

-----------------------------------------------------------------------------
(* Every step keeps the types.                                             *)

\* Search Limits, and the key of what they bound in the cache.
LEMMA RangeType ==
    ASSUME NEW pattern \in Patterns, NEW range \in Ranges
    PROVE  /\ range[1] \in 0..MaxLines /\ range[2] \in 0..MaxLines
           /\ range = <<range[1], range[2]>>
           /\ Key(pattern, range) \in Keys \ {NoKey}
<1>1. range \in (0..MaxLines) \X (0..MaxLines)
  BY SearchAssumption
<1>2. Key(pattern, range).pattern \in Patterns
  BY DEF Key
<1>3. Key(pattern, range) # NoKey
  BY <1>2, SearchAssumption DEF NoKey
<1>4. Key(pattern, range) \in Keys
  BY DEF Keys
<1> QED
  BY <1>1, <1>3, <1>4

\* What a run does not touch keeps its types.
LEMMA RunTypesKept ==
    ASSUME RunTypes, UNCHANGED <<lines, opVars, reports>>
    PROVE  RunTypes'
  BY DEF opVars, RunTypes, IsData, IsAhead, InFlight, InOrder

\* What a follower holds is a set of Log Lines.
LEMMA FollowedType ==
    ASSUME NEW r \in ResultsType, followed \subseteq Lines, Notify(r), faithful \in BOOLEAN
    PROVE  results' \in ResultsType /\ followed' \subseteq Lines /\ faithful' \in BOOLEAN
<1>1. Publish(r) \in ResultsType
  BY PublishFields
<1>2. Publish(r).matches \subseteq Lines /\ Publish(r).new \subseteq Lines
  BY ONLY <1>1 DEF ResultsType
<1>3. Followed(Publish(r)) \subseteq Lines
  BY <1>2 DEF Followed
<1> QED
  BY <1>3, NotifyFields

\* The count of the Matches is a number.
LEMMA CountType ==
    ASSUME NEW r \in ResultsType
    PROVE  Count(r) \in Int /\ Cardinality(r.matches) \in Int
<1>1. r.matches \in SUBSET Lines /\ r.arrived \in SUBSET Lines /\ r.stale \in SUBSET Lines
  BY DEF ResultsType
<1> QED
  BY <1>1, LinesFinite DEF Count

\* startRun(), up to the Background Run being asked.
LEMMA StartRunTypes ==
    ASSUME TypeInv, NEW newJob \in JobType, NEW newResults \in ResultsType, NEW newKey \in Keys,
           StartRun(newJob, newResults, newKey)
    PROVE  TypeInv'
<1>1. RunTypes'
  BY RunTypesKept DEF TypeInv, StartRun, fileVars, opVars
<1>2. IsCache(cache)'
  BY DEF TypeInv, IsCache, StartRun
<1>3. state' \in StateType
  <2>1. Cardinality(newResults.matches) \in Int
    BY CountType
  <2> QED
    BY <2>1 DEF StartRun, StateType, JobType, Phases
<1>4. OwnerTypes'
  <2>1. lastRun + 1 \in 0..MaxRuns
    BY SearchAssumption DEF TypeInv, OwnerTypes, StartRun
  <2>2. newJob # NoJob
    BY SearchAssumption DEF JobType, NoJob
  <2> QED
    BY <1>3, <2>1, <2>2 DEF TypeInv, OwnerTypes, StartRun, fileVars
<1> QED
  BY <1>1, <1>2, <1>4 DEF TypeInv

\* The jobs a run is started with.
LEMMA JobTypes ==
    ASSUME NEW id \in 1..MaxRuns, NEW pattern \in Patterns, NEW start \in 0..MaxLines,
           NEW end \in 0..MaxLines, NEW position \in 0..MaxLines
    PROVE  /\ FullJob(id, pattern, start, end) \in JobType
           /\ UpdateJob(id, pattern, start, end, position) \in JobType
           /\ LET update == UpdateJob(id, pattern, start, end, position) IN
                 /\ update.id = id /\ update.pc = "begun" /\ update.full = FALSE
                 /\ update.pattern = pattern /\ update.start = start /\ update.end = end
                 /\ update.position = position
<1>1. 0 \in 0..MaxLines
  BY SearchAssumption
<1>2. FullJob(id, pattern, start, end) \in JobType
  BY <1>1 DEF JobType, FullJob
<1>3. ASSUME NEW full \in JobType
      PROVE  LET update == [full EXCEPT !.full = FALSE, !.position = position] IN
             /\ update \in JobType
             /\ update.id = full.id /\ update.pc = full.pc /\ update.full = FALSE
             /\ update.pattern = full.pattern /\ update.start = full.start /\ update.end = full.end
             /\ update.position = position
  BY DEF JobType
<1>4. UpdateJob(id, pattern, start, end, position) =
          [FullJob(id, pattern, start, end) EXCEPT !.full = FALSE, !.position = position]
  BY DEF UpdateJob
<1>5. LET full == FullJob(id, pattern, start, end) IN
      /\ full.id = id /\ full.pc = "begun" /\ full.pattern = pattern
      /\ full.start = start /\ full.end = end
  BY DEF FullJob
<1> QED
  BY <1>2, <1>3, <1>4, <1>5

\* The cache, cut back, keeps its types.
LEMMA CacheTypes ==
    ASSUME NEW kept, IsCache(kept), NEW keys \in SUBSET DOMAIN kept
    PROVE  IsCache(Restricted(kept, keys))
  BY FS_Subset DEF IsCache, Restricted

\* Every request, and stop(), keeps the types.
LEMMA RequestTypes ==
    ASSUME TypeInv, Requests
    PROVE  TypeInv'
<1>a. /\ results \in ResultsType /\ state \in StateType /\ followed \subseteq Lines
      /\ faithful \in BOOLEAN /\ RunTypes /\ IsCache(cache) /\ NoKey \in Keys
  BY DEF TypeInv, OwnerTypes, Keys
<1>b. ASSUME UNCHANGED <<lines, opVars, reports, cache>>, OwnerTypes'
      PROVE  TypeInv'
  BY <1>a, <1>b, RunTypesKept DEF TypeInv, IsCache
<1>c. /\ 0 \in 0..MaxRuns /\ 0 \in 0..MaxLines /\ 0 \in Int
      /\ Idle \in StateType
  BY SearchAssumption DEF Idle, StateType, Phases
<1>1. CASE RequestContinued
  <2>1. PICK pattern \in Patterns, range \in Ranges :
            StartRun(UpdateJob(lastRun + 1, pattern, range[1], range[2], results.processed),
                     Recheck(Publish(results), range[1]), NoKey)
    BY <1>1 DEF RequestContinued, Requestable
  <2>2. lastRun + 1 \in 1..MaxRuns /\ range[1] \in 0..MaxLines /\ range[2] \in 0..MaxLines
    BY <2>1, SearchAssumption, RangeType DEF StartRun, TypeInv, OwnerTypes
  <2>3. results.processed \in 0..MaxLines
    BY <1>a DEF ResultsType
  <2>4. range[1] \in Nat
    BY RangeType
  <2>5. Recheck(Publish(results), range[1]) \in ResultsType
    BY <1>a, <2>4, PublishFields, RecheckFields
  <2> QED
    BY <1>a, <2>1, <2>2, <2>3, <2>5, JobTypes, StartRunTypes
<1>2. CASE RequestFresh
  <2>1. PICK pattern \in Patterns, range \in Ranges :
            StartRun(FullJob(lastRun + 1, pattern, range[1], range[2]), Reset(results), Key(pattern, range))
    BY <1>2 DEF RequestFresh, Requestable
  <2>2. lastRun + 1 \in 1..MaxRuns /\ range[1] \in 0..MaxLines /\ range[2] \in 0..MaxLines
    BY <2>1, SearchAssumption, RangeType DEF StartRun, TypeInv, OwnerTypes
  <2>3. Key(pattern, range) \in Keys
    BY RangeType
  <2>4. FullJob(lastRun + 1, pattern, range[1], range[2]) \in JobType
    BY <1>c, <2>2, SearchAssumption DEF FullJob, JobType
  <2>5. Reset(results) \in ResultsType
    BY <1>a, ResetFields
  <2> QED
    BY <2>1, <2>3, <2>4, <2>5, StartRunTypes
<1>3. CASE RequestInvalid
  <2>1. PICK range \in Ranges :
            state' = [Idle EXCEPT !.phase = "InvalidPattern", !.start = range[1], !.end = range[2]]
    BY <1>3 DEF RequestInvalid, Requestable
  <2>2. range[1] \in 0..MaxLines /\ range[2] \in 0..MaxLines
    BY SearchAssumption
  <2>3. state' \in StateType
    BY <1>c, <2>1, <2>2 DEF StateType, Phases
  <2>4. results' \in ResultsType /\ followed' \subseteq Lines /\ faithful' \in BOOLEAN
    BY <1>3, <1>a, ResetFields, FollowedType DEF RequestInvalid
  <2> QED
    BY <1>3, <1>b, <1>c, <2>3, <2>4 DEF RequestInvalid, Invalidate, opVars, fileVars, TypeInv, OwnerTypes
<1>4. CASE RequestIdle
  <2>1. results' \in ResultsType /\ followed' \subseteq Lines /\ faithful' \in BOOLEAN
    BY <1>4, <1>a, ResetFields, FollowedType DEF RequestIdle
  <2> QED
    BY <1>4, <1>a, <1>b, <1>c, <2>1 DEF RequestIdle, Invalidate, opVars, fileVars, TypeInv, OwnerTypes
<1>5. CASE RequestCached
  <2>1. PICK pattern \in Patterns, range \in Ranges :
            /\ InCache(Key(pattern, range))
            /\ state' = [phase |-> "Complete", pattern |-> pattern, start |-> range[1],
                         end |-> range[2], fromCache |-> TRUE,
                         count |-> Cardinality(cache[Key(pattern, range)])]
            /\ cacheKey' = Key(pattern, range)
            /\ Notify([Reset(results) EXCEPT !.matches = cache[Key(pattern, range)], !.processed = range[2]])
    BY <1>5 DEF RequestCached, Requestable
  <2>2. /\ range[1] \in 0..MaxLines /\ range[2] \in 0..MaxLines
        /\ Key(pattern, range) \in Keys
    BY RangeType
  <2>3. cache[Key(pattern, range)] \in SUBSET Lines
    BY <1>a, <2>1 DEF InCache, IsCache
  <2>4. [Reset(results) EXCEPT !.matches = cache[Key(pattern, range)], !.processed = range[2]] \in ResultsType
    <3>1. Reset(results) \in ResultsType
      BY <1>a, ResetFields
    <3> QED
      BY <2>2, <2>3, <3>1 DEF ResultsType
  <2>5. results' \in ResultsType /\ followed' \subseteq Lines /\ faithful' \in BOOLEAN
    BY <1>a, <2>1, <2>4, FollowedType
  <2>6. state' \in StateType
    BY <2>1, <2>2, <2>3, LinesFinite DEF StateType, Phases
  <2> QED
    BY <1>5, <1>b, <1>c, <2>1, <2>2, <2>5, <2>6
    DEF RequestCached, Invalidate, opVars, fileVars, TypeInv, OwnerTypes
<1>6. CASE Stop
  <2>1. state' \in StateType
    BY <1>6, <1>a DEF Stop, StateType, Phases
  <2>2. results' \in ResultsType /\ followed' \subseteq Lines /\ faithful' \in BOOLEAN
    BY <1>6, <1>a, FollowedType DEF Stop
  <2> QED
    BY <1>6, <1>b, <1>c, <2>1, <2>2 DEF Stop, Invalidate, opVars, fileVars, TypeInv, OwnerTypes
<1> QED
  BY <1>1, <1>2, <1>3, <1>4, <1>5, <1>6 DEF Requests

\* Every report delivered, and the throttler's, keeps the types.
LEMMA ReportTypes ==
    ASSUME TypeInv, Reported \/ EmitThrottled \/ RunBegins \/ SetSearchPolicy
    PROVE  TypeInv'
<1>a. /\ results \in ResultsType /\ state \in StateType /\ followed \subseteq Lines
      /\ faithful \in BOOLEAN /\ RunTypes /\ IsCache(cache) /\ NoKey \in Keys /\ IsData(data)
      /\ cacheKey \in Keys /\ lines \in Seq(Readings) /\ Len(lines) <= MaxLines
  BY DEF TypeInv, OwnerTypes, RunTypes, Keys
<1>b. ASSUME NEW kinds, Handling(kinds), state' \in StateType, results' \in ResultsType,
             cacheKey' \in Keys, IsCache(cache'), IsData(data'), followed' \subseteq Lines,
             faithful' \in BOOLEAN
      PROVE  TypeInv'
  <2>1. reports' \in Seq(ReportType)
    BY <1>a, <1>b DEF Handling, RunTypes
  <2>2. RunTypes'
    BY <1>a, <1>b, <2>1 DEF Handling, RunTypes, InFlight, InOrder, fileVars
  <2>3. OwnerTypes'
    BY <1>b DEF Handling, TypeInv, OwnerTypes, ownerVars, fileVars
  <2> QED
    BY <1>b, <2>2, <2>3 DEF TypeInv
<1>c. Apply(results) \in ResultsType /\ Count(Apply(results)) \in Int
  BY <1>a, ApplyFields, CountType
<1>d. Taken => IsData(data')
  BY <1>a DEF Taken, IsData, IsAhead
<1>1. CASE DropReport
  <2>1. reports' \in Seq(ReportType)
    BY <1>a, <1>1 DEF DropReport, RunTypes
  <2>2. RunTypes'
    BY <1>a, <1>1, <2>1 DEF DropReport, RunTypes, InFlight, InOrder, opVars, fileVars
  <2> QED
    BY <1>1, <2>2 DEF DropReport, TypeInv, OwnerTypes, ownerVars, sessionVars, fileVars, historyVars, IsCache
<1>2. CASE SearchProgressed
  <2>1. results' \in ResultsType
    <3>1. results' = [Apply(results) EXCEPT !.pending = TRUE]
      BY <1>2 DEF SearchProgressed
    <3> QED
      BY ONLY <1>c, <3>1 DEF ResultsType
  <2>2. state' \in StateType
    BY <1>2, <1>a, <1>c DEF SearchProgressed, StateType
  <2> QED
    BY <1>2, <1>a, <1>b, <1>d, <2>1, <2>2 DEF SearchProgressed
<1>3. CASE SearchFailed
  <2>1. results' \in ResultsType /\ followed' \subseteq Lines /\ faithful' \in BOOLEAN
    BY <1>3, <1>a, ResetFields, FollowedType DEF SearchFailed
  <2>2. state' \in StateType
    <3>1. state' = [state EXCEPT !.phase = "Failed", !.count = 0] /\ "Failed" \in Phases /\ 0 \in Int
      BY <1>3 DEF SearchFailed, Phases
    <3> QED
      BY ONLY <1>a, <3>1 DEF StateType
  <2> QED
    BY <1>3, <1>a, <1>b, <2>1, <2>2 DEF SearchFailed
<1>4. CASE SearchFinished
  <2>1. /\ Handling({"returned"}) /\ UNCHANGED cacheKey /\ Taken
        /\ Notify(Apply(results))
        /\ state' = [state EXCEPT !.phase = "Complete", !.count = Count(Apply(results))]
        /\ UNCHANGED cache \/ UpdateCache(Publish(Apply(results)).matches)
    BY <1>4 DEF SearchFinished
  <2>2. results' \in ResultsType /\ followed' \subseteq Lines /\ faithful' \in BOOLEAN
    BY <1>a, <1>c, <2>1, FollowedType
  <2>3. state' \in StateType
    BY <1>a, <1>c, <2>1 DEF StateType, Phases
  <2>4. Publish(Apply(results)).matches \in SUBSET Lines
    <3>1. Publish(Apply(results)) \in ResultsType
      BY <1>c, PublishFields
    <3> QED
      BY ONLY <3>1 DEF ResultsType
  <2>5. IsCache(cache')
    <3>1. CASE UNCHANGED cache
      BY <1>a, <3>1
    <3>2. CASE UpdateCache(Publish(Apply(results)).matches) /\ cache' # cache
      <4> DEFINE matches == Publish(Apply(results)).matches
      <4> DEFINE filled == [key \in DOMAIN cache \cup {cacheKey} |->
                               IF key = cacheKey THEN matches ELSE cache[key]]
      <4>1. cacheKey # NoKey /\ \E keys \in Kept(filled) : cache' = Restricted(filled, keys)
        BY <3>2 DEF UpdateCache
      <4>2. PICK keys \in SUBSET DOMAIN filled : cache' = Restricted(filled, keys)
        BY <4>1 DEF Kept
      <4>3. IsCache(filled)
        <5>1. matches \in SUBSET Lines /\ cacheKey \in Keys \ {NoKey}
          BY <1>a, <2>4, <4>1
        <5> HIDE DEF matches
        <5>2. IsFiniteSet(DOMAIN cache \cup {cacheKey}) /\ DOMAIN filled = DOMAIN cache \cup {cacheKey}
          BY <1>a, FS_AddElement DEF IsCache
        <5> QED
          BY <1>a, <5>1, <5>2 DEF IsCache
      <4> HIDE DEF filled
      <4> QED
        BY <4>2, <4>3, CacheTypes
    <3> QED
      BY <2>1, <3>1, <3>2
  <2> QED
    BY <1>a, <1>b, <1>d, <2>1, <2>2, <2>3, <2>5
<1>5. CASE EmitThrottled
  <2>1. results' \in ResultsType /\ followed' \subseteq Lines /\ faithful' \in BOOLEAN
    BY <1>5, <1>a, FollowedType DEF EmitThrottled
  <2>2. RunTypes'
    BY <1>5, <1>a, RunTypesKept DEF EmitThrottled, opVars, fileVars
  <2> QED
    BY <1>5, <2>1, <2>2 DEF EmitThrottled, TypeInv, OwnerTypes, ownerVars, fileVars, IsCache
<1>6. CASE RunBegins
  <2>1. results' \in ResultsType /\ followed' \subseteq Lines /\ faithful' \in BOOLEAN
    BY <1>6, <1>a, FollowedType DEF RunBegins
  <2>2. waiting \in JobType /\ job' = waiting
    BY <1>6 DEF RunBegins, TypeInv, OwnerTypes
  <2>3. RunTypes'
    <3>1. blocks = {} /\ picked = NoBlock /\ limiter.offered = NoBlock
      BY <1>6 DEF RunBegins, TypeInv, RunTypes, NoJob
    <3> QED
      BY <1>6, <1>a, <2>2, <3>1 DEF RunBegins, RunTypes, InFlight, InOrder, fileVars
  <2>4. waiting.id \in 0..MaxRuns
    BY <2>2, SearchAssumption DEF JobType
  <2> QED
    BY <1>6, <2>1, <2>3, <2>4 DEF RunBegins, TypeInv, OwnerTypes, fileVars, IsCache
<1>7. CASE SetSearchPolicy
  <2>1. RunTypes'
    BY <1>7, <1>a, RunTypesKept DEF SetSearchPolicy, opVars, fileVars
  <2> QED
    BY <1>7, <2>1, SearchAssumption
    DEF SetSearchPolicy, TypeInv, OwnerTypes, ownerVars, fileVars, historyVars, IsCache
<1> QED
  BY <1>1, <1>2, <1>3, <1>4, <1>5, <1>6, <1>7 DEF Reported

\* Where a run starts.
LEMMA BeginFields ==
    ASSUME RunTypes, job # NoJob, NEW seed, IsData(seed), NEW from \in 0..MaxLines,
           BeginSearch(seed, from)
    PROVE  /\ job' \in JobType /\ job'.id = job.id /\ job'.pc = "searching" /\ job'.full = job.full
           /\ job'.pattern = job.pattern /\ job'.start = job.start /\ job'.position = job.position
           /\ job'.next = Later(from, job.start) /\ job'.end = Least(job.end, NbLines)
           /\ IsData(data') /\ data'.until = Later(from, job.start) /\ data'.found = seed.found
           /\ DOMAIN data'.ahead = {}
<1>1. job \in JobType
  BY DEF RunTypes
<1>2. Later(from, job.start) \in 0..MaxLines
  BY <1>1 DEF JobType, Later
<1>3. Least(job.end, NbLines) \in 0..MaxLines
  BY <1>1, SearchAssumption DEF RunTypes, JobType, Least, NbLines
<1>4. /\ data' = SearchFrom(seed, Later(from, job.start))
      /\ job' = [job EXCEPT !.pc = "searching", !.next = Later(from, job.start), !.end = Least(@, NbLines)]
  BY DEF BeginSearch
<1>5. /\ job' \in JobType /\ job'.id = job.id /\ job'.pc = "searching" /\ job'.full = job.full
      /\ job'.pattern = job.pattern /\ job'.start = job.start /\ job'.position = job.position
      /\ job'.next = Later(from, job.start) /\ job'.end = Least(job.end, NbLines)
  BY ONLY <1>1, <1>2, <1>3, <1>4 DEF JobType
<1> QED
  BY <1>2, <1>4, <1>5, SearchFromFields

\* The limiter counts the blocks in flight: one more, one less, one handed on.
LEMMA FlightTypes ==
    ASSUME RunTypes
    PROVE  /\ \A block : block \notin blocks =>
                 IsFiniteSet(blocks \cup {block}) /\ Cardinality(blocks \cup {block}) = Cardinality(blocks) + 1
           /\ \A block \in blocks :
                 IsFiniteSet(blocks \ {block}) /\ Cardinality(blocks \ {block}) = Cardinality(blocks) - 1
           /\ Cardinality(blocks) \in Nat /\ MaxBlocks \in Nat /\ MaxBlocks > 0
           /\ picked = NoBlock => limiter.count = Cardinality(blocks)
           /\ picked # NoBlock => limiter.count = Cardinality(blocks) + 1
           /\ limiter.count \in 0..MaxBlocks /\ limiter.offered \in BlockType \cup {NoBlock}
           /\ limiter = [count |-> limiter.count, offered |-> limiter.offered]
<1>1. Cardinality(blocks) \in Nat /\ MaxBlocks \in Nat /\ MaxBlocks > 0
  BY FS_CardinalityType, SearchAssumption DEF RunTypes
<1>2. ASSUME NEW block, block \notin blocks
      PROVE  IsFiniteSet(blocks \cup {block}) /\ Cardinality(blocks \cup {block}) = Cardinality(blocks) + 1
  BY <1>2, FS_AddElement DEF RunTypes
<1>3. ASSUME NEW block \in blocks
      PROVE  IsFiniteSet(blocks \ {block}) /\ Cardinality(blocks \ {block}) = Cardinality(blocks) - 1
  BY FS_RemoveElement DEF RunTypes
<1>4. /\ picked = NoBlock => limiter.count = Cardinality(blocks)
      /\ picked # NoBlock => limiter.count = Cardinality(blocks) + 1
  BY <1>1 DEF RunTypes, InFlight
<1>5. /\ limiter.count \in 0..MaxBlocks /\ limiter.offered \in BlockType \cup {NoBlock}
      /\ limiter = [count |-> limiter.count, offered |-> limiter.offered]
  BY DEF RunTypes
<1> QED
  BY <1>1, <1>2, <1>3, <1>4, <1>5

\* A run that returns has combined every block it read: the limiter has room
\* for the one it read last.
LEMMA ReturnsEmpty ==
    ASSUME RunTypes, EndRun
    PROVE  /\ blocks = {} /\ picked = NoBlock /\ limiter.offered = NoBlock
           /\ job.pc = "skipped" \/ (job.pc = "searching" /\ (job.next >= job.end \/ Superseded))
<1>1. blocks = {} /\ picked = NoBlock
  BY DEF EndRun
<1>2. limiter.count = 0
  BY <1>1, FlightTypes, FS_EmptySet
<1>3. HasRoom
  BY <1>2, FlightTypes DEF HasRoom
<1> QED
  BY <1>1, <1>3 DEF EndRun, RunTypes

\* Every step of the run keeps the types of what it changes.
LEMMA RunStepTypes ==
    ASSUME RunTypes, activeRun \in 0..MaxRuns, Run, MaxBlocks >= 0
    PROVE  RunTypes' /\ UNCHANGED activeRun
<1>a. /\ IsData(data) /\ blocks \subseteq BlockType /\ IsFiniteSet(blocks)
      /\ picked \in BlockType \cup {NoBlock} /\ reports \in Seq(ReportType)
      /\ job \in JobType \cup {NoJob}
      /\ lines \in Seq(Readings) /\ Len(lines) <= MaxLines
      /\ NbLines \in Nat /\ NbLines <= MaxLines /\ MaxLines \in Nat
  BY SearchAssumption DEF RunTypes, NbLines
<1>b. job.id # 0 => job \in JobType /\ job # NoJob
  BY <1>a DEF NoJob
<1>c. ASSUME NEW kind \in {"progress", "returned", "superseded", "failed"}, job.id # 0
      PROVE  Append(reports, [id |-> job.id, kind |-> kind]) \in Seq(ReportType)
  <2>1. [id |-> job.id, kind |-> kind] \in ReportType
    BY <1>b, <1>c DEF JobType, ReportType
  <2> QED
    BY <1>a, <2>1
<1>1. CASE RunFull
  <2>1. job # NoJob /\ job \in JobType
    BY <1>1, <1>b DEF RunFull
  <2>2. CASE Superseded
    <3>1. job' = [job EXCEPT !.pc = "skipped"] /\ data' = EmptyData
      BY <1>1, <2>2 DEF RunFull
    <3>2. job' \in JobType
      BY <2>1, <3>1 DEF JobType
    <3> QED
      BY <1>1, <1>a, <3>1, <3>2, EmptyDataFields DEF RunFull, RunTypes, InFlight, InOrder
  <2>3. CASE ~Superseded
    <3>1. BeginSearch(EmptyData, 0) /\ 0 \in 0..MaxLines
      BY <1>1, <2>3, <1>a DEF RunFull
    <3>2. job' \in JobType /\ IsData(data')
      BY <2>1, <3>1, BeginFields, EmptyDataFields
    <3> QED
      BY <1>1, <1>a, <3>2 DEF RunFull, RunTypes, InFlight, InOrder
  <2> QED
    BY <2>2, <2>3
<1>2. CASE RunUpdate
  <2>1. job # NoJob /\ job \in JobType
    BY <1>2, <1>b DEF RunUpdate
  <2>2. CASE Superseded
    <3>1. job' = [job EXCEPT !.pc = "skipped"] /\ data' = data
      BY <1>2, <2>2 DEF RunUpdate
    <3>2. job' \in JobType
      BY <2>1, <3>1 DEF JobType
    <3> QED
      BY <1>2, <1>a, <3>1, <3>2 DEF RunUpdate, RunTypes, InFlight, InOrder
  <2>3. CASE ~Superseded
    <3>1. BeginSearch(data, ContinueAt(job.position)) /\ ContinueAt(job.position) \in 0..MaxLines
      <4>1. data.until \in 0..MaxLines /\ job.position \in 0..MaxLines
        BY <1>a, <2>1 DEF IsData, JobType
      <4> QED
        BY <1>2, <2>3, <4>1, <1>a DEF RunUpdate, ContinueAt, Later
    <3>2. job' \in JobType /\ IsData(data')
      BY <1>a, <2>1, <3>1, BeginFields
    <3> QED
      BY <1>2, <1>a, <3>2 DEF RunUpdate, RunTypes, InFlight, InOrder
  <2> QED
    BY <2>2, <2>3
<1>3. CASE ReadBlock
  <2>1. job \in JobType /\ job.next < job.end
    BY <1>3, <1>b DEF ReadBlock
  <2> DEFINE asked == Least(BlockLines, job.end - job.next)
  <2>2. asked \in 1..(job.end - job.next)
    BY <2>1, SearchAssumption DEF JobType, Least
  <2>3. ASSUME NEW read \in 1..Least(asked, NbLines - job.next), NEW block,
               block = [first |-> job.next, end |-> job.next + read,
                        matches |-> MatchingLines(job.pattern, job.next, job.next + read)],
               job' = [job EXCEPT !.next = @ + read],
               \/ HasRoom /\ blocks' = blocks \cup {block} /\ limiter' = [limiter EXCEPT !.count = @ + 1]
               \/ ~HasRoom /\ limiter' = [limiter EXCEPT !.offered = block] /\ UNCHANGED blocks,
               UNCHANGED passedOver
        PROVE  RunTypes'
    <3>0. Least(asked, NbLines - job.next) <= NbLines - job.next /\ job.next \in Nat
      BY <1>a, <2>1, <2>2 DEF JobType, Least
    <3>1. job.next \in Lines /\ job.next \in Nat /\ job.next + read \in 1..MaxLines /\ read \in Nat /\ read >= 1
      <4>1. read \in Nat /\ read >= 1 /\ read <= NbLines - job.next
        BY <1>a, <2>1, <2>2, <3>0 DEF JobType, Least
      <4> HIDE DEF asked
      <4> QED
        BY <1>a, <3>0, <4>1 DEF Lines
    <3>2. job' \in JobType /\ job'.id = job.id /\ job'.pc = job.pc /\ job'.next = job.next + read
      BY <2>1, <2>3, <3>1 DEF JobType
    <3>3. MatchingLines(job.pattern, job.next, job.next + read) \subseteq Lines
      BY <1>a, <3>1, MatchingType
    <3>4. block \in BlockType /\ block.first = job.next /\ block.end = job.next + read /\ block # NoBlock
      BY <2>3, <3>1, <3>3 DEF BlockType, NoBlock
    <3>5. \A other \in blocks : other.first < other.end /\ other.end <= job.next
                               /\ other.first \in Nat /\ other.end \in Nat
      BY <1>3, <1>a, <2>1, SearchAssumption DEF ReadBlock, RunTypes, InOrder, BlockType, Lines
    <3>6. block \notin blocks
      BY <3>1, <3>4, <3>5
    <3>7. /\ blocks' \subseteq BlockType /\ IsFiniteSet(blocks') /\ UNCHANGED picked
          /\ limiter' \in [count : 0..MaxBlocks, offered : BlockType \cup {NoBlock}]
          /\ limiter'.count = InFlight'
      <4>1. CASE HasRoom
        <5>1. limiter.count < MaxBlocks
          BY <4>1 DEF HasRoom
        <5>2. /\ blocks' = blocks \cup {block} /\ limiter' = [limiter EXCEPT !.count = @ + 1]
              /\ picked' = picked
          BY <1>3, <2>3, <4>1 DEF ReadBlock
        <5>3. /\ limiter' = [count |-> limiter.count + 1, offered |-> limiter.offered]
              /\ limiter.count + 1 \in 0..MaxBlocks
              /\ IsFiniteSet(blocks') /\ Cardinality(blocks') = Cardinality(blocks) + 1
          BY <3>6, <5>1, <5>2, FlightTypes
        <5>4. limiter'.count = InFlight'
          BY <5>2, <5>3, FlightTypes DEF InFlight
        <5> QED
          BY <1>a, <3>4, <5>2, <5>3, <5>4, FlightTypes
      <4>2. CASE ~HasRoom
        BY <1>3, <1>a, <2>3, <3>4, <4>2, FlightTypes DEF ReadBlock, RunTypes, InFlight
      <4> QED
        BY <4>1, <4>2
    <3>8. InOrder'
      <4>0. limiter.offered = NoBlock
        BY <1>3 DEF ReadBlock
      <4>1. CASE HasRoom
        <5>1. limiter'.offered = NoBlock /\ blocks' = blocks \cup {block}
          BY <2>3, <4>0, <4>1, FlightTypes
        <5> QED
          BY ONLY <3>1, <3>2, <3>4, <3>5, <5>1 DEF InOrder
      <4>2. CASE ~HasRoom
        <5>1. limiter'.offered = block /\ blocks' = blocks
          BY <2>3, <4>0, <4>2, FlightTypes
        <5> QED
          BY ONLY <3>1, <3>2, <3>4, <3>5, <5>1 DEF InOrder
      <4> QED
        BY <4>1, <4>2
    <3> QED
      BY <1>3, <1>a, <2>3, <3>2, <3>7, <3>8 DEF ReadBlock, RunTypes
  <2>4. ASSUME job' = [job EXCEPT !.next = @ + asked], passedOver' = TRUE, UNCHANGED <<blocks, limiter>>
        PROVE  RunTypes'
    <3>1. job.next + asked \in 0..MaxLines /\ asked \in Nat /\ job.next \in Nat
      BY <1>a, <2>1, <2>2 DEF JobType
    <3>2. job' \in JobType /\ job'.id = job.id /\ job'.pc = job.pc /\ job'.next = job.next + asked
      BY <2>1, <2>4, <3>1 DEF JobType
    <3>3. InOrder'
      <4>1. \A block \in blocks : block.first < block.end /\ block.end <= job.next /\ block.end \in Nat
        BY <1>3, <1>a DEF ReadBlock, RunTypes, InOrder, BlockType
      <4> HIDE DEF asked
      <4> QED
        BY <1>3, <2>4, <3>1, <3>2, <4>1 DEF ReadBlock, InOrder
    <3> QED
      BY <1>3, <1>a, <2>4, <3>2, <3>3 DEF ReadBlock, RunTypes, InFlight
  <2> QED
    BY <1>3, <2>3, <2>4 DEF ReadBlock
<1>4. CASE PickBlock
  <2>1. PICK block \in blocks :
           /\ blocks' = blocks \ {block} /\ picked = NoBlock
           /\ picked' = IF Superseded THEN NoBlock ELSE block
           /\ limiter' = [limiter EXCEPT !.count = IF Superseded THEN CountedDown(@) ELSE @]
    BY <1>4 DEF PickBlock
  <2>2. block # NoBlock
    BY <1>a, <2>1 DEF RunTypes, InOrder, NoBlock
  <2>3. picked' \in BlockType \cup {NoBlock} /\ IsFiniteSet(blocks')
    BY <1>a, <2>1, FlightTypes
  <2>4. /\ limiter' \in [count : 0..MaxBlocks, offered : BlockType \cup {NoBlock}]
        /\ limiter'.count = InFlight' /\ limiter'.offered = limiter.offered
    <3>1. Cardinality(blocks') = Cardinality(blocks) - 1 /\ Cardinality(blocks') \in Nat
      BY <2>1, <2>3, FlightTypes, FS_CardinalityType
    <3>2. CASE Superseded
      BY <2>1, <3>1, <3>2, FlightTypes DEF InFlight, CountedDown
    <3>3. CASE ~Superseded
      BY <2>1, <2>2, <3>1, <3>3, FlightTypes DEF InFlight
    <3> QED
      BY <3>2, <3>3
  <2>5. InOrder'
    BY <1>4, <2>1, <2>4 DEF PickBlock, RunTypes, InOrder
  <2> QED
    BY <1>4, <1>a, <2>1, <2>3, <2>4, <2>5 DEF PickBlock, RunTypes
<1>5. CASE CombineBlock
  <2>1. picked \in BlockType
    BY <1>5, <1>a DEF CombineBlock
  <2>2. IsData(data')
    <3>1. picked.first \in Lines /\ picked.end \in 1..MaxLines /\ picked.matches \in SUBSET Lines
      BY <2>1 DEF BlockType
    <3> QED
      BY <1>5, <1>a, <3>1, AddAllFields DEF CombineBlock
  <2>3. /\ limiter' \in [count : 0..MaxBlocks, offered : BlockType \cup {NoBlock}]
        /\ limiter'.count = InFlight' /\ limiter'.offered = limiter.offered
    BY <1>5, FlightTypes DEF CombineBlock, InFlight, CountedDown
  <2>4. reports' \in Seq(ReportType)
    <3>1. job.id # 0
      BY <1>5 DEF CombineBlock, RunTypes
    <3> QED
      BY <1>5, <1>a, <1>c, <3>1 DEF CombineBlock, Progressed
  <2>5. InOrder'
    BY <1>5, <2>3 DEF CombineBlock, RunTypes, InOrder
  <2> QED
    BY <1>5, <1>a, <2>2, <2>3, <2>4, <2>5 DEF CombineBlock, RunTypes
<1>6. CASE EndRun
  <2>1. /\ NoneCounted \in [count : 0..MaxBlocks, offered : BlockType \cup {NoBlock}]
        /\ NoneCounted.count = 0 /\ NoneCounted.offered = NoBlock /\ IsFiniteSet({}) /\ Cardinality({}) = 0
    BY FS_EmptySet, FlightTypes DEF NoneCounted
  <2>2. blocks' = {} /\ picked' = NoBlock /\ limiter' = NoneCounted /\ job' = NoJob
    BY <1>6 DEF EndRun
  <2>3. limiter'.count = InFlight' /\ InOrder'
    BY <2>1, <2>2 DEF InFlight, InOrder
  <2>4. reports' \in Seq(ReportType)
    BY <1>6, <1>a, <1>c DEF EndRun, Finished, RunTypes
  <2>5. UNCHANGED <<lines, data, passedOver, activeRun>>
    BY <1>6 DEF EndRun
  <2> QED
    BY <1>a, <2>1, <2>2, <2>3, <2>4, <2>5 DEF RunTypes, IsData, IsAhead
<1>7. CASE FailRun
  <2>1. /\ NoneCounted \in [count : 0..MaxBlocks, offered : BlockType \cup {NoBlock}]
        /\ NoneCounted.count = 0 /\ NoneCounted.offered = NoBlock /\ IsFiniteSet({}) /\ Cardinality({}) = 0
    BY FS_EmptySet, FlightTypes DEF NoneCounted
  <2> QED
    BY <1>7, <1>a, <1>c, <2>1, EmptyDataFields DEF FailRun, Finished, RunTypes, InFlight, InOrder
<1>8. CASE AcceptBlock
  <2>1. PICK block : block = limiter.offered
    OBVIOUS
  <2>2. /\ block \in BlockType /\ block # NoBlock /\ limiter.count < MaxBlocks
        /\ blocks' = blocks \cup {block} /\ limiter' = [count |-> limiter.count + 1, offered |-> NoBlock]
        /\ UNCHANGED <<lines, data, job, passedOver, picked, activeRun, reports>>
    BY <1>8, <1>a, <2>1, FlightTypes DEF AcceptBlock, HasRoom
  <2>3. /\ block.first < block.end /\ block.end <= job.next /\ job \in JobType
        /\ \A other \in blocks : other.first < other.end /\ other.end <= block.first
    BY <1>b, <2>1, <2>2 DEF RunTypes, InOrder
  <2>4. block.first \in Nat /\ block.end \in Nat /\ \A other \in blocks : other.first \in Nat /\ other.end \in Nat
    BY <1>a, <2>2 DEF BlockType, Lines
  <2>5. block \notin blocks
    BY <2>3, <2>4
  <2>6. /\ limiter' \in [count : 0..MaxBlocks, offered : BlockType \cup {NoBlock}]
        /\ limiter'.count = InFlight' /\ limiter'.offered = NoBlock /\ IsFiniteSet(blocks')
    BY <2>2, <2>5, FlightTypes DEF InFlight
  <2>7. InOrder'
    <3>1. job' = job /\ job.next \in Nat
      BY <2>2, <2>3 DEF JobType
    <3> QED
      BY ONLY <2>2, <2>3, <2>4, <2>6, <3>1 DEF InOrder
  <2> QED
    BY <1>a, <2>1, <2>2, <2>6, <2>7 DEF RunTypes
<1> QED
  BY <1>1, <1>2, <1>3, <1>4, <1>5, <1>6, <1>7, <1>8
  DEF Run, RunFull, RunUpdate, ReadBlock, AcceptBlock, PickBlock, CombineBlock, EndRun, FailRun

\* Log Lines that are so many at most.
LEMMA LinesType ==
    ASSUME NEW from \in Nat, NEW read \in UNION {[1..n -> Readings] : n \in from..MaxLines}
    PROVE  read \in Seq(Readings) /\ Len(read) \in Nat /\ Len(read) <= MaxLines /\ Len(read) >= from
<1>1. PICK n \in from..MaxLines : read \in [1..n -> Readings]
  OBVIOUS
<1>2. n \in Nat /\ n <= MaxLines /\ n >= from
  BY SearchAssumption
<1>3. read \in Seq(Readings) /\ Len(read) = n
  BY <1>1, <1>2
<1> QED
  BY <1>2, <1>3

\* Log Lines that change keep the types.
LEMMA ChangeTypes ==
    ASSUME TypeInv, LinesGrow \/ LinesReplaced \/ LogLinesChanged
    PROVE  TypeInv'
<1>a. /\ RunTypes /\ IsCache(cache) /\ NoKey \in Keys /\ untold \in 0..MaxLines /\ MaxLines \in Nat
      /\ 0 \in 0..MaxLines
  BY SearchAssumption DEF TypeInv, OwnerTypes, Keys, AllTold
<1>b. ASSUME lines' \in Seq(Readings), Len(lines') <= MaxLines, untold' \in 0..MaxLines,
             current' \in BOOLEAN,
             UNCHANGED <<ownerVars, sessionVars, followed, faithful, opVars, activeRun, reports>>
      PROVE  TypeInv'
  BY <1>a, <1>b DEF ownerVars, sessionVars, opVars, TypeInv, OwnerTypes, RunTypes, IsCache, IsData,
                    IsAhead, InFlight, InOrder, AllTold
<1>1. CASE LinesGrow
  <2>1. NbLines \in Nat
    BY <1>a DEF RunTypes, NbLines
  <2>2. lines' \in Seq(Readings) /\ Len(lines') <= MaxLines
    <3>1. PICK grown \in UNION {[1..n -> Readings] : n \in (NbLines + 1)..MaxLines} : lines' = grown
      BY <1>1 DEF LinesGrow
    <3>2. NbLines + 1 \in Nat
      BY <2>1
    <3> QED
      BY <3>1, <3>2, LinesType
  <2>3. untold' \in 0..MaxLines
    BY <1>1, <1>a, <2>1 DEF LinesGrow, Least
  <2> QED
    BY <1>1, <1>b, <2>2, <2>3 DEF LinesGrow
<1>2. CASE LinesReplaced
  <2>1. lines' \in Seq(Readings) /\ Len(lines') <= MaxLines
    BY <1>2, LinesType DEF LinesReplaced
  <2> QED
    BY ONLY <1>2, <1>a, <1>b, <2>1 DEF LinesReplaced
<1>3. CASE LogLinesChanged
  <2>1. IsCache(cache')
    <3>1. cache' = Restricted(cache, Unchanged(untold)) /\ Unchanged(untold) \in SUBSET DOMAIN cache
      BY <1>3 DEF LogLinesChanged, Unchanged
    <3> QED
      BY <1>a, <3>1, CacheTypes
  <2>2. RunTypes'
    BY <1>3, <1>a, RunTypesKept DEF LogLinesChanged, opVars
  <2>3. cacheKey' \in Keys /\ changedUnder' \in BOOLEAN
    BY <1>3, <1>a DEF LogLinesChanged, TypeInv, OwnerTypes
  <2> QED
    BY <1>3, <1>a, <2>1, <2>2, <2>3 DEF LogLinesChanged, TypeInv, OwnerTypes, ownerVars, historyVars, AllTold
<1> QED
  BY <1>1, <1>2, <1>3

\* Every step of the owner, of the run and of the Log File keeps the types.
LEMMA TypeStep == TypeInv /\ [Next]_vars => TypeInv'
<1> SUFFICES ASSUME TypeInv, [Next]_vars PROVE TypeInv'
  OBVIOUS
<1>1. CASE RunStep
  <2>1. RunTypes' /\ UNCHANGED activeRun
    BY <1>1, RunStepTypes, SearchAssumption DEF RunStep, TypeInv, OwnerTypes
  <2> QED
    BY <1>1, <2>1 DEF RunStep, TypeInv, OwnerTypes, ownerVars, sessionVars, historyVars, IsCache
<1>2. CASE UNCHANGED vars
  BY <1>2 DEF vars, ownerVars, sessionVars, fileVars, historyVars, opVars, TypeInv, OwnerTypes, RunTypes,
              IsCache, IsData, IsAhead, InFlight, InOrder
<1> QED
  BY <1>1, <1>2, RequestTypes, ReportTypes, ChangeTypes DEF Next

\* What the Session starts with has its types.
LEMMA TypeInit == Init => TypeInv
<1> SUFFICES ASSUME Init PROVE TypeInv
  OBVIOUS
<1>1. /\ 0 \in 0..MaxRuns /\ 0 \in 0..MaxLines /\ 0 \in Int /\ MaxLines \in 0..MaxLines /\ 0 \in 0..MaxBlocks
      /\ IsFiniteSet({}) /\ Cardinality({}) = 0
  BY SearchAssumption, FS_EmptySet
<1>2. lines \in Seq(Readings) /\ Len(lines) <= MaxLines
  BY LinesType DEF Init
<1>3. IsData(data)
  BY EmptyDataFields DEF Init
<1>4. /\ limiter \in [count : 0..MaxBlocks, offered : BlockType \cup {NoBlock}]
      /\ limiter.count = InFlight /\ limiter.offered = NoBlock /\ InOrder
  BY <1>1 DEF Init, InFlight, InOrder, NoneCounted
<1>5. RunTypes
  <2>1. job = NoJob /\ blocks = {} /\ picked = NoBlock /\ reports = <<>> /\ passedOver = FALSE
    BY DEF Init
  <2>2. reports \in Seq(ReportType)
    BY <2>1
  <2>3. blocks \subseteq BlockType /\ IsFiniteSet(blocks) /\ passedOver \in BOOLEAN
    BY <1>1, <2>1
  <2> QED
    BY <1>2, <1>3, <1>4, <2>1, <2>2, <2>3 DEF RunTypes
<1>6. state \in StateType
  BY <1>1 DEF Init, Idle, StateType, Phases
<1>7. results \in ResultsType
  BY <1>1 DEF Init, ResultsType
<1>8. useCache \in BOOLEAN
  BY SearchAssumption DEF Init
<1>9. IsCache(cache)
  BY <1>1 DEF Init, IsCache, NoResults
<1>10. /\ owner = "free" /\ waiting = NoJob /\ lastRun = 0 /\ searchId = 0 /\ activeRun = 0
       /\ changedUnder = FALSE /\ cacheKey = NoKey /\ untold = AllTold
       /\ followed = {} /\ faithful = TRUE /\ current = TRUE
  BY DEF Init
<1>11. OwnerTypes
  <2>1. NoKey \in Keys
    BY DEF Keys
  <2> QED
    BY ONLY <1>1, <1>6, <1>7, <1>8, <1>10, <2>1 DEF OwnerTypes, AllTold
<1> QED
  BY <1>5, <1>9, <1>11 DEF TypeInv

\* What a Search Session, its run and its cache keep has its type, whatever is
\* searched and whatever changes under it.
THEOREM TypeCorrect == Spec => []TypeOK
<1>1. Spec => []TypeInv
  BY TypeInit, TypeStep, PTL DEF Spec
<1> QED
  BY <1>1, TypeInvImplies, PTL

-----------------------------------------------------------------------------
(* Which run is awaited.                                                   *)

\* The run in flight is the last one started, unless the owner waits for it to
\* end; a run is awaited until its last report was handled.
OwnerInv ==
    /\ activeRun \in {0, lastRun}
    /\ owner = "starting" =>
          /\ waiting.id = lastRun /\ waiting.pc = "begun" /\ activeRun = lastRun
          /\ state.phase = "Running" /\ job.id < lastRun
    /\ owner = "free" =>
          /\ job.id \in {0, lastRun}
          /\ searchId # 0 => searchId = lastRun /\ activeRun = lastRun
          /\ state.phase = "Running" => searchId # 0
          /\ state.phase # "Running" /\ searchId # 0 => job.id # searchId
    /\ job.id # 0 /\ job.pc = "skipped" => job.id # activeRun

\* What waits to be delivered: nothing of a run that is yet to begin, nothing
\* awaited that was superseded, and nothing of a run after its end.
ReportsInv ==
    /\ \A i \in DOMAIN reports :
          /\ reports[i].id <= lastRun
          /\ owner = "starting" => reports[i].id < lastRun
          /\ reports[i].kind = "superseded" => reports[i].id # activeRun
          /\ reports[i].id = job.id => reports[i].kind = "progress" /\ job.pc # "begun"
          /\ owner = "free" /\ state.phase # "Running" => reports[i].id # searchId
    /\ \A i, j \in DOMAIN reports :
          i < j /\ reports[i].kind # "progress" => reports[j].id # reports[i].id

AwaitInv == TypeInv /\ OwnerInv /\ ReportsInv

\* What a step of the run does to the run itself, and to what is reported of it.
LEMMA RunStepJob ==
    ASSUME RunTypes, Run
    PROVE  /\ UNCHANGED activeRun
           /\ job.id \in 1..MaxRuns /\ job # NoJob
           /\ \/ /\ job.pc = "begun" /\ job'.id = job.id /\ UNCHANGED reports
                 /\ job'.pc = IF Superseded THEN "skipped" ELSE "searching"
              \/ job.pc = "searching" /\ job'.id = job.id /\ job'.pc = job.pc /\ UNCHANGED reports
              \/ /\ job.pc = "searching" /\ UNCHANGED job
                 /\ reports' = Append(reports, [id |-> job.id, kind |-> "progress"])
              \/ /\ job.pc # "begun" /\ job' = NoJob
                 /\ \E how \in {"returned", "superseded", "failed"} :
                       /\ reports' = Append(reports, [id |-> job.id, kind |-> how])
                       /\ how = "superseded" => Superseded
<1>1. job.id # 0
  BY DEF Run, RunFull, RunUpdate, ReadBlock, AcceptBlock, PickBlock, CombineBlock, EndRun, FailRun, RunTypes
<1>2. job \in JobType /\ job # NoJob
  BY <1>1 DEF RunTypes, NoJob
<1>3. job.id \in 1..MaxRuns
  BY <1>2 DEF JobType
<1>4. CASE RunFull \/ RunUpdate
  <2>1. ASSUME job' = [job EXCEPT !.pc = "skipped"]
        PROVE  job'.id = job.id /\ job'.pc = "skipped"
    BY <1>2, <2>1 DEF JobType
  <2>2. ASSUME NEW seed, NEW from, BeginSearch(seed, from)
        PROVE  job'.id = job.id /\ job'.pc = "searching"
    BY <1>2, <2>2 DEF BeginSearch, JobType
  <2> QED
    BY <1>2, <1>3, <1>4, <2>1, <2>2 DEF RunFull, RunUpdate
<1>5. CASE ReadBlock
  <2>1. ASSUME NEW next, job' = [job EXCEPT !.next = next]
        PROVE  job'.id = job.id /\ job'.pc = job.pc
    BY <1>2, <2>1 DEF JobType
  <2> QED
    BY <1>2, <1>3, <1>5, <2>1 DEF ReadBlock
<1>6. CASE AcceptBlock \/ PickBlock
  BY <1>2, <1>3, <1>6 DEF AcceptBlock, PickBlock, RunTypes
<1>7. CASE CombineBlock
  BY <1>2, <1>3, <1>7 DEF CombineBlock, Progressed, RunTypes
<1>8. CASE EndRun
  BY <1>2, <1>3, <1>8 DEF EndRun, Finished
<1>9. CASE FailRun
  BY <1>2, <1>3, <1>9 DEF FailRun, Finished
<1> QED
  BY <1>4, <1>5, <1>6, <1>7, <1>8, <1>9 DEF Run

\* Every report is one of a run.
LEMMA ReportsType ==
    ASSUME reports \in Seq(ReportType)
    PROVE  \A i \in DOMAIN reports : reports[i] \in ReportType /\ reports[i].id \in 1..MaxRuns
<1>1. ASSUME NEW i \in DOMAIN reports PROVE reports[i] \in ReportType
  OBVIOUS
<1>2. \A report \in ReportType : report.id \in 1..MaxRuns
  BY DEF ReportType
<1> QED
  BY <1>1, <1>2

\* The run goes on.
LEMMA RunStepAwait ==
    ASSUME AwaitInv, RunStep
    PROVE  OwnerInv' /\ ReportsInv'
<1>a. /\ RunTypes /\ Run /\ reports \in Seq(ReportType)
      /\ UNCHANGED <<owner, waiting, lastRun, searchId, state>>
      /\ lastRun \in Nat /\ owner \in {"free", "starting"}
  BY SearchAssumption DEF AwaitInv, TypeInv, RunStep, RunTypes, OwnerTypes, ownerVars, sessionVars
<1>b. UNCHANGED activeRun /\ job.id \in 1..MaxRuns /\ job.id # 0 /\ NoJob.id = 0
  BY <1>a, RunStepJob, SearchAssumption DEF NoJob
<1>c. \A i \in DOMAIN reports : reports[i].id \in 1..MaxRuns
  BY <1>a, ReportsType
<1>1. CASE /\ job'.id = job.id /\ UNCHANGED reports
           /\ \/ job.pc = "begun" /\ job'.pc = IF Superseded THEN "skipped" ELSE "searching"
              \/ job.pc = "searching" /\ job'.pc = job.pc
  <2>1. OwnerInv'
    BY <1>a, <1>b, <1>1 DEF AwaitInv, OwnerInv, Superseded
  <2>2. ReportsInv'
    BY <1>a, <1>b, <1>1 DEF AwaitInv, ReportsInv, Superseded
  <2> QED
    BY <2>1, <2>2
<1>2. ASSUME NEW how \in {"progress", "returned", "superseded", "failed"},
             reports' = Append(reports, [id |-> job.id, kind |-> how]),
             how = "superseded" => Superseded,
             job.pc # "begun",
             IF how = "progress" THEN UNCHANGED job ELSE job' = NoJob
      PROVE  OwnerInv' /\ ReportsInv'
  <2>1. OwnerInv'
    BY <1>a, <1>b, <1>2 DEF AwaitInv, OwnerInv
  <2> DEFINE last == [id |-> job.id, kind |-> how]
  <2>2. /\ DOMAIN reports' = 1..(Len(reports) + 1) /\ DOMAIN reports = 1..Len(reports)
        /\ Len(reports) \in Nat
        /\ \A i \in DOMAIN reports : reports'[i] = reports[i]
        /\ reports'[Len(reports) + 1] = last
    <3>1. last \in ReportType
      BY <1>b DEF ReportType
    <3> HIDE DEF last
    <3> QED
      BY <1>a, <1>2, <3>1 DEF last
  <2>3. last.id = job.id /\ last.kind = how
    OBVIOUS
  <2> HIDE DEF last
  <2>4. /\ job.id <= lastRun
        /\ owner = "starting" => job.id < lastRun
        /\ owner = "free" /\ state.phase # "Running" => job.id # searchId
        /\ how = "superseded" => job.id # activeRun
        /\ job'.id = job.id => how = "progress"
    BY <1>a, <1>b, <1>2 DEF AwaitInv, OwnerInv, Superseded
  <2>5. ASSUME NEW i \in DOMAIN reports'
        PROVE  /\ reports'[i].id <= lastRun'
               /\ owner' = "starting" => reports'[i].id < lastRun'
               /\ reports'[i].kind = "superseded" => reports'[i].id # activeRun'
               /\ reports'[i].id = job'.id => reports'[i].kind = "progress" /\ job'.pc # "begun"
               /\ owner' = "free" /\ state'.phase # "Running" => reports'[i].id # searchId'
    <3>1. CASE i \in DOMAIN reports
      <4>1. reports'[i] = reports[i]
        BY <2>2, <3>1
      <4>2. job' = job \/ job' = NoJob
        BY <1>2
      <4> QED
        BY <1>a, <1>b, <1>c, <1>2, <3>1, <4>1, <4>2 DEF AwaitInv, ReportsInv
    <3>2. CASE i = Len(reports) + 1
      <4>1. job' = job \/ job' = NoJob
        BY <1>2
      <4> QED
        BY <1>a, <1>b, <1>2, <2>2, <2>3, <2>4, <3>2, <4>1
    <3> QED
      BY <2>2, <3>1, <3>2
  <2>6. ASSUME NEW i \in DOMAIN reports', NEW j \in DOMAIN reports', i < j,
               reports'[i].kind # "progress"
        PROVE  reports'[j].id # reports'[i].id
    <3>1. i \in DOMAIN reports /\ reports'[i] = reports[i]
      BY <2>2, <2>6
    <3>2. CASE j \in DOMAIN reports
      BY <2>2, <2>6, <3>1, <3>2 DEF AwaitInv, ReportsInv
    <3>3. CASE j = Len(reports) + 1
      BY <1>c, <2>2, <2>3, <2>6, <3>1, <3>3 DEF AwaitInv, ReportsInv
    <3> QED
      BY <2>2, <3>2, <3>3
  <2>7. ReportsInv'
    BY <2>5, <2>6 DEF ReportsInv
  <2> QED
    BY <2>1, <2>7
<1> QED
  BY <1>a, <1>1, <1>2, RunStepJob

\* The owner asks for a run to start, and waits for the one before.
LEMMA StartRunAwait ==
    ASSUME AwaitInv, owner = "free", NEW newJob, NEW newResults, NEW newKey,
           newJob.id = lastRun + 1, newJob.pc = "begun", StartRun(newJob, newResults, newKey)
    PROVE  OwnerInv' /\ ReportsInv'
<1>1. /\ lastRun \in Nat /\ lastRun' = lastRun + 1 /\ activeRun' = lastRun + 1 /\ waiting' = newJob
      /\ owner' = "starting" /\ state'.phase = "Running"
      /\ UNCHANGED <<searchId, job, reports>>
  BY SearchAssumption DEF AwaitInv, TypeInv, OwnerTypes, StartRun, opVars
<1>2. job.id \in {0, lastRun} /\ \A i \in DOMAIN reports : reports[i].id <= lastRun /\ reports[i].id \in Nat
  BY ReportsType, SearchAssumption DEF AwaitInv, TypeInv, RunTypes, OwnerInv, ReportsInv
<1>3. OwnerInv'
  BY <1>1, <1>2 DEF OwnerInv
<1>4. ReportsInv'
  BY <1>1, <1>2 DEF AwaitInv, ReportsInv
<1> QED
  BY <1>3, <1>4

\* Every other step of the owner.
LEMMA OwnerStepAwait ==
    ASSUME AwaitInv, Next, ~RunStep
    PROVE  OwnerInv' /\ ReportsInv'
<1>a. /\ reports \in Seq(ReportType) /\ lastRun \in Nat /\ MaxRuns \in Nat /\ MaxRuns >= lastRun
      /\ \A i \in DOMAIN reports : reports[i].id \in 1..MaxRuns
      /\ NoJob.id = 0 /\ state \in StateType /\ NoKey \in Keys
  BY SearchAssumption, ReportsType DEF AwaitInv, TypeInv, RunTypes, OwnerTypes, NoJob, Keys
<1>1. CASE RequestContinued
  <2>1. PICK pattern \in Patterns, range \in Ranges :
            StartRun(UpdateJob(lastRun + 1, pattern, range[1], range[2], results.processed),
                     Recheck(Publish(results), range[1]), NoKey)
    BY <1>1 DEF RequestContinued, Requestable
  <2>2. /\ lastRun + 1 \in 1..MaxRuns /\ range[1] \in 0..MaxLines /\ range[2] \in 0..MaxLines
        /\ results.processed \in 0..MaxLines
    BY <1>a, <2>1, RangeType DEF StartRun, AwaitInv, TypeInv, OwnerTypes, ResultsType
  <2>3. LET newJob == UpdateJob(lastRun + 1, pattern, range[1], range[2], results.processed) IN
        newJob.id = lastRun + 1 /\ newJob.pc = "begun"
    BY DEF UpdateJob, FullJob
  <2> QED
    BY <1>1, <2>1, <2>3, StartRunAwait DEF RequestContinued
<1>2. CASE RequestFresh
  <2>1. PICK pattern \in Patterns, range \in Ranges :
            StartRun(FullJob(lastRun + 1, pattern, range[1], range[2]), Reset(results), Key(pattern, range))
    BY <1>2 DEF RequestFresh, Requestable
  <2>2. LET newJob == FullJob(lastRun + 1, pattern, range[1], range[2]) IN
        newJob.id = lastRun + 1 /\ newJob.pc = "begun"
    BY DEF FullJob
  <2> QED
    BY <1>2, <2>1, <2>2, StartRunAwait DEF RequestFresh
<1>3. CASE RequestInvalid \/ RequestIdle \/ RequestCached \/ Stop
  <2>1. /\ owner = "free" /\ activeRun' = 0 /\ searchId' = 0
        /\ UNCHANGED <<owner, lastRun, job, reports>>
    BY <1>3 DEF RequestInvalid, RequestIdle, RequestCached, Stop, Invalidate, opVars
  <2>2. state'.phase # "Running"
    <3>1. CASE RequestInvalid
      BY <3>1 DEF RequestInvalid, Idle
    <3>2. CASE RequestIdle
      BY <3>2 DEF RequestIdle, Idle
    <3>3. CASE RequestCached
      BY <3>3 DEF RequestCached
    <3>4. CASE Stop
      BY <1>a, <3>4 DEF Stop, StateType
    <3> QED
      BY <1>3, <3>1, <3>2, <3>3, <3>4
  <2>3. OwnerInv'
    BY <1>a, <2>1, <2>2 DEF AwaitInv, OwnerInv
  <2>4. ReportsInv'
    BY <1>a, <2>1, <2>2 DEF AwaitInv, ReportsInv
  <2> QED
    BY <2>3, <2>4
<1>4. CASE RunBegins
  <2>1. /\ owner = "starting" /\ owner' = "free" /\ job' = waiting /\ searchId' = waiting.id
        /\ UNCHANGED <<lastRun, state, activeRun, reports>>
    BY <1>4 DEF RunBegins
  <2>2. waiting.id # 0
    BY <1>a, <2>1 DEF AwaitInv, TypeInv, OwnerTypes, JobType
  <2>3. OwnerInv'
    BY <2>1, <2>2 DEF AwaitInv, OwnerInv
  <2>4. ReportsInv'
    BY <1>a, <2>1 DEF AwaitInv, OwnerInv, ReportsInv
  <2> QED
    BY <2>3, <2>4
<1>5. CASE DropReport \/ SearchProgressed \/ SearchFailed \/ SearchFinished
  <2>1. /\ owner = "free" /\ reports # <<>> /\ reports' = Tail(reports)
        /\ UNCHANGED <<owner, waiting, lastRun, searchId, activeRun, job>>
    BY <1>5 DEF DropReport, SearchProgressed, SearchFailed, SearchFinished, Handling, ownerVars, opVars
  <2>2. \/ state'.phase = state.phase
        \/ /\ state'.phase # "Running" /\ reports[1].id = searchId /\ reports[1].kind # "progress"
    <3>1. CASE DropReport
      BY <3>1 DEF DropReport, sessionVars
    <3>2. CASE SearchProgressed
      BY <1>a, <3>2 DEF SearchProgressed, StateType
    <3>3. CASE SearchFailed \/ SearchFinished
      <4>1. Head(reports).id = searchId /\ Head(reports).kind \in {"failed", "returned"}
        BY <3>3 DEF SearchFailed, SearchFinished, Handling, IsAwaited
      <4>2. ASSUME NEW phase, NEW count, state' = [state EXCEPT !.phase = phase, !.count = count]
            PROVE  state'.phase = phase
        BY <1>a, <4>2 DEF StateType
      <4>3. state'.phase \in {"Failed", "Complete"}
        BY <3>3, <4>2 DEF SearchFailed, SearchFinished
      <4> QED
        BY <1>a, <2>1, <4>1, <4>3
    <3> QED
      BY <1>5, <3>1, <3>2, <3>3
  <2>3. /\ \A i \in DOMAIN reports' : i + 1 \in DOMAIN reports /\ reports'[i] = reports[i + 1]
        /\ 1 \in DOMAIN reports /\ DOMAIN reports' \subseteq Nat \ {0} /\ DOMAIN reports \subseteq Nat
    BY <1>a, <2>1
  <2>4. OwnerInv'
    BY <1>a, <2>1, <2>2, <2>3 DEF AwaitInv, OwnerInv, ReportsInv
  <2>5. ASSUME NEW i \in DOMAIN reports'
        PROVE  /\ reports'[i].id <= lastRun'
               /\ owner' = "starting" => reports'[i].id < lastRun'
               /\ reports'[i].kind = "superseded" => reports'[i].id # activeRun'
               /\ reports'[i].id = job'.id => reports'[i].kind = "progress" /\ job'.pc # "begun"
               /\ owner' = "free" /\ state'.phase # "Running" => reports'[i].id # searchId'
    <3>1. i + 1 \in DOMAIN reports /\ reports'[i] = reports[i + 1] /\ i + 1 > 1 /\ 1 \in DOMAIN reports
      BY <2>3
    <3>2. reports[1].kind # "progress" => reports[i + 1].id # reports[1].id
      BY <3>1 DEF AwaitInv, ReportsInv
    <3> QED
      BY <2>1, <2>2, <3>1, <3>2 DEF AwaitInv, ReportsInv
  <2>6. ASSUME NEW i \in DOMAIN reports', NEW j \in DOMAIN reports', i < j,
               reports'[i].kind # "progress"
        PROVE  reports'[j].id # reports'[i].id
    BY <2>3, <2>6 DEF AwaitInv, ReportsInv
  <2>7. ReportsInv'
    BY <2>5, <2>6 DEF ReportsInv
  <2> QED
    BY <2>4, <2>7
<1>6. CASE SetSearchPolicy \/ EmitThrottled \/ LinesGrow \/ LinesReplaced \/ LogLinesChanged
  <2>1. UNCHANGED <<owner, waiting, lastRun, searchId, activeRun, job, reports, state>>
    BY <1>6 DEF SetSearchPolicy, EmitThrottled, LinesGrow, LinesReplaced, LogLinesChanged,
                ownerVars, sessionVars, opVars
  <2>2. OwnerInv'
    BY <2>1 DEF AwaitInv, OwnerInv
  <2>3. ReportsInv'
    BY <2>1 DEF AwaitInv, ReportsInv
  <2> QED
    BY <2>2, <2>3
<1> QED
  BY <1>1, <1>2, <1>3, <1>4, <1>5, <1>6 DEF Next, Requests, Reported

\* Which run is awaited, and what is reported of it, stays in step.
LEMMA AwaitStep == AwaitInv /\ [Next]_vars => AwaitInv'
<1> SUFFICES ASSUME AwaitInv, [Next]_vars PROVE OwnerInv' /\ ReportsInv'
  BY TypeStep DEF AwaitInv
<1>1. CASE UNCHANGED vars
  <2>1. UNCHANGED <<owner, waiting, lastRun, searchId, activeRun, job, reports, state>>
    BY <1>1 DEF vars, ownerVars, sessionVars, opVars
  <2> QED
    BY <2>1 DEF AwaitInv, OwnerInv, ReportsInv
<1> QED
  BY <1>1, RunStepAwait, OwnerStepAwait

\* No run is awaited at first.
LEMMA AwaitInit == Init => AwaitInv
<1> SUFFICES ASSUME Init PROVE OwnerInv /\ ReportsInv
  BY TypeInit DEF AwaitInv
<1>1. /\ owner = "free" /\ lastRun = 0 /\ searchId = 0 /\ activeRun = 0 /\ job = NoJob /\ reports = <<>>
      /\ state.phase = "Idle"
  BY DEF Init, Idle
<1> QED
  BY <1>1 DEF OwnerInv, ReportsInv, NoJob

\* Once the owner is free, no report of a superseded run is awaited: the
\* branch of handleSearchFinished() for one never runs.
THEOREM AwaitedNotSupersededHolds == Spec => []AwaitedNotSuperseded
<1>1. Spec => []AwaitInv
  BY AwaitInit, AwaitStep, PTL DEF Spec
<1>2. AwaitInv => AwaitedNotSuperseded
  <2> SUFFICES ASSUME AwaitInv, owner = "free", NEW i \in DOMAIN reports, reports[i].id = searchId
               PROVE  reports[i].kind # "superseded"
    BY DEF AwaitedNotSuperseded
  <2>1. reports[i].id \in 1..MaxRuns
    BY ReportsType DEF AwaitInv, TypeInv, RunTypes
  <2>2. searchId # 0
    BY <2>1
  <2> QED
    BY <2>2 DEF AwaitInv, OwnerInv, ReportsInv
<1> QED
  BY <1>1, <1>2, PTL

-----------------------------------------------------------------------------
(* What whoever follows the deltas holds.                                  *)

\* The delta of the results r tells a follower what it lacks.
Tellable(r) ==
    /\ r.stale \subseteq r.matches /\ r.arrived \cap r.matches = {}
    /\ r.replaced => r.removed = {}
    /\ ~r.replaced => /\ (followed \ r.removed) \cup r.new = r.matches
                      /\ r.new \cap followed = {} /\ r.removed \subseteq followed
    /\ \/ r.new = {} /\ r.removed = {}
       \/ r.arrived = {} /\ r.stale = {}

\* A free owner has told everything but what arrived since, and the count told
\* is that of the Matches held.
FollowInv ==
    /\ faithful
    /\ Tellable(results)
    /\ state.count = Cardinality(Held)
    /\ owner = "free" => results.new = {} /\ results.removed = {} /\ followed = results.matches
    /\ owner = "starting" \/ state.phase # "Running" => results.arrived = {} /\ results.stale = {}

\* The sets the Matches are counted from overlap as their comments say.
LEMMA CountOfHeld ==
    ASSUME NEW r \in ResultsType, r.stale \subseteq r.matches, r.arrived \cap r.matches = {}
    PROVE  Count(r) = Cardinality((r.matches \cup r.arrived) \ r.stale)
<1> DEFINE both == r.matches \cup r.arrived
<1>1. r.matches \in SUBSET Lines /\ r.arrived \in SUBSET Lines /\ r.stale \in SUBSET Lines
  BY DEF ResultsType
<1>2. /\ IsFiniteSet(r.matches) /\ Cardinality(r.matches) \in Nat
      /\ IsFiniteSet(r.arrived) /\ Cardinality(r.arrived) \in Nat
      /\ IsFiniteSet(r.stale) /\ Cardinality(r.stale) \in Nat
  BY <1>1, LinesFinite
<1>3. IsFiniteSet(both) /\ Cardinality(both) = Cardinality(r.matches) + Cardinality(r.arrived)
  <2>1. Cardinality(r.matches \cap r.arrived) = 0 /\ IsFiniteSet(both)
        /\ Cardinality(both) = Cardinality(r.matches) + Cardinality(r.arrived)
                               - Cardinality(r.matches \cap r.arrived)
    <3>1. r.matches \cap r.arrived = {}
      OBVIOUS
    <3> QED
      BY <1>2, <3>1, FS_Union, FS_EmptySet
  <2> QED
    BY <1>2, <2>1
<1>4. Cardinality(both \ r.stale) = Cardinality(both) - Cardinality(r.stale)
  <2>1. both \cap r.stale = r.stale
    OBVIOUS
  <2>2. Cardinality(both \ r.stale) = Cardinality(both) - Cardinality(both \cap r.stale)
    <3> HIDE DEF both
    <3> QED
      BY <1>3, FS_Difference
  <2> QED
    BY <2>1, <2>2
<1> QED
  BY <1>2, <1>3, <1>4 DEF Count

\* What is told, whoever follows holds.
LEMMA NotifyFollow ==
    ASSUME NEW r \in ResultsType, Tellable(r), faithful, Notify(r)
    PROVE  /\ faithful' /\ Tellable(results)'
           /\ results'.matches = (r.matches \cup r.arrived) \ r.stale
           /\ followed' = results'.matches
           /\ results'.new = {} /\ results'.removed = {}
           /\ results'.arrived = {} /\ results'.stale = {}
<1>1. /\ results'.matches = (r.matches \ r.stale) \cup r.arrived
      /\ results'.arrived = {} /\ results'.stale = {}
      /\ results'.new = {} /\ results'.removed = {} /\ results'.replaced = FALSE
      /\ followed' = Followed(Publish(r))
      /\ faithful' = (faithful /\ IsDelta(Publish(r)))
  BY NotifyFields
<1>2. /\ Publish(r).matches = (r.matches \ r.stale) \cup r.arrived
      /\ Publish(r).new = IF r.replaced THEN r.new ELSE r.new \cup r.arrived
      /\ Publish(r).removed = IF r.replaced THEN r.removed ELSE r.removed \cup r.stale
      /\ Publish(r).replaced = r.replaced
  BY PublishFields
<1>3. followed' = (r.matches \ r.stale) \cup r.arrived
  BY <1>1, <1>2 DEF Followed, Tellable
<1>4. IsDelta(Publish(r))
  BY <1>2 DEF IsDelta, Tellable
<1>5. (r.matches \ r.stale) \cup r.arrived = (r.matches \cup r.arrived) \ r.stale
  BY DEF Tellable
<1> QED
  BY <1>1, <1>3, <1>4, <1>5 DEF Tellable

\* No Match is left over of results that were reset.
LEMMA ResetTellable ==
    ASSUME NEW r \in ResultsType
    PROVE  Tellable(Reset(r))
  BY ResetFields DEF Tellable

\* What arrives can still be told.
LEMMA ApplyTellable ==
    ASSUME results \in ResultsType, IsData(data), Tellable(results),
           results.new = {}, results.removed = {}
    PROVE  Tellable(Apply(results))
<1>1. /\ Collect(results).stale \subseteq results.matches
      /\ Collect(results).arrived \subseteq results.arrived
  BY CollectFields DEF Tellable
<1> QED
  BY <1>1, ApplyFields DEF Tellable

\* Progress is only handled of a run whose Search is told to be running.
LEMMA HandlingRunning ==
    ASSUME AwaitInv, NEW kinds, Handling(kinds)
    PROVE  owner = "free" /\ state.phase = "Running" /\ searchId # 0
<1>1. /\ owner = "free" /\ reports # <<>> /\ Head(reports).id = searchId
      /\ reports \in Seq(ReportType)
  BY DEF Handling, IsAwaited, AwaitInv, TypeInv, RunTypes
<1>2. 1 \in DOMAIN reports /\ reports[1].id = searchId
  BY <1>1
<1>3. searchId # 0
  BY <1>1, <1>2, ReportsType
<1> QED
  BY <1>1, <1>2, <1>3 DEF AwaitInv, ReportsInv

\* Every step tells its followers what they lack, or leaves it to be told.
LEMMA FollowStep == AwaitInv /\ FollowInv /\ [Next]_vars => FollowInv'
<1> SUFFICES ASSUME AwaitInv, FollowInv, [Next]_vars PROVE FollowInv'
  OBVIOUS
<1>a. /\ results \in ResultsType /\ state \in StateType /\ IsData(data) /\ Tellable(results)
      /\ faithful /\ owner \in {"free", "starting"} /\ IsCache(cache)
  BY DEF AwaitInv, TypeInv, OwnerTypes, RunTypes, FollowInv
<1>b. ASSUME NEW r \in ResultsType, Tellable(r), Notify(r),
             state'.count = Cardinality((r.matches \cup r.arrived) \ r.stale)
      PROVE  FollowInv'
  BY <1>a, <1>b, NotifyFollow DEF FollowInv, Held
<1>c. ASSUME UNCHANGED <<owner, state, results, followed, faithful>>
      PROVE  FollowInv'
  BY <1>c DEF FollowInv, Tellable, Held
<1>d. /\ Reset(results) \in ResultsType /\ Tellable(Reset(results))
      /\ (Reset(results).matches \cup Reset(results).arrived) \ Reset(results).stale = {}
      /\ Cardinality({}) = 0
  BY <1>a, ResetFields, ResetTellable, FS_EmptySet
<1>e. ASSUME NEW r \in ResultsType, Tellable(r), r.arrived = {}, r.stale = {}, results' = r,
             owner' = "starting", state'.count = Cardinality(r.matches),
             UNCHANGED <<followed, faithful>>
      PROVE  FollowInv'
  BY <1>a, <1>e DEF FollowInv, Tellable, Held
<1>1. CASE RequestContinued
  <2>1. PICK pattern \in Patterns, range \in Ranges :
            StartRun(UpdateJob(lastRun + 1, pattern, range[1], range[2], results.processed),
                     Recheck(Publish(results), range[1]), NoKey)
    BY <1>1 DEF RequestContinued, Requestable
  <2> DEFINE r == Recheck(Publish(results), range[1])
  <2>2. range[1] \in Nat
    BY SearchAssumption
  <2>3. /\ r \in ResultsType /\ r.arrived = {} /\ r.stale = {}
        /\ r.matches = (results.matches \ results.stale) \cup results.arrived
        /\ r.new = IF results.replaced THEN results.new ELSE results.new \cup results.arrived
        /\ r.removed = IF results.replaced THEN results.removed ELSE results.removed \cup results.stale
        /\ r.replaced = results.replaced
    <3>1. Publish(results) \in ResultsType
      BY <1>a, PublishFields
    <3>2. /\ r \in ResultsType /\ r.matches = Publish(results).matches
          /\ r.arrived = Publish(results).arrived /\ r.stale = Publish(results).stale
          /\ r.new = Publish(results).new /\ r.removed = Publish(results).removed
          /\ r.replaced = Publish(results).replaced
      BY <2>2, <3>1, RecheckFields
    <3> HIDE DEF r
    <3> QED
      BY <1>a, <3>2, PublishFields
  <2>4. Tellable(r)
    <3> HIDE DEF r
    <3>1. /\ owner = "free" /\ results.new = {} /\ results.removed = {} /\ followed = results.matches
      BY <1>1 DEF RequestContinued, FollowInv
    <3> QED
      BY <1>a, <2>3, <3>1 DEF Tellable
  <2>5. /\ results' = r /\ owner' = "starting" /\ state'.count = Cardinality(r.matches)
        /\ UNCHANGED <<followed, faithful>>
    BY <2>1 DEF StartRun
  <2> HIDE DEF r
  <2> QED
    BY <1>e, <2>3, <2>4, <2>5
<1>2. CASE RequestFresh
  <2>1. PICK newJob, newKey : StartRun(newJob, Reset(results), newKey)
    BY <1>2 DEF RequestFresh
  <2>2. /\ results' = Reset(results) /\ owner' = "starting"
        /\ state'.count = Cardinality(Reset(results).matches)
        /\ UNCHANGED <<followed, faithful>>
    BY <2>1 DEF StartRun
  <2> QED
    BY <1>a, <1>d, <1>e, <2>2, ResetFields
<1>3. CASE RequestInvalid \/ RequestIdle
  <2>1. state'.count = 0 /\ Notify(Reset(results))
    <3>1. Idle \in StateType /\ Idle.count = 0
      BY SearchAssumption DEF Idle, StateType, Phases
    <3>2. ASSUME NEW start, NEW end, state' = [Idle EXCEPT !.phase = "InvalidPattern", !.start = start, !.end = end]
          PROVE  state'.count = 0
      BY <3>1, <3>2 DEF StateType
    <3> QED
      BY <1>3, <3>1, <3>2 DEF RequestInvalid, RequestIdle
  <2> QED
    BY <1>b, <1>d, <2>1
<1>4. CASE RequestCached
  <2>1. PICK pattern \in Patterns, range \in Ranges :
            /\ InCache(Key(pattern, range))
            /\ state' = [phase |-> "Complete", pattern |-> pattern, start |-> range[1],
                         end |-> range[2], fromCache |-> TRUE,
                         count |-> Cardinality(cache[Key(pattern, range)])]
            /\ Notify([Reset(results) EXCEPT !.matches = cache[Key(pattern, range)], !.processed = range[2]])
    BY <1>4 DEF RequestCached, Requestable
  <2> DEFINE r == [Reset(results) EXCEPT !.matches = cache[Key(pattern, range)], !.processed = range[2]]
  <2>2. range[2] \in 0..MaxLines /\ cache[Key(pattern, range)] \in SUBSET Lines
    BY <1>a, <2>1, SearchAssumption DEF InCache, IsCache
  <2>3. /\ r \in ResultsType /\ r.matches = cache[Key(pattern, range)]
        /\ r.arrived = Reset(results).arrived /\ r.stale = Reset(results).stale
        /\ r.new = Reset(results).new /\ r.removed = Reset(results).removed
        /\ r.replaced = Reset(results).replaced
    BY ONLY <1>d, <2>2 DEF ResultsType
  <2>4. Tellable(r) /\ r.arrived = {} /\ r.stale = {}
    <3> HIDE DEF r
    <3> QED
      BY <1>a, <2>3, ResetFields DEF Tellable
  <2> HIDE DEF r
  <2>5. Notify(r)
    BY <2>1 DEF r
  <2>6. state'.count = Cardinality((r.matches \cup r.arrived) \ r.stale)
    <3>1. (r.matches \cup r.arrived) \ r.stale = cache[Key(pattern, range)]
      BY <2>3, <2>4
    <3> QED
      BY <2>1, <3>1
  <2> QED
    BY <1>b, <2>3, <2>4, <2>5, <2>6
<1>5. CASE Stop
  <2>1. CASE state.phase = "Running"
    <3>1. state' = [state EXCEPT !.phase = "Interrupted"] /\ Notify(results)
      BY <1>5, <2>1 DEF Stop
    <3>2. state'.count = state.count
      BY <1>a, <3>1 DEF StateType
    <3> QED
      BY <1>a, <1>b, <3>1, <3>2 DEF FollowInv, Held
  <2>2. CASE state.phase # "Running"
    BY <1>5, <1>c, <2>2 DEF Stop
  <2> QED
    BY <2>1, <2>2
<1>6. CASE RunBegins
  BY <1>6, <1>a, <1>b DEF RunBegins, FollowInv, Held
<1>7. CASE SearchProgressed
  <2>1. owner = "free" /\ state.phase = "Running"
    BY <1>7, HandlingRunning DEF SearchProgressed
  <2>2. results.new = {} /\ results.removed = {} /\ followed = results.matches
    BY <2>1 DEF FollowInv
  <2>3. Apply(results) \in ResultsType /\ Tellable(Apply(results))
    BY <1>a, <2>2, ApplyFields, ApplyTellable
  <2>4. /\ owner' = "free" /\ UNCHANGED <<followed, faithful>>
        /\ results' = [Apply(results) EXCEPT !.pending = TRUE]
        /\ state' = [state EXCEPT !.count = Count(Apply(results))]
    BY <1>7 DEF SearchProgressed, Handling, ownerVars
  <2>5. /\ results'.matches = Apply(results).matches /\ results'.arrived = Apply(results).arrived
        /\ results'.stale = Apply(results).stale /\ results'.new = Apply(results).new
        /\ results'.removed = Apply(results).removed /\ results'.replaced = Apply(results).replaced
    BY ONLY <2>3, <2>4 DEF ResultsType
  <2>6. state'.phase = state.phase /\ state'.count = Count(Apply(results))
    BY <1>a, <2>4 DEF StateType
  <2>7. state'.count = Cardinality(Held')
    BY <2>3, <2>5, <2>6, CountOfHeld DEF Tellable, Held
  <2>8. Tellable(results)'
    BY <2>3, <2>4, <2>5 DEF Tellable
  <2>9. results'.new = {} /\ results'.removed = {} /\ followed' = results'.matches
    BY <1>a, <2>2, <2>4, <2>5, ApplyFields
  <2> QED
    BY <1>a, <2>1, <2>4, <2>6, <2>7, <2>8, <2>9 DEF FollowInv
<1>8. CASE SearchFailed
  <2>1. state' = [state EXCEPT !.phase = "Failed", !.count = 0] /\ Notify(Reset(results))
    BY <1>8 DEF SearchFailed
  <2>2. state'.count = 0
    BY <1>a, <2>1 DEF StateType
  <2> QED
    BY <1>b, <1>d, <2>1, <2>2
<1>9. CASE SearchFinished
  <2>1. owner = "free"
    BY <1>9 DEF SearchFinished, Handling
  <2>2. results.new = {} /\ results.removed = {} /\ followed = results.matches
    BY <2>1 DEF FollowInv
  <2>3. Apply(results) \in ResultsType /\ Tellable(Apply(results))
    BY <1>a, <2>2, ApplyFields, ApplyTellable
  <2>4. /\ Notify(Apply(results))
        /\ state' = [state EXCEPT !.phase = "Complete", !.count = Count(Apply(results))]
    BY <1>9 DEF SearchFinished
  <2>5. state'.count = Count(Apply(results))
    BY <1>a, <2>4 DEF StateType
  <2> QED
    BY <1>b, <2>3, <2>4, <2>5, CountOfHeld DEF Tellable
<1>10. CASE EmitThrottled
  BY <1>10, <1>a, <1>b DEF EmitThrottled, FollowInv, Held
<1>11. CASE \/ SetSearchPolicy \/ DropReport \/ LinesGrow \/ LinesReplaced \/ LogLinesChanged \/ RunStep
            \/ UNCHANGED vars
  BY <1>11, <1>c DEF SetSearchPolicy, DropReport, LinesGrow, LinesReplaced, LogLinesChanged, RunStep, vars,
                     ownerVars, sessionVars, historyVars
<1> QED
  BY <1>1, <1>2, <1>3, <1>4, <1>5, <1>6, <1>7, <1>8, <1>9, <1>10, <1>11 DEF Next, Requests, Reported

\* Nothing is held at first, and nothing was told.
LEMMA FollowInit == Init => FollowInv
<1> SUFFICES ASSUME Init PROVE FollowInv
  OBVIOUS
<1>1. /\ owner = "free" /\ state.phase = "Idle" /\ state.count = 0 /\ faithful = TRUE /\ followed = {}
      /\ results.matches = {} /\ results.arrived = {} /\ results.stale = {} /\ results.new = {}
      /\ results.removed = {} /\ results.replaced = TRUE
  BY DEF Init, Idle
<1>2. Held = {} /\ Cardinality({}) = 0
  BY <1>1, FS_EmptySet DEF Held
<1> QED
  BY <1>1, <1>2 DEF FollowInv, Tellable

\* Whoever follows the deltas holds the Matches whenever the owner is free, and
\* every delta was one: it added only new Matches and removed only old ones.
THEOREM FollowersInStepHolds == Spec => []FollowersInStep
<1>1. Spec => [](AwaitInv /\ FollowInv)
  BY AwaitInit, AwaitStep, FollowInit, FollowStep, PTL DEF Spec
<1>2. FollowInv => FollowersInStep
  BY DEF FollowInv, FollowersInStep
<1> QED
  BY <1>1, <1>2, PTL

-----------------------------------------------------------------------------
(* The budget of the cache.                                                *)

\* What a cache holds is finite, so that it can be counted.
LEMMA CachedFinite ==
    ASSUME NEW kept, IsCache(kept)
    PROVE  /\ IsFiniteSet(UNION {{key} \X kept[key] : key \in DOMAIN kept})
           /\ CachedLines(kept) \in Nat
<1> DEFINE held == {{key} \X kept[key] : key \in DOMAIN kept}
<1>1. IsFiniteSet(held)
  <2> DEFINE f == [key \in DOMAIN kept |-> {key} \X kept[key]]
  <2>1. f \in Surjection(DOMAIN kept, held)
    BY DEF Surjection
  <2> HIDE DEF f, held
  <2> QED
    BY <2>1, FS_Surjection DEF IsCache
<1>2. ASSUME NEW S \in held PROVE IsFiniteSet(S)
  <2>1. PICK key \in DOMAIN kept : S = {key} \X kept[key]
    OBVIOUS
  <2>2. IsFiniteSet({key}) /\ IsFiniteSet(kept[key])
    BY FS_Singleton, LinesFinite DEF IsCache
  <2> QED
    BY <2>1, <2>2, FS_Product
<1>3. IsFiniteSet(UNION held)
  <2> HIDE DEF held
  <2> QED
    BY <1>1, <1>2, FS_UNION
<1> QED
  BY <1>3, FS_CardinalityType DEF CachedLines

\* Cut back, it holds no more.
LEMMA RestrictedFewer ==
    ASSUME NEW kept, IsCache(kept), NEW keys \in SUBSET DOMAIN kept
    PROVE  CachedLines(Restricted(kept, keys)) <= CachedLines(kept)
<1> DEFINE all == UNION {{key} \X kept[key] : key \in DOMAIN kept}
           part == UNION {{key} \X Restricted(kept, keys)[key] : key \in DOMAIN Restricted(kept, keys)}
<1>1. part \subseteq all
  BY DEF Restricted
<1>2. IsFiniteSet(all) /\ CachedLines(kept) = Cardinality(all)
      /\ CachedLines(Restricted(kept, keys)) = Cardinality(part)
  BY CachedFinite DEF CachedLines
<1> HIDE DEF all, part
<1> QED
  BY <1>1, <1>2, FS_Subset

\* Of one search, it holds the Matches.
LEMMA OneSearchCached ==
    ASSUME NEW kept, IsCache(kept), NEW key, DOMAIN kept = {key}
    PROVE  CachedLines(kept) = Cardinality(kept[key])
<1>1. UNION {{k} \X kept[k] : k \in DOMAIN kept} = {key} \X kept[key]
  OBVIOUS
<1>2. /\ IsFiniteSet({key}) /\ Cardinality({key}) = 1
      /\ IsFiniteSet(kept[key]) /\ Cardinality(kept[key]) \in Nat
  BY FS_Singleton, LinesFinite DEF IsCache
<1>3. Cardinality({key} \X kept[key]) = Cardinality({key}) * Cardinality(kept[key])
  BY <1>2, FS_Product
<1>4. Cardinality({key} \X kept[key]) = Cardinality(kept[key])
  <2> DEFINE a == Cardinality({key})
             b == Cardinality(kept[key])
             c == Cardinality({key} \X kept[key])
  <2>1. a = 1 /\ b \in Nat /\ c = a * b
    BY <1>2, <1>3
  <2> HIDE DEF a, b, c
  <2>2. c = b
    BY <2>1
  <2> QED
    BY <2>2 DEF b, c
<1>5. CachedLines(kept) = Cardinality({key} \X kept[key])
  BY <1>1, Zenon DEF CachedLines
<1> QED
  BY <1>4, <1>5

\* updateSearchResultsCache() leaves the cache within its budget, or as it was.
LEMMA UpdateCacheBudget ==
    ASSUME IsCache(cache), cacheKey \in Keys, NEW matches \in SUBSET Lines,
           CachedLines(cache) <= MaxCacheLines, UpdateCache(matches)
    PROVE  CachedLines(cache') <= MaxCacheLines
<1>1. CASE UNCHANGED cache
  BY <1>1
<1>2. CASE ~UNCHANGED cache
  <2> DEFINE filled == [key \in DOMAIN cache \cup {cacheKey} |->
                           IF key = cacheKey THEN matches ELSE cache[key]]
  <2>1. /\ cacheKey # NoKey /\ ~(Cardinality(matches) > MaxCacheLines)
        /\ \E keys \in Kept(filled) : cache' = Restricted(filled, keys)
    BY <1>2 DEF UpdateCache
  <2>2. PICK keys \in SUBSET DOMAIN filled :
            /\ cache' = Restricted(filled, keys)
            /\ keys = {cacheKey} \/ CachedLines(Restricted(filled, keys)) <= MaxCacheLines
    BY <2>1 DEF Kept
  <2>3. CASE keys = {cacheKey}
    <3>1. DOMAIN cache' = {cacheKey} /\ cache'[cacheKey] = matches
      BY <2>2, <2>3 DEF Restricted
    <3>2. IsCache(cache')
      <4>1. IsFiniteSet(DOMAIN cache')
        BY <3>1, FS_Singleton
      <4> QED
        BY ONLY <2>1, <3>1, <4>1, cacheKey \in Keys, matches \in SUBSET Lines DEF IsCache
    <3>3. Cardinality(matches) \in Nat
      BY LinesFinite
    <3> QED
      BY <2>1, <3>1, <3>2, <3>3, OneSearchCached, SearchAssumption
  <2>4. CASE keys # {cacheKey}
    BY <2>2, <2>4
  <2> QED
    BY <2>3, <2>4
<1> QED
  BY <1>1, <1>2

\* Only the entry of the run just made is kept beyond what fits the budget,
\* and an entry that alone exceeds it is not made.
LEMMA BudgetStep == TypeInv /\ CacheWithinBudget /\ [Next]_vars => CacheWithinBudget'
<1> SUFFICES ASSUME TypeInv, CacheWithinBudget, [Next]_vars
             PROVE  CachedLines(cache') <= MaxCacheLines
  BY DEF CacheWithinBudget
<1>a. /\ IsCache(cache) /\ cacheKey \in Keys /\ IsData(data) /\ results \in ResultsType
      /\ CachedLines(cache) <= MaxCacheLines
  BY DEF TypeInv, OwnerTypes, RunTypes, CacheWithinBudget
<1>1. CASE SearchFinished
  <2>1. Publish(Apply(results)).matches \in SUBSET Lines
    <3>1. Publish(Apply(results)) \in ResultsType
      BY <1>a, ApplyFields, PublishFields
    <3> QED
      BY ONLY <3>1 DEF ResultsType
  <2>2. UNCHANGED cache \/ UpdateCache(Publish(Apply(results)).matches)
    BY <1>1 DEF SearchFinished
  <2> QED
    BY <1>a, <2>1, <2>2, UpdateCacheBudget
<1>2. CASE LogLinesChanged
  <2>1. cache' = Restricted(cache, Unchanged(untold)) /\ Unchanged(untold) \in SUBSET DOMAIN cache
    BY <1>2 DEF LogLinesChanged, Unchanged
  <2>2. CachedLines(cache') <= CachedLines(cache)
    BY <1>a, <2>1, RestrictedFewer
  <2>3. CachedLines(cache') \in Nat /\ CachedLines(cache) \in Nat
    BY <1>a, <2>1, CachedFinite, CacheTypes
  <2> QED
    BY <1>a, <2>2, <2>3, SearchAssumption
<1>3. CASE UNCHANGED cache
  BY <1>a, <1>3
<1> QED
  BY <1>1, <1>2, <1>3
  DEF Next, Requests, RequestContinued, RequestFresh, RequestInvalid, RequestIdle, RequestCached, Stop,
      StartRun, RunBegins, SetSearchPolicy, Reported, DropReport, SearchProgressed, SearchFailed,
      EmitThrottled, LinesGrow, LinesReplaced, RunStep, sessionVars, vars

\* Nothing is cached at first.
LEMMA BudgetInit == Init => CacheWithinBudget
<1> SUFFICES ASSUME Init PROVE CacheWithinBudget
  OBVIOUS
<1>1. UNION {{key} \X cache[key] : key \in DOMAIN cache} = {}
  BY DEF Init, NoResults
<1>2. CachedLines(cache) = 0
  BY <1>1, FS_EmptySet DEF CachedLines
<1> QED
  BY <1>2, SearchAssumption DEF CacheWithinBudget

\* The cache keeps to its budget of Matches, whichever entries are dropped.
THEOREM CacheWithinBudgetHolds == Spec => []CacheWithinBudget
<1>1. Spec => [](TypeInv /\ CacheWithinBudget)
  BY TypeInit, TypeStep, BudgetInit, BudgetStep, PTL DEF Spec
<1> QED
  BY <1>1, PTL

=============================================================================
