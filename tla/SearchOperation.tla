-------------------------- MODULE SearchOperation --------------------------
(***************************************************************************)
(* One run of a Search on its Background Run: the Log Lines are read in    *)
(* blocks, several blocks are matched at once, and combined one at a time  *)
(* in whatever order they are done (FullSearchOperation and                *)
(* UpdateSearchOperation in src/logdata/src/logfiltereddataworker.cpp).    *)
(*                                                                         *)
(* The Background Run is what BackgroundRun proves of it: one job at a     *)
(* time, its reports delivered in the order posted.                        *)
(***************************************************************************)
EXTENDS SearchData, Sequences, FiniteSets

CONSTANTS
    Patterns,     \* what can be searched for
    Readings,     \* what a Log Line can read: the patterns that match it
    MaxLines,     \* bound: Log Lines of the Log File
    BlockLines,   \* Log Lines in a block, unless its bytes cut it short
    MaxBlocks,    \* the threshold of the limiter of the graph
    MaxReports    \* bound: reports waiting before another progress report

VARIABLES
    lines,        \* the Log Lines as they read now
    data,         \* the SearchData
    job,          \* the run on the pool's thread
    blocks,       \* blocks the limiter accepted, being matched
    limiter,      \* the blocks it counts, and the one read and not accepted, if any
    passedOver,   \* history: the run passed over a block that could not be read
    picked,       \* the block the match processor combines, superseded or not
    activeRun,    \* the run wanted, 0 when none is
    reports       \* reports not yet delivered

opVars == <<data, job, blocks, limiter, passedOver, picked>>

NoJob   == [id |-> 0]
NoBlock == [first |-> 0, end |-> 0, matches |-> {}]
NoneCounted == [count |-> 0, offered |-> NoBlock]
NbLines == Len(lines)
Least(a, b) == IF a < b THEN a ELSE b

\* The Log Lines of [start, end) that match pattern, as they read now.
MatchingLines(pattern, start, end) ==
    {line \in start..(Least(end, NbLines) - 1) : pattern \in lines[line + 1]}

Superseded == activeRun # job.id

Progressed(id) == [id |-> id, kind |-> "progress"]
Finished(id, how) == [id |-> id, kind |-> how]

\* search() and updateSearch(): the jobs a run can be started with.
FullJob(id, pattern, start, end) ==
    [id |-> id, pc |-> "begun", full |-> TRUE, pattern |-> pattern, start |-> start,
     end |-> end, position |-> 0, next |-> 0]
UpdateJob(id, pattern, start, end, position) ==
    [FullJob(id, pattern, start, end) EXCEPT !.full = FALSE, !.position = position]

-----------------------------------------------------------------------------
\* doSearch(), up to the first block: the end is settled on the Log Lines
\* there are now.
BeginSearch(seed, from) ==
    LET initial == Later(from, job.start) IN
    /\ data' = SearchFrom(seed, initial)
    /\ job' = [job EXCEPT !.pc = "searching", !.next = initial, !.end = Least(@, NbLines)]

\* Where a continuation starts: with the last Log Line searched before.
ContinueAt_Next(position) == Later(data.until, position)
ContinueAt(position) ==
    LET next == Later(data.until, position)
    IN IF next >= 1 THEN next - 1 ELSE next

\* FullSearchOperation::doRun(): the data is cleared superseded or not.
RunFull ==
    /\ job.id # 0 /\ job.pc = "begun" /\ job.full
    /\ IF Superseded
       THEN job' = [job EXCEPT !.pc = "skipped"] /\ data' = EmptyData
       ELSE BeginSearch(EmptyData, 0)
    /\ passedOver' = FALSE
    /\ UNCHANGED <<lines, blocks, limiter, picked, activeRun, reports>>

\* UpdateSearchOperation::doRun()
RunUpdate ==
    /\ job.id # 0 /\ job.pc = "begun" /\ ~job.full
    /\ IF Superseded
       THEN job' = [job EXCEPT !.pc = "skipped"] /\ UNCHANGED data
       ELSE BeginSearch(data, ContinueAt(job.position))
    /\ passedOver' = FALSE
    /\ UNCHANGED <<lines, blocks, limiter, picked, activeRun, reports>>

\* The limiter counts a block from accepting it until the match processor is
\* done with it.
InFlight == Cardinality(blocks) + (IF picked = NoBlock THEN 0 ELSE 1)
HasRoom_OffByOne == limiter.count <= MaxBlocks
HasRoom == limiter.count < MaxBlocks
CountedDown_Never(count) == count
CountedDown(count) == count - 1

\* The block reader reads the next block, maybe cut short by its bytes, or
\* passes over one that cannot be read; the block is matched as it is read.
\* Without room the limiter does not accept it, and no other is read.
ReadBlock ==
    /\ job.id # 0 /\ job.pc = "searching"
    /\ job.next < job.end
    /\ ~Superseded
    /\ limiter.offered = NoBlock
    /\ LET asked == Least(BlockLines, job.end - job.next) IN
       \/ \E read \in 1..Least(asked, NbLines - job.next) :
             LET block == [first |-> job.next, end |-> job.next + read,
                           matches |-> MatchingLines(job.pattern, job.next, job.next + read)]
             IN  /\ job' = [job EXCEPT !.next = @ + read]
                 /\ \/ /\ HasRoom
                       /\ blocks' = blocks \cup {block}
                       /\ limiter' = [limiter EXCEPT !.count = @ + 1]
                    \/ /\ ~HasRoom
                       /\ limiter' = [limiter EXCEPT !.offered = block]
                       /\ UNCHANGED blocks
                 /\ UNCHANGED passedOver
       \/ /\ job' = [job EXCEPT !.next = @ + asked]
          /\ passedOver' = TRUE
          /\ UNCHANGED <<blocks, limiter>>
    /\ UNCHANGED <<lines, data, picked, activeRun, reports>>

\* The limiter has room again for the block that was read.
AcceptBlock ==
    /\ limiter.offered # NoBlock /\ HasRoom
    /\ blocks' = blocks \cup {limiter.offered}
    /\ limiter' = [count |-> limiter.count + 1, offered |-> NoBlock]
    /\ UNCHANGED <<lines, data, job, passedOver, picked, activeRun, reports>>

\* The match processor takes a block that was matched, in any order; once the
\* run is superseded it lets go of it instead.
PickBlock ==
    /\ picked = NoBlock
    /\ \E block \in blocks :
          /\ blocks' = blocks \ {block}
          /\ picked' = IF Superseded THEN NoBlock ELSE block
          /\ limiter' = [limiter EXCEPT !.count = IF Superseded THEN CountedDown(@) ELSE @]
    /\ UNCHANGED <<lines, data, job, passedOver, activeRun, reports>>

\* ... and combines it, although the run may be superseded by now.  Progress
\* is reported when the percentage or the Matches counted grew.
CombineBlock ==
    /\ picked # NoBlock
    /\ data' = AddAll(data, picked.first, picked.end, picked.matches)
    /\ picked' = NoBlock
    /\ limiter' = [limiter EXCEPT !.count = CountedDown(@)]
    /\ \/ Len(reports) < MaxReports /\ reports' = Append(reports, Progressed(job.id))
       \/ UNCHANGED reports
    /\ UNCHANGED <<lines, job, blocks, passedOver, activeRun>>

\* Nothing is left to do in the graph, whether the reader stopped or the
\* limiter has no room for what was read: the run returns.
EndRun ==
    /\ job.id # 0
    /\ \/ job.pc = "skipped"
       \/ /\ job.pc = "searching"
          /\ \/ limiter.offered = NoBlock /\ (job.next >= job.end \/ Superseded)
             \/ limiter.offered # NoBlock /\ ~HasRoom
    /\ blocks = {} /\ picked = NoBlock
    /\ reports' = Append(reports, Finished(job.id, IF Superseded THEN "superseded" ELSE "returned"))
    /\ job' = NoJob
    /\ limiter' = NoneCounted
    /\ UNCHANGED <<lines, data, blocks, passedOver, picked, activeRun>>

\* Reading or matching throws: a failed run keeps nothing it found.
FailRun_Silent ==
    /\ job.id # 0 /\ job.pc = "searching"
    /\ data' = EmptyData
    /\ blocks' = {} /\ limiter' = NoneCounted /\ picked' = NoBlock
    /\ job' = NoJob
    /\ UNCHANGED <<lines, passedOver, activeRun, reports>>
FailRun ==
    /\ job.id # 0 /\ job.pc = "searching"
    /\ data' = EmptyData
    /\ blocks' = {} /\ limiter' = NoneCounted /\ picked' = NoBlock
    /\ reports' = Append(reports, Finished(job.id, "failed"))
    /\ job' = NoJob
    /\ UNCHANGED <<lines, passedOver, activeRun>>

Run == RunFull \/ RunUpdate \/ ReadBlock \/ AcceptBlock \/ PickBlock \/ CombineBlock \/ EndRun \/ FailRun
=============================================================================
