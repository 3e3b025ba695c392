--------------------------- MODULE DisplayedLines ---------------------------
(***************************************************************************)
(* The Displayed Lines (src/logdata/src/displayedlines.cpp): the Log Lines *)
(* the Filtered View shows, which are the Matches, the Marks and, while    *)
(* they are shown, the Context Lines around both.  They are kept up to     *)
(* date from what changed rather than computed again: d holds the members, *)
(* and each operation is an operator from the members to those after it.   *)
(* How long a Mark is, and walking the lines, are left out.                *)
(***************************************************************************)
EXTENDS Integers, FiniteSetsExt

CONSTANTS
    MaxLines,           \* bound: Log Lines of the Log File
    Lengths,            \* how many Log Lines it has as it is indexed
    MaxMarks,           \* bound: Marks at a time
    Visibilities,       \* the sets of kinds of Log Line that may be shown
    ContextCounts       \* how many Context Lines may be asked for

ASSUME DisplayedLinesAssumption ==
    /\ MaxLines \in Nat /\ MaxMarks \in Nat /\ Lengths \subseteq 0..MaxLines
    /\ Visibilities \subseteq SUBSET {"Match", "Mark", "Context"}
    /\ ContextCounts \subseteq Nat

VARIABLES
    nbLogLines,     \* how many Log Lines the Log File has
    d               \* the members, the Matches they read among them

Least(a, b) == IF a < b THEN a ELSE b
Greatest(a, b) == IF a > b THEN a ELSE b
LogLines == 0..(MaxLines - 1)

Members ==
    [matches : SUBSET LogLines, marks : SUBSET LogLines, contextLines : SUBSET LogLines,
     combinedLines : SUBSET LogLines, source : {"Matches", "Marks", "Combined"},
     shown : SUBSET {"Match", "Mark", "Context"}, contextLinesCount : Nat,
     matchesWithoutContextLines : SUBSET LogLines, contextLinesUpToDate : BOOLEAN,
     contextLinesEnd : 0..MaxLines,
     rewritten : BOOLEAN]   \* rewrites() changed since it was last asked for

TypeOK == nbLogLines \in 0..MaxLines /\ d \in Members

-----------------------------------------------------------------------------
(* What is displayed.                                                      *)

MatchesShown(m) == "Match" \in m.shown
MarksShown(m) == "Mark" \in m.shown \/ ~MatchesShown(m)

\* What of each set is shown.
Shown(m) ==
    (IF "Context" \in m.shown THEN m.contextLines ELSE {})
        \cup (IF MatchesShown(m) THEN m.matches ELSE {})
        \cup (IF MarksShown(m) THEN m.marks ELSE {})

PickSource(m) ==
    LET contextLinesShown == "Context" \in m.shown /\ m.contextLines # {}
        both == MatchesShown(m) /\ MarksShown(m)
    IN  CASE contextLinesShown -> "Combined"
          [] ~contextLinesShown /\ ~both -> IF MatchesShown(m) THEN "Matches" ELSE "Marks"
          [] ~contextLinesShown /\ both ->
                 IF m.marks = {} THEN "Matches" ELSE IF m.matches = {} THEN "Marks" ELSE "Combined"

\* lines()
Lines(m) ==
    CASE m.source = "Matches" -> m.matches
      [] m.source = "Marks" -> m.marks
      [] m.source = "Combined" -> m.combinedLines

\* refreshLines()
RefreshLines(m) ==
    [m EXCEPT !.source = PickSource(m),
              !.combinedLines = IF PickSource(m) = "Combined" THEN Shown(m) ELSE {}]

\* refreshLinesAt()
RefreshLinesAt(m, changed) ==
    IF m.source # "Combined" \/ PickSource(m) # "Combined" THEN RefreshLines(m)
    ELSE [m EXCEPT !.combinedLines = (@ \ changed) \cup (changed \cap Shown(m))]

Rewritten(m) == [m EXCEPT !.rewritten = TRUE]

\* lineType()
LineType(m, line) ==
    {kind \in {"Match", "Mark"} : line \in (IF kind = "Match" THEN m.matches ELSE m.marks)}
        \cup (IF line \in m.contextLines \ (m.matches \cup m.marks) THEN {"Context"} ELSE {})

\* countIn()
CountIn(m, first, end) ==
    LET displayed == Lines(m) \cap (first..(end - 1))
        matching == m.matches \cap (first..(end - 1))
    IN  IF MatchesShown(m)
        THEN [matches |-> Cardinality(matching), others |-> Cardinality(displayed) - Cardinality(matching)]
        ELSE [matches |-> Cardinality(displayed \cap m.matches), others |-> Cardinality(displayed \ m.matches)]

-----------------------------------------------------------------------------
(* Context Lines.                                                          *)

\* Within the reach of a line.
Near(line, reach) == Greatest(line - reach, 0)..(line + reach)

\* contextLinesAround()
ContextLinesAround(m, lines, end) ==
    IF m.contextLinesCount = 0 THEN {}
    ELSE {l \in 0..(end - 1) : \E line \in lines : l \in Near(line, m.contextLinesCount)}
             \ (m.matches \cup m.marks)

\* rebuildContextLines()
RebuildContextLines(m) ==
    [m EXCEPT !.contextLines = ContextLinesAround(m, m.matches \cup m.marks, nbLogLines),
              !.matchesWithoutContextLines = {}, !.contextLinesUpToDate = TRUE,
              !.contextLinesEnd = nbLogLines]

\* updateContextLines(): the members after, and which lines may have changed.
UpdateContextLines(m) ==
    LET stale == ~m.contextLinesUpToDate \/ nbLogLines < m.contextLinesEnd
        reach == m.contextLinesCount
        nearFormerEnd == IF reach > 0 /\ nbLogLines > m.contextLinesEnd
                         THEN Greatest(m.contextLinesEnd - reach, 0)..(nbLogLines + reach - 1) ELSE {}
        around == m.matchesWithoutContextLines \cup (nearFormerEnd \cap (m.matches \cup m.marks))
        added == ContextLinesAround(m, around, nbLogLines)
    IN  IF stale THEN [members |-> RebuildContextLines(m), everywhere |-> TRUE, changed |-> {}]
        ELSE [members |-> [m EXCEPT !.matchesWithoutContextLines = {}, !.contextLinesEnd = nbLogLines,
                              !.contextLines = IF reach = 0 THEN @ ELSE (@ \ around) \cup added],
              everywhere |-> FALSE,
              changed |-> added \cup around]

\* What a line reaches, as dropContextLinesOf() takes it.
Reached(m, line) == Near(line, m.contextLinesCount) \cap (0..(m.contextLinesEnd - 1))

\* What the Matches and Marks within distance of a line reach of what it does.
StillReached(m, line, distance) ==
    ContextLinesAround(m, Near(line, distance) \cap (m.matches \cup m.marks), m.contextLinesEnd)
        \cap Reached(m, line)

\* dropContextLinesOf(), of each of lines: they stop being Matches or Marks.
\* It reads no Context Lines, so one after the other is all at once.
DropContextLinesOf_ReachOnce(m, lines) ==
    [m EXCEPT !.contextLines = (@ \ UNION {Reached(m, line) : line \in lines})
        \cup UNION {StillReached(m, line, m.contextLinesCount) : line \in lines}]
DropContextLinesOf(m, lines) ==
    [m EXCEPT !.contextLines = (@ \ UNION {Reached(m, line) : line \in lines})
        \cup UNION {StillReached(m, line, 2 * m.contextLinesCount) : line \in lines}]

-----------------------------------------------------------------------------
(* The parts of apply(): the Matches have changed already.                 *)

\* What was a Match, a Mark or a Context Line before added were Matches.
Former(m, added) == (m.matches \ added) \cup m.marks \cup m.contextLines
AllAfter(lines, former) == \A line \in lines, other \in former : other < line

\* comeAfterEverything()
ComeAfterEverything(m, added) == AllAfter(added, Former(m, added))

RewrittenUnless(holds, m) == IF holds THEN m ELSE Rewritten(m)
Waiting(m, added) ==
    [m EXCEPT !.matchesWithoutContextLines = IF m.contextLinesUpToDate THEN @ \cup added ELSE @]

\* matchesArrived(), the Matches having been replaced, and having grown.
MatchesReplaced(m) ==
    RefreshLines([Rewritten(m) EXCEPT !.contextLinesUpToDate = FALSE, !.matchesWithoutContextLines = {}])
MatchesArrived(m, added) ==
    RefreshLinesAt(Waiting(RewrittenUnless(ComeAfterEverything(m, added), m), added), added)

\* matchesRemoved()
MatchesRemoved(m, removed) ==
    LET update == UpdateContextLines([Rewritten(m) EXCEPT !.matchesWithoutContextLines = @ \ removed])
        dropped == {line \in removed : m.contextLinesCount > 0 /\ line \notin m.marks}
    IN  IF removed = {} THEN m
        ELSE IF update.everywhere THEN RefreshLines(update.members)
        ELSE RefreshLinesAt(DropContextLinesOf(update.members, dropped),
                            update.changed \cup removed
                                \cup UNION {Reached(update.members, line) : line \in dropped})

\* searchCompleted(), likewise.
SearchCompletedAnew(m) == RefreshLines(RebuildContextLines(Rewritten(m)))
SearchCompleted_ContextAfter(m, added) ==
    LET update == UpdateContextLines(Waiting(m, added))
    IN  IF update.everywhere THEN RefreshLines(Rewritten(update.members))
        ELSE RefreshLinesAt(RewrittenUnless(ComeAfterEverything(m, added), update.members),
                            update.changed \cup added)
SearchCompleted_AddedOnly(m, added) ==
    LET update == UpdateContextLines(Waiting(m, added))
    IN  RefreshLinesAt(Rewritten(update.members), added)
SearchCompleted(m, added) ==
    LET update == UpdateContextLines(Waiting(m, added))
        contextLinesChanged == update.changed \ (m.matches \cup m.marks)
        appended == /\ ComeAfterEverything(m, added)
                    /\ AllAfter(contextLinesChanged, Former(m, added))
    IN  IF update.everywhere THEN RefreshLines(Rewritten(update.members))
        ELSE RefreshLinesAt(RewrittenUnless(appended, update.members), update.changed \cup added)

\* searchDiscarded()
SearchDiscarded(m) ==
    RefreshLines([Rewritten(m) EXCEPT !.contextLines = {}, !.contextLinesUpToDate = FALSE,
                                      !.matchesWithoutContextLines = {}])

\* markToggled()
MarkToggled(m, line) ==
    LET update == UpdateContextLines(Rewritten(m))
        u == update.members
        its == ContextLinesAround(u, {line}, u.contextLinesEnd)
        isMark == line \in m.marks
        isAlone == ~isMark /\ line \notin m.matches
        after == IF m.contextLinesCount = 0 THEN u
                 ELSE IF isMark THEN [u EXCEPT !.contextLines = (@ \ {line}) \cup its]
                 ELSE IF isAlone THEN DropContextLinesOf(u, {line})
                 ELSE u
    IN  IF update.everywhere THEN RefreshLines(u)
        ELSE RefreshLinesAt(after, update.changed \cup {line} \cup (IF isMark THEN its ELSE {})
                                       \cup (IF isAlone THEN Reached(u, line) ELSE {}))

(***************************************************************************)
(* Its operations.                                                         *)
(***************************************************************************)
Init ==
    /\ nbLogLines = 0
    /\ \E count \in ContextCounts :
           d = [matches |-> {}, marks |-> {}, contextLines |-> {}, combinedLines |-> {},
                source |-> "Matches", shown |-> {"Match", "Mark"}, contextLinesCount |-> count,
                matchesWithoutContextLines |-> {}, contextLinesUpToDate |-> FALSE,
                contextLinesEnd |-> 0, rewritten |-> FALSE]

\* An index run reads Log Lines, or clears them to read them again.
LogLinesIndexed ==
    /\ nbLogLines' \in Lengths \ {nbLogLines}
    /\ UNCHANGED d

\* apply() of a delta that tells what joined and left the Matches: what left
\* them was the last one, searched again where the Log File had ended, and
\* what joined them then comes after it.
Last(lines) == {line \in lines : \A other \in lines : other <= line}
Apply(completes) ==
    \E removed \in {{}, Last(d.matches)} :
        \E added \in SUBSET {line \in (0..(nbLogLines - 1)) \ d.matches : \A gone \in removed : gone < line} :
            LET told == MatchesRemoved([d EXCEPT !.matches = (@ \ removed) \cup added], removed)
            IN  d' = IF completes THEN SearchCompleted(told, added) ELSE MatchesArrived(told, added)
MatchesArrive == Apply(FALSE) /\ UNCHANGED nbLogLines
MatchesComplete == Apply(TRUE) /\ UNCHANGED nbLogLines

\* apply() of Matches that were replaced, and of none any longer.
MatchesAreReplaced ==
    /\ \E matches \in SUBSET (0..(nbLogLines - 1)) : d' = MatchesReplaced([d EXCEPT !.matches = matches])
    /\ UNCHANGED nbLogLines
MatchesReplacedComplete ==
    /\ \E matches \in SUBSET (0..(nbLogLines - 1)) : d' = SearchCompletedAnew([d EXCEPT !.matches = matches])
    /\ UNCHANGED nbLogLines
MatchesDiscarded ==
    /\ d' = SearchDiscarded([d EXCEPT !.matches = {}])
    /\ UNCHANGED nbLogLines

AddMark ==
    /\ Cardinality(d.marks) < MaxMarks
    /\ \E line \in (0..(nbLogLines - 1)) \ d.marks : d' = MarkToggled([d EXCEPT !.marks = @ \cup {line}], line)
    /\ UNCHANGED nbLogLines
RemoveMark ==
    /\ \E line \in d.marks : d' = MarkToggled([d EXCEPT !.marks = @ \ {line}], line)
    /\ UNCHANGED nbLogLines
ClearMarks ==
    /\ d' = RefreshLines(RebuildContextLines([Rewritten(d) EXCEPT !.marks = {}]))
    /\ UNCHANGED nbLogLines

SetShown ==
    /\ \E shown \in Visibilities : d' = RefreshLines([Rewritten(d) EXCEPT !.shown = shown])
    /\ UNCHANGED nbLogLines
SetContextLinesCount ==
    /\ \E count \in ContextCounts \ {d.contextLinesCount} :
           d' = RefreshLines(RebuildContextLines([Rewritten(d) EXCEPT !.contextLinesCount = count]))
    /\ UNCHANGED nbLogLines

(***************************************************************************)
(* What the Displayed Lines promise.                                       *)
(***************************************************************************)

\* Whatever changed, and however little of the lines was computed again for
\* it, the lines displayed are those of the kinds shown (lines(),
\* refreshLinesAt).
DisplayedAreShown == Lines(d) = Shown(d)

\* The Context Lines, while kept up to date, are what the Matches and Marks
\* reach within the Log File as it was when they were last brought up to date;
\* those of the Matches still waiting for theirs may be missing
\* (contextLinesUpToDate_, displayedlines.h:276).
ContextLinesExact ==
    d.contextLinesUpToDate =>
        LET others == d.contextLines \ (d.matches \cup d.marks)
            served == (d.matches \ d.matchesWithoutContextLines) \cup d.marks
        IN  /\ ContextLinesAround(d, served, d.contextLinesEnd) \subseteq others
            /\ others \subseteq ContextLinesAround(d, d.matches \cup d.marks, d.contextLinesEnd)
=============================================================================
