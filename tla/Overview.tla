------------------------------ MODULE Overview ------------------------------
(***************************************************************************)
(* The Overview beside the Filtered View (src/ui/src/overview.cpp): for    *)
(* each row of its height, how many displayed Log Lines it stands for.     *)
(* While the Displayed Lines tell no rewrite it counts again only from the *)
(* last row drawn on.                                                      *)
(***************************************************************************)
EXTENDS DisplayedLines

CONSTANTS
    Heights,            \* the heights it may be drawn at
    WeightSteps         \* WeightedLine::WEIGHT_STEPS

ASSUME OverviewAssumption == Heights \subseteq Nat \ {0} /\ WeightSteps \in Nat

\* What the visibility box offers (crawlerwidget.cpp:1464-1489): Context Lines
\* are shown with the Matches only.
ASSUME VisibilitiesOffered == \A shown \in Visibilities : "Context" \in shown => "Match" \in shown

VARIABLE overview       \* its members

vars == <<nbLogLines, d, overview>>

\* firstLineOfRow()
FirstLineOfRow(o, row) == (row * o.linesInFile + o.height - 1) \div o.height

Weight(count) == Least(count, WeightSteps)

\* countDisplayedLines() of the Log Lines a row stands for.
RowCount(o, row) ==
    LET count == CountIn(d, FirstLineOfRow(o, row), FirstLineOfRow(o, row + 1))
    IN  [matches |-> Weight(count.matches), others |-> Weight(count.others)]

Blank == [matches |-> 0, others |-> 0]
NoRows == <<>>
Drawn(o) == {row \in DOMAIN o.rows : o.rows[row] # Blank}
LastRow(o) == Max({0} \cup Drawn(o))

\* recalculatesLines(): which rows are counted again.
FirstRow_AfterLast(o, onlyAppended) == IF onlyAppended THEN LastRow(o) + 1 ELSE 0
FirstRow(o, onlyAppended) == IF onlyAppended THEN LastRow(o) ELSE 0

Recalculated(o) ==
    LET onlyAppended == /\ o.computed = [linesInFile |-> o.linesInFile, height |-> o.height]
                        /\ ~d.rewritten
        from == FirstRow(o, onlyAppended)
    IN  [o EXCEPT
            !.rows = [row \in 0..(o.height - 1) |->
                         IF o.linesInFile > 0 /\ row >= from THEN RowCount(o, row)
                         ELSE IF onlyAppended /\ row < from THEN o.rows[row] ELSE Blank],
            !.computed = [linesInFile |-> o.linesInFile, height |-> o.height],
            !.dirty = FALSE]

NotComputed == [linesInFile |-> -1, height |-> -1]

OverviewInit ==
    /\ Init
    /\ overview = [linesInFile |-> 0, height |-> 0, dirty |-> TRUE, computed |-> NotComputed, rows |-> NoRows]

\* setFilteredData().  The rows drawn are forgotten with what they were
\* counted for: all are counted again before they are drawn.
SetFilteredData ==
    /\ overview' = [overview EXCEPT !.dirty = TRUE, !.computed = NotComputed, !.rows = NoRows]
    /\ UNCHANGED <<nbLogLines, d>>

\* updateData(), with how many Log Lines there are.
UpdateData ==
    /\ overview' = [overview EXCEPT !.linesInFile = nbLogLines, !.dirty = TRUE]
    /\ UNCHANGED <<nbLogLines, d>>

\* updateView().  Where a paced update came too early to be computed nothing
\* changes, and it is asked again.  Computing reads rewrites().
UpdateView ==
    /\ \E height \in Heights :
           /\ height # overview.height \/ overview.dirty
           /\ overview' = Recalculated([overview EXCEPT !.height = height])
    /\ d' = [d EXCEPT !.rewritten = FALSE]
    /\ UNCHANGED nbLogLines

\* The Overview hears of what the Displayed Lines do later.
Next ==
    \/ LogLinesIndexed /\ UNCHANGED overview
    \/ MatchesArrive /\ UNCHANGED overview
    \/ MatchesComplete /\ UNCHANGED overview
    \/ MatchesAreReplaced /\ UNCHANGED overview
    \/ MatchesReplacedComplete /\ UNCHANGED overview
    \/ MatchesDiscarded /\ UNCHANGED overview
    \/ AddMark /\ UNCHANGED overview
    \/ RemoveMark /\ UNCHANGED overview
    \/ ClearMarks /\ UNCHANGED overview
    \/ SetShown /\ UNCHANGED overview
    \/ SetContextLinesCount /\ UNCHANGED overview
    \/ SetFilteredData \/ UpdateData \/ UpdateView

Spec == OverviewInit /\ [][Next]_vars

OverviewTypeOK ==
    /\ TypeOK
    /\ overview.linesInFile \in 0..MaxLines /\ overview.height \in {0} \cup Heights
    /\ overview.computed # NotComputed => DOMAIN overview.rows = 0..(overview.computed.height - 1)
    /\ \A row \in DOMAIN overview.rows : overview.rows[row] \in [matches : 0..WeightSteps, others : 0..WeightSteps]

\* Every row of an Overview just computed counts all the Log Lines displayed
\* in it, though rows before the last one drawn were kept from before
\* (recalculatesLines, rewrites()).
OverviewExact ==
    [][(overview' # overview /\ ~overview'.dirty) =>
          (\A row \in DOMAIN overview.rows' : overview.rows'[row] = RowCount(overview, row)')]_vars

\* What is displayed, marked or a Context Line stays as it is unless a
\* rewrite is told; only what comes after it may change untold
\* (displayedlines.h:262, rewritten()).
Everything(m) == m.matches \cup m.marks \cup m.contextLines
RewritesTold ==
    [][~d'.rewritten =>
        \A line \in {l \in LogLines : \E last \in Everything(d) : l <= last} :
            LineType(d, line) = LineType(d', line) /\ (line \in Lines(d) <=> line \in Lines(d'))]_vars
=============================================================================
