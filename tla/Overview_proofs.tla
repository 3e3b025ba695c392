--------------------------- MODULE Overview_proofs ---------------------------
(***************************************************************************)
(* Proofs about the Displayed Lines and the Overview beside them, for any  *)
(* Log File, any heights, and any number of Context Lines.                 *)
(***************************************************************************)
EXTENDS Overview, DisplayedLines_proofs, FiniteSetTheorems, WellFoundedInduction

\* Context Lines are shown with the Matches only.
ShownOffered(m) == "Context" \in m.shown => "Match" \in m.shown

\* What RewritesTold promises of a step that tells none.
KeptBefore(m, n) ==
    \A line \in {l \in LogLines : \E last \in Everything(m) : l <= last} :
        LineType(m, line) = LineType(n, line) /\ (line \in Lines(m) <=> line \in Lines(n))

-----------------------------------------------------------------------------
(* What the operations of the Displayed Lines keep.                        *)

\* Where only what comes after everything joined, all of it is kept: Context
\* Lines may change before it where there is a Match or Mark, and nowhere else.
LEMMA UntoldKept ==
    ASSUME NEW m, NEW n, DisplayInv(m), DisplayInv(n), ShownOffered(m), n.shown = m.shown,
           NEW added \in SUBSET LogLines, AllAfter(added, Everything(m)),
           n.matches = m.matches \cup added, n.marks = m.marks,
           NEW changed, AllAfter(changed \ (n.matches \cup n.marks), Everything(m)),
           n.contextLines \ changed = m.contextLines \ changed
    PROVE  KeptBefore(m, n)
<1> SUFFICES ASSUME NEW line \in LogLines, NEW last \in Everything(m), line <= last
             PROVE  LineType(m, line) = LineType(n, line) /\ (line \in Lines(m) <=> line \in Lines(n))
  BY DEF KeptBefore
<1>1. line \in Int /\ last \in Int
  <2>1. last \in LogLines /\ LogLines \subseteq Int
    BY DEF DisplayInv, Members, Everything, LogLines
  <2> QED
    BY <2>1
<1>2. line \notin added
  <2>1. last < line <=> ~(line <= last)
    BY <1>1
  <2> QED
    BY <2>1 DEF AllAfter
<1>3. line \in changed => line \in m.matches \cup m.marks
  <2>1. last < line <=> ~(line <= last)
    BY <1>1
  <2>2. line \in changed => line \in n.matches \cup n.marks
    BY <2>1 DEF AllAfter
  <2> QED
    BY <1>2, <2>2
<1>4. (line \in n.matches <=> line \in m.matches) /\ (line \in n.marks <=> line \in m.marks)
  BY <1>2
<1>5. line \notin m.matches \cup m.marks => (line \in n.contextLines <=> line \in m.contextLines)
  BY <1>3
<1>6. line \in m.marks => line \notin m.contextLines /\ line \notin n.contextLines
  BY DEF DisplayInv, ContextInv
<1>7. LineType(m, line) = LineType(n, line)
  BY <1>4, <1>5 DEF LineType
<1>8. line \in Shown(m) <=> line \in Shown(n)
  BY <1>4, <1>5, <1>6 DEF Shown, MatchesShown, MarksShown, ShownOffered
<1> QED
  BY <1>7, <1>8 DEF DisplayInv

\* apply() of a delta.
LEMMA ApplyStep ==
    ASSUME nbLogLines \in 0..MaxLines, DisplayInv(d), ShownOffered(d),
           NEW completes \in BOOLEAN, Apply(completes)
    PROVE  /\ DisplayInv(d') /\ d'.shown = d.shown
           /\ ~d'.rewritten => ~d.rewritten /\ KeptBefore(d, d')
<1>1. PICK removed \in {{}, Last(d.matches)} :
         \E added \in SUBSET {line \in (0..(nbLogLines - 1)) \ d.matches : \A gone \in removed : gone < line} :
             LET told == MatchesRemoved([d EXCEPT !.matches = (@ \ removed) \cup added], removed)
             IN  d' = IF completes THEN SearchCompleted(told, added) ELSE MatchesArrived(told, added)
  BY DEF Apply
<1>2. PICK added \in SUBSET {line \in (0..(nbLogLines - 1)) \ d.matches : \A gone \in removed : gone < line} :
             LET told == MatchesRemoved([d EXCEPT !.matches = (@ \ removed) \cup added], removed)
             IN  d' = IF completes THEN SearchCompleted(told, added) ELSE MatchesArrived(told, added)
  BY <1>1
<1>3. PICK t : t = MatchesRemoved([d EXCEPT !.matches = (@ \ removed) \cup added], removed)
  OBVIOUS
<1>4. removed \in SUBSET d.matches /\ added \in SUBSET LogLines /\ added \cap d.matches = {}
  <2>1. Last(d.matches) \in SUBSET d.matches
    BY DEF Last
  <2>2. 0..(nbLogLines - 1) \subseteq LogLines
    BY DisplayedLinesAssumption DEF LogLines
  <2> QED
    BY <2>1, <2>2
<1>5. /\ DisplayInvBut(t, added) /\ added \subseteq t.matches /\ t.shown = d.shown
      /\ removed = {} => t = [d EXCEPT !.matches = (@ \ removed) \cup added]
      /\ removed # {} => t.rewritten = TRUE
  <2>1. PICK gone \in SUBSET d.matches : gone = removed
    BY <1>4
  <2>2. PICK joined \in SUBSET LogLines : joined = added
    BY <1>4
  <2>3. joined \cap d.matches = {}
    BY <1>4, <2>2
  <2>4. t = MatchesRemoved([d EXCEPT !.matches = (@ \ gone) \cup joined], gone)
    BY <1>3, <2>1, <2>2
  <2>5. /\ DisplayInvBut(t, joined) /\ joined \subseteq t.matches /\ t.shown = d.shown
        /\ gone # {} => t.rewritten = TRUE
    BY <2>3, <2>4, MatchesRemovedKeeps
  <2>6. removed = {} => t = [d EXCEPT !.matches = (@ \ removed) \cup added]
    BY <1>3 DEF MatchesRemoved
  <2> QED
    BY <2>1, <2>2, <2>5, <2>6
<1>6. d' = IF completes THEN SearchCompleted(t, added) ELSE MatchesArrived(t, added)
  BY <1>2, <1>3
<1>7. ASSUME ~t.rewritten, AllAfter(added, Former(t, added)), DisplayInv(d'), d'.shown = d.shown,
             d'.matches = t.matches, d'.marks = t.marks, NEW changed,
             AllAfter(changed \ Reaching(t), Former(t, added)),
             d'.contextLines \ changed = t.contextLines \ changed
      PROVE  ~d.rewritten /\ KeptBefore(d, d')
  <2>1. removed = {} /\ t = [d EXCEPT !.matches = (@ \ removed) \cup added]
    BY <1>5, <1>7
  <2>2. /\ t.matches = d.matches \cup added /\ t.marks = d.marks /\ t.contextLines = d.contextLines
        /\ t.rewritten = d.rewritten
    BY <2>1 DEF DisplayInv, Members
  <2>3. Former(t, added) = Everything(d)
    BY <1>4, <2>2 DEF Former, Everything
  <2>4. PICK n : n = d'
    OBVIOUS
  <2>5. /\ DisplayInv(n) /\ n.shown = d.shown /\ n.matches = d.matches \cup added /\ n.marks = d.marks
        /\ AllAfter(added, Everything(d)) /\ AllAfter(changed \ (n.matches \cup n.marks), Everything(d))
        /\ n.contextLines \ changed = d.contextLines \ changed
    BY <1>7, <2>2, <2>3, <2>4 DEF Reaching
  <2>6. KeptBefore(d, n)
    BY <1>4, <2>5, UntoldKept
  <2> QED
    BY <1>7, <2>2, <2>4, <2>6
<1>8. CASE completes
  <2>1. PICK n : n = SearchCompleted(t, added)
    OBVIOUS
  <2>2. /\ DisplayInv(n) /\ n.shown = t.shown
        /\ n.matches = t.matches /\ n.marks = t.marks
        /\ ~n.rewritten =>
              /\ ~t.rewritten /\ AllAfter(added, Former(t, added))
              /\ \E changed : /\ AllAfter(changed \ Reaching(t), Former(t, added))
                              /\ n.contextLines \ changed = t.contextLines \ changed
    BY <1>5, <2>1, SearchCompletedKeeps
  <2>3. d' = n
    BY <1>6, <1>8, <2>1
  <2> QED
    BY <1>5, <1>7, <2>2, <2>3
<1>9. CASE ~completes
  <2>1. PICK n : n = MatchesArrived(t, added)
    OBVIOUS
  <2>2. /\ DisplayInv(n) /\ n.shown = t.shown
        /\ n.matches = t.matches /\ n.marks = t.marks /\ n.contextLines = t.contextLines
        /\ ~n.rewritten => ~t.rewritten /\ AllAfter(added, Former(t, added))
    BY <1>5, <2>1, MatchesArrivedKeeps
  <2>3. d' = n
    BY <1>6, <1>9, <2>1
  <2>4. AllAfter({} \ Reaching(t), Former(t, added))
    BY DEF AllAfter
  <2> QED
    BY <1>5, <1>7, <2>2, <2>3, <2>4
<1> QED
  BY <1>8, <1>9

\* The Displayed Lines are right, and show what may be shown.
DisplayedInv == nbLogLines \in 0..MaxLines /\ DisplayInv(d) /\ ShownOffered(d)

\* What a step of the Displayed Lines does: it tells a rewrite, or keeps all
\* before what it added.
Tells(m, n) ==
    /\ DisplayInv(n) /\ ShownOffered(n)
    /\ ~n.rewritten => ~m.rewritten /\ n.shown = m.shown /\ KeptBefore(m, n)

\* Members that stay the same keep everything.
LEMMA TellsSame ==
    ASSUME NEW m, DisplayInv(m), ShownOffered(m)
    PROVE  Tells(m, m)
  BY DEF Tells, KeptBefore

\* markToggled(), by the Mark it is of.
LEMMA AddMarkStep ==
    ASSUME DisplayedInv, AddMark
    PROVE  Tells(d, d')
<1>1. PICK line \in (0..(nbLogLines - 1)) \ d.marks :
         d' = MarkToggled([d EXCEPT !.marks = @ \cup {line}], line)
  BY DEF AddMark
<1>2. line \in LogLines /\ line \notin d.marks
  BY <1>1, DisplayedLinesAssumption DEF DisplayedInv, LogLines
<1>3. PICK n : n = MarkToggled([d EXCEPT !.marks = @ \cup {line}], line)
  OBVIOUS
<1>4. DisplayInv(n) /\ n.shown = d.shown /\ n.rewritten = TRUE
  BY <1>2, <1>3, MarkAddedKeeps DEF DisplayedInv
<1> QED
  BY <1>1, <1>3, <1>4 DEF Tells, ShownOffered, DisplayedInv
LEMMA RemoveMarkStep ==
    ASSUME DisplayedInv, RemoveMark
    PROVE  Tells(d, d')
<1>1. PICK line \in d.marks : d' = MarkToggled([d EXCEPT !.marks = @ \ {line}], line)
  BY DEF RemoveMark
<1>2. PICK n : n = MarkToggled([d EXCEPT !.marks = @ \ {line}], line)
  OBVIOUS
<1>3. DisplayInv(n) /\ n.shown = d.shown /\ n.rewritten = TRUE
  BY <1>2, MarkRemovedKeeps DEF DisplayedInv
<1> QED
  BY <1>1, <1>2, <1>3 DEF Tells, ShownOffered, DisplayedInv

\* Matches replaced or discarded.
LEMMA ReplacedStep ==
    ASSUME DisplayedInv, MatchesAreReplaced \/ MatchesReplacedComplete \/ MatchesDiscarded
    PROVE  Tells(d, d')
<1>1. \E matches \in SUBSET LogLines :
         \/ d' = MatchesReplaced([d EXCEPT !.matches = matches])
         \/ d' = SearchCompletedAnew([d EXCEPT !.matches = matches])
         \/ d' = SearchDiscarded([d EXCEPT !.matches = matches])
  <2>1. 0..(nbLogLines - 1) \subseteq LogLines
    BY DisplayedLinesAssumption DEF DisplayedInv, LogLines
  <2>2. \A matches \in SUBSET (0..(nbLogLines - 1)) : matches \in SUBSET LogLines
    BY <2>1
  <2>3. {} \in SUBSET LogLines
    OBVIOUS
  <2> QED
    BY <2>2, <2>3 DEF MatchesAreReplaced, MatchesReplacedComplete, MatchesDiscarded
<1>2. PICK matches \in SUBSET LogLines :
         \/ d' = MatchesReplaced([d EXCEPT !.matches = matches])
         \/ d' = SearchCompletedAnew([d EXCEPT !.matches = matches])
         \/ d' = SearchDiscarded([d EXCEPT !.matches = matches])
  BY <1>1
<1>3. PICK n \in {MatchesReplaced([d EXCEPT !.matches = matches]),
                  SearchCompletedAnew([d EXCEPT !.matches = matches]),
                  SearchDiscarded([d EXCEPT !.matches = matches])} : d' = n
  BY <1>2
<1>4. DisplayInv(n) /\ n.shown = d.shown /\ n.rewritten = TRUE
  BY <1>3, ReplacedKeeps DEF DisplayedInv
<1> QED
  BY <1>3, <1>4 DEF Tells, ShownOffered, DisplayedInv

\* Everything else that is computed again.
LEMMA RecomputedStep ==
    ASSUME DisplayedInv, ClearMarks \/ SetShown \/ SetContextLinesCount
    PROVE  Tells(d, d')
<1>1. CASE ClearMarks
  <2>1. 0 \in Nat
    OBVIOUS
  <2>2. PICK r \in {[Rewritten(d) EXCEPT !.marks = {}], [Rewritten(d) EXCEPT !.contextLinesCount = 0]} :
           d' = RefreshLines(RebuildContextLines(r))
    BY <1>1 DEF ClearMarks
  <2>3. PICK n : n = RefreshLines(RebuildContextLines(r))
    OBVIOUS
  <2>4. DisplayInv(n) /\ n.shown = d.shown /\ n.rewritten = TRUE
    BY <2>1, <2>3, RecomputedKeeps DEF DisplayedInv
  <2> QED
    BY <2>2, <2>3, <2>4 DEF Tells, ShownOffered, DisplayedInv
<1>2. CASE SetShown
  <2>1. PICK shown \in Visibilities : d' = RefreshLines([Rewritten(d) EXCEPT !.shown = shown])
    BY <1>2 DEF SetShown
  <2>2. shown \in SUBSET {"Match", "Mark", "Context"} /\ ("Context" \in shown => "Match" \in shown)
    BY <2>1, DisplayedLinesAssumption, VisibilitiesOffered
  <2>3. PICK n : n = RefreshLines([Rewritten(d) EXCEPT !.shown = shown])
    OBVIOUS
  <2>4. DisplayInv(n) /\ n.shown = shown /\ n.rewritten = TRUE
    BY <2>2, <2>3, ShownKeeps DEF DisplayedInv
  <2> QED
    BY <2>1, <2>2, <2>3, <2>4 DEF Tells, ShownOffered
<1>3. CASE SetContextLinesCount
  <2>1. PICK count \in ContextCounts :
           d' = RefreshLines(RebuildContextLines([Rewritten(d) EXCEPT !.contextLinesCount = count]))
    BY <1>3 DEF SetContextLinesCount
  <2>2. count \in Nat
    BY DisplayedLinesAssumption
  <2>3. PICK r \in {[Rewritten(d) EXCEPT !.marks = {}], [Rewritten(d) EXCEPT !.contextLinesCount = count]} :
           d' = RefreshLines(RebuildContextLines(r))
    BY <2>1
  <2>4. PICK n : n = RefreshLines(RebuildContextLines(r))
    OBVIOUS
  <2>5. DisplayInv(n) /\ n.shown = d.shown /\ n.rewritten = TRUE
    BY <2>2, <2>4, RecomputedKeeps DEF DisplayedInv
  <2> QED
    BY <2>3, <2>4, <2>5 DEF Tells, ShownOffered, DisplayedInv
<1> QED
  BY <1>1, <1>2, <1>3

\* apply() of a delta.
LEMMA ArriveStep ==
    ASSUME DisplayedInv, MatchesArrive \/ MatchesComplete
    PROVE  Tells(d, d')
<1>1. PICK completes \in BOOLEAN : Apply(completes)
  BY DEF MatchesArrive, MatchesComplete
<1>2. /\ DisplayInv(d') /\ d'.shown = d.shown
      /\ ~d'.rewritten => ~d.rewritten /\ KeptBefore(d, d')
  BY <1>1, ApplyStep DEF DisplayedInv
<1> QED
  BY <1>2 DEF Tells, ShownOffered, DisplayedInv

\* The steps of the Displayed Lines, the Overview standing still.
DisplayedNext ==
    \/ LogLinesIndexed \/ MatchesArrive \/ MatchesComplete \/ MatchesAreReplaced
    \/ MatchesReplacedComplete \/ MatchesDiscarded \/ AddMark \/ RemoveMark \/ ClearMarks
    \/ SetShown \/ SetContextLinesCount
LEMMA DisplayedStep ==
    ASSUME DisplayedInv, DisplayedNext
    PROVE  DisplayedInv' /\ Tells(d, d')
<1>1. Tells(d, d')
  <2>1. LogLinesIndexed => Tells(d, d')
    BY TellsSame DEF LogLinesIndexed, DisplayedInv
  <2> QED
    BY <2>1, AddMarkStep, RemoveMarkStep, ReplacedStep, RecomputedStep, ArriveStep DEF DisplayedNext
<1>2. nbLogLines' \in 0..MaxLines
  <2>1. nbLogLines' = nbLogLines \/ nbLogLines' \in Lengths
    BY DEF DisplayedNext, LogLinesIndexed, MatchesArrive, MatchesComplete, MatchesAreReplaced,
           MatchesReplacedComplete, MatchesDiscarded, AddMark, RemoveMark, ClearMarks, SetShown,
           SetContextLinesCount
  <2> QED
    BY <2>1, DisplayedLinesAssumption DEF DisplayedInv
<1> QED
  BY <1>1, <1>2 DEF Tells, DisplayedInv

\* Reading whether a rewrite was told changes nothing displayed.
LEMMA ReadStep ==
    ASSUME DisplayedInv, UpdateView
    PROVE  /\ DisplayedInv' /\ KeptBefore(d, d')
           /\ d'.shown = d.shown /\ d'.matches = d.matches /\ Lines(d') = Lines(d)
<1>1. PICK n : n = [d EXCEPT !.rewritten = FALSE]
  OBVIOUS
<1>2. /\ DisplayInv(n) /\ n.shown = d.shown /\ n.matches = d.matches /\ n.marks = d.marks
      /\ n.contextLines = d.contextLines /\ Lines(n) = Lines(d)
  BY <1>1, ReadKeeps DEF DisplayedInv
<1>3. KeptBefore(d, n) /\ ShownOffered(n)
  BY <1>2 DEF KeptBefore, LineType, ShownOffered, DisplayedInv
<1>4. d' = n /\ nbLogLines' = nbLogLines
  BY <1>1 DEF UpdateView
<1> QED
  BY <1>2, <1>3, <1>4 DEF DisplayedInv

\* The initial state satisfies the invariant.
LEMMA DisplayedInit ==
    ASSUME Init
    PROVE  DisplayedInv
<1>1. PICK count \in ContextCounts :
         d = [matches |-> {}, marks |-> {}, contextLines |-> {}, combinedLines |-> {},
              source |-> "Matches", shown |-> {"Match", "Mark"}, contextLinesCount |-> count,
              matchesWithoutContextLines |-> {}, contextLinesUpToDate |-> FALSE,
              contextLinesEnd |-> 0, rewritten |-> FALSE]
  BY DEF Init
<1>2. d \in Members
  BY <1>1, DisplayedLinesAssumption DEF Members
<1>3. Lines(d) = Shown(d) /\ ContextInv(d) /\ ShownOffered(d)
  BY <1>1 DEF Lines, Shown, MatchesShown, MarksShown, ContextInv, ShownOffered
<1>4. nbLogLines \in 0..MaxLines
  BY DisplayedLinesAssumption DEF Init
<1> QED
  BY <1>2, <1>3, <1>4 DEF DisplayedInv, DisplayInv

-----------------------------------------------------------------------------
(* Counting a row.                                                         *)

\* A bounded set of natural numbers has a greatest element, which Max() is.
LEMMA MaxIn ==
    ASSUME NEW S \in SUBSET Nat, S # {}, NEW bound \in Nat, \A x \in S : x <= bound
    PROVE  Max(S) \in S
<1> DEFINE below == {bound - x : x \in S}
<1>1. below \in SUBSET Nat /\ below # {}
  <2>1. ASSUME NEW x \in S
        PROVE  bound - x \in Nat
    <3>1. x \in Nat /\ x <= bound
      OBVIOUS
    <3> QED
      BY <3>1
  <2> QED
    BY <2>1
<1>2. \E m \in below : \A n \in below : ~(<<n, m>> \in OpToRel(<, Nat))
  <2> HIDE DEF below
  <2> QED
    BY <1>1, NatLessThanWellFounded, WFMin
<1>3. PICK m \in below : \A n \in below : ~(<<n, m>> \in OpToRel(<, Nat))
  BY <1>2
<1>4. PICK x \in S : m = bound - x
  OBVIOUS
<1>5. ASSUME NEW y \in S
      PROVE  x >= y
  <2>1. bound - y \in below /\ bound - y \in Nat /\ m \in Nat /\ x \in Nat /\ y \in Nat
    BY <1>1, <1>5
  <2>2. ~(<<bound - y, m>> \in OpToRel(<, Nat))
    BY <1>3, <2>1
  <2>3. bound - y < m => <<bound - y, m>> \in OpToRel(<, Nat)
    BY <2>1 DEF OpToRel
  <2> HIDE DEF below
  <2>4. ~(bound - y < m)
    BY <2>2, <2>3, Zenon
  <2> QED
    BY <1>4, <2>1, <2>4
<1> QED
  BY <1>4, <1>5 DEF Max

\* firstLineOfRow(), by what it was computed for.
FirstAt(lines, height, row) == (row * lines + height - 1) \div height
LEMMA FirstMonotone ==
    ASSUME NEW lines \in Nat, NEW height \in Nat \ {0}, NEW row \in Nat, NEW later \in Nat, row <= later
    PROVE  /\ FirstAt(lines, height, row) \in Nat
           /\ FirstAt(lines, height, row) <= FirstAt(lines, height, later)
<1>1. row * lines \in Nat /\ later * lines \in Nat /\ row * lines <= later * lines
  OBVIOUS
<1>2. ASSUME NEW a \in Nat, NEW b \in Nat, a <= b
      PROVE  a \div height \in Nat /\ a \div height <= b \div height
  BY <1>2
<1>3. row * lines + height - 1 \in Nat /\ later * lines + height - 1 \in Nat
  BY <1>1
<1>4. row * lines + height - 1 <= later * lines + height - 1
  BY <1>1
<1> QED
  BY <1>2, <1>3, <1>4 DEF FirstAt

\* countDisplayedLines() of a row.
RowAt(m, lines, height, row) ==
    LET count == CountIn(m, FirstAt(lines, height, row), FirstAt(lines, height, row + 1))
    IN  [matches |-> Weight(count.matches), others |-> Weight(count.others)]
RowType == [matches : 0..WeightSteps, others : 0..WeightSteps]

\* Its counts are of Log Lines that are displayed.
LEMMA CountFacts ==
    ASSUME NEW m, DisplayInv(m), NEW first \in Nat, NEW end \in Nat
    PROVE  LET count == CountIn(m, first, end) IN
           /\ count.matches \in Nat /\ count.others \in Nat
           /\ count.matches # 0 \/ count.others # 0 =>
                 \E last \in Everything(m) : first <= last /\ last < end
<1> DEFINE range == first..(end - 1)
           displayed == Lines(m) \cap range
           matching == m.matches \cap range
           count == CountIn(m, first, end)
<1>1. Lines(m) \subseteq Everything(m) /\ m.matches \subseteq Everything(m)
  BY DEF DisplayInv, Shown, Everything
<1>2. IsFiniteSet(range)
  BY FS_Interval
<1>3. displayed \in SUBSET range /\ matching \in SUBSET range
  OBVIOUS
<1>4. MatchesShown(m) => matching \in SUBSET displayed
  BY DEF DisplayInv, Shown
<1>5. count = IF MatchesShown(m)
              THEN [matches |-> Cardinality(matching), others |-> Cardinality(displayed) - Cardinality(matching)]
              ELSE [matches |-> Cardinality(displayed \cap m.matches), others |-> Cardinality(displayed \ m.matches)]
  BY DEF CountIn
<1>6. /\ displayed \cap m.matches \in SUBSET displayed /\ displayed \ m.matches \in SUBSET displayed
      /\ displayed \in SUBSET displayed
  OBVIOUS
<1>7. ASSUME NEW l \in displayed \cup matching
      PROVE  \E last \in Everything(m) : first <= last /\ last < end
  BY <1>1
<1> HIDE DEF range, displayed, matching, count
<1>8. IsFiniteSet(displayed) /\ IsFiniteSet(matching)
  BY <1>2, <1>3, FS_Subset
<1>9. /\ \A T \in SUBSET displayed : /\ Cardinality(T) \in Nat /\ Cardinality(T) <= Cardinality(displayed)
                                     /\ Cardinality(T) # 0 => T # {}
      /\ Cardinality(matching) \in Nat /\ (Cardinality(matching) # 0 => matching # {})
      /\ Cardinality(displayed) \in Nat
  <2>1. \A T \in SUBSET displayed : IsFiniteSet(T) /\ Cardinality(T) <= Cardinality(displayed)
    BY <1>8, FS_Subset
  <2>2. \A T : IsFiniteSet(T) => Cardinality(T) \in Nat /\ (Cardinality(T) # 0 => T # {})
    BY FS_CardinalityType, FS_EmptySet
  <2> QED
    BY <1>8, <2>1, <2>2
<1>10. CASE MatchesShown(m)
  <2>1. count.matches = Cardinality(matching) /\ count.others = Cardinality(displayed) - Cardinality(matching)
    BY <1>5, <1>10
  <2>2. Cardinality(matching) <= Cardinality(displayed)
    BY <1>4, <1>9, <1>10
  <2>3. count.matches \in Nat /\ count.others \in Nat
    BY <1>9, <2>1, <2>2
  <2>4. count.matches # 0 \/ count.others # 0 => matching # {} \/ displayed # {}
    BY <1>6, <1>9, <2>1, <2>2
  <2> QED
    BY <1>7, <2>3, <2>4 DEF count
<1>11. CASE ~MatchesShown(m)
  <2>1. /\ count.matches = Cardinality(displayed \cap m.matches)
        /\ count.others = Cardinality(displayed \ m.matches)
    BY <1>5, <1>11
  <2>2. count.matches \in Nat /\ count.others \in Nat
    BY <1>6, <1>9, <2>1
  <2>3. count.matches # 0 \/ count.others # 0 => displayed # {}
    BY <1>6, <1>9, <2>1
  <2> QED
    BY <1>7, <2>2, <2>3 DEF count
<1> QED
  BY <1>10, <1>11

\* A row that counts something is of a Log Line displayed in it or after it
\* begins.
LEMMA RowFacts ==
    ASSUME NEW m, DisplayInv(m), NEW lines \in Nat, NEW height \in Nat \ {0}, NEW row \in Nat
    PROVE  /\ RowAt(m, lines, height, row) \in RowType
           /\ RowAt(m, lines, height, row) # Blank =>
                 \E last \in Everything(m) : FirstAt(lines, height, row) <= last
           /\ lines = 0 => RowAt(m, lines, height, row) = Blank
<1> DEFINE first == FirstAt(lines, height, row)
           end == FirstAt(lines, height, row + 1)
           count == CountIn(m, first, end)
<1>1. first \in Nat /\ end \in Nat
  BY FirstMonotone
<1>2. lines = 0 => end = 0
  <2>1. (row + 1) * 0 = 0 /\ (height - 1) \div height = 0
    OBVIOUS
  <2> QED
    BY <2>1 DEF FirstAt
<1>3. RowAt(m, lines, height, row) = [matches |-> Weight(count.matches), others |-> Weight(count.others)]
  BY DEF RowAt
<1> HIDE DEF first, end
<1>4. /\ count.matches \in Nat /\ count.others \in Nat
      /\ count.matches # 0 \/ count.others # 0 =>
            \E last \in Everything(m) : first <= last /\ last < end
  BY <1>1, CountFacts
<1> HIDE DEF count
<1>5. \A n \in Nat : Weight(n) \in 0..WeightSteps /\ (n = 0 => Weight(n) = 0)
  BY OverviewAssumption DEF Weight, Least
<1>6. Everything(m) \subseteq Nat
  BY DisplayedLinesAssumption DEF Everything, DisplayInv, Members, LogLines
<1>7. lines = 0 => count.matches = 0 /\ count.others = 0
  BY <1>2, <1>4, <1>6
<1> QED
  BY <1>3, <1>4, <1>5, <1>7 DEF RowType, Blank, first

\* A row before what was added counts as it did.
LEMMA RowKept ==
    ASSUME NEW m, NEW n, DisplayInv(m), DisplayInv(n), n.shown = m.shown, KeptBefore(m, n),
           NEW lines \in Nat, NEW height \in Nat \ {0}, NEW row \in Nat, NEW later \in Nat, row < later,
           NEW last \in Everything(m), FirstAt(lines, height, later) <= last
    PROVE  RowAt(n, lines, height, row) = RowAt(m, lines, height, row)
<1> DEFINE first == FirstAt(lines, height, row)
           end == FirstAt(lines, height, row + 1)
           range == first..(end - 1)
<1>1. first \in Nat /\ end \in Nat /\ end <= last /\ last \in Nat
  <2>1. last \in Nat
    BY DisplayedLinesAssumption DEF Everything, DisplayInv, Members, LogLines
  <2>2. first \in Nat /\ end \in Nat /\ end <= FirstAt(lines, height, later) /\ FirstAt(lines, height, later) \in Nat
    BY FirstMonotone
  <2> QED
    BY <2>1, <2>2
<1> HIDE DEF first, end
<1>2. ASSUME NEW l \in range
      PROVE  (l \in m.matches <=> l \in n.matches) /\ (l \in Lines(m) <=> l \in Lines(n))
  <2>1. CASE l \in LogLines
    <3>1. l <= last
      BY <1>1
    <3>2. LineType(m, l) = LineType(n, l) /\ (l \in Lines(m) <=> l \in Lines(n))
      BY <2>1, <3>1 DEF KeptBefore
    <3>3. ("Match" \in LineType(m, l) <=> l \in m.matches) /\ ("Match" \in LineType(n, l) <=> l \in n.matches)
      BY DEF LineType
    <3> QED
      BY <3>2, <3>3
  <2>2. CASE l \notin LogLines
    <3>1. m.matches \subseteq LogLines /\ n.matches \subseteq LogLines
      BY DEF DisplayInv, Members
    <3>2. Lines(m) \subseteq LogLines /\ Lines(n) \subseteq LogLines
      BY ShownType DEF DisplayInv
    <3> QED
      BY <2>2, <3>1, <3>2
  <2> QED
    BY <2>1, <2>2
<1>3. /\ m.matches \cap range = n.matches \cap range /\ Lines(m) \cap range = Lines(n) \cap range
      /\ (Lines(m) \cap range) \cap m.matches = (Lines(n) \cap range) \cap n.matches
      /\ (Lines(m) \cap range) \ m.matches = (Lines(n) \cap range) \ n.matches
  <2> HIDE DEF range
  <2> QED
    BY <1>2
<1>4. MatchesShown(m) <=> MatchesShown(n)
  BY DEF MatchesShown
<1>5. CountIn(m, first, end) = CountIn(n, first, end)
  BY <1>3, <1>4 DEF CountIn
<1> QED
  BY <1>5 DEF RowAt, first, end

-----------------------------------------------------------------------------
(* The Overview.                                                           *)

Computed == [linesInFile : 0..MaxLines, height : Heights]
OverviewMembers ==
    /\ overview \in [linesInFile : 0..MaxLines, height : {0} \cup Heights, dirty : BOOLEAN,
                     computed : {NotComputed} \cup Computed,
                     rows : {NoRows} \cup UNION {[0..(height - 1) -> RowType] : height \in Heights}]
    /\ overview.computed = NotComputed => overview.rows = NoRows
    /\ overview.computed # NotComputed => overview.rows \in [0..(overview.computed.height - 1) -> RowType]

\* Rows that may be kept are right, and what comes last in the last row drawn
\* is displayed still: what was added since is after all of the rows before it.
RowsKept ==
    overview.computed # NotComputed /\ ~d.rewritten =>
        LET lines == overview.computed.linesInFile
            height == overview.computed.height
        IN  /\ \A row \in DOMAIN overview.rows :
                   row < LastRow(overview) => overview.rows[row] = RowAt(d, lines, height, row)
            /\ LastRow(overview) > 0 =>
                   \E last \in Everything(d) : FirstAt(lines, height, LastRow(overview)) <= last

OverviewInv == DisplayedInv /\ OverviewMembers /\ RowsKept

\* The last row drawn is one that is drawn, if it is not the first.
LEMMA LastRowIn ==
    ASSUME NEW o, NEW height \in Nat, o.rows \in [0..(height - 1) -> RowType] \/ o.rows = NoRows
    PROVE  /\ LastRow(o) \in Nat
           /\ LastRow(o) # 0 => LastRow(o) \in DOMAIN o.rows /\ o.rows[LastRow(o)] # Blank
<1> DEFINE rows == {0} \cup Drawn(o)
<1>1. DOMAIN o.rows \subseteq Nat /\ \A row \in DOMAIN o.rows : row <= height
  <2>1. CASE o.rows = NoRows
    BY <2>1 DEF NoRows
  <2>2. CASE o.rows \in [0..(height - 1) -> RowType]
    BY <2>2
  <2> QED
    BY <2>1, <2>2
<1>2. rows \in SUBSET Nat /\ rows # {} /\ \A row \in rows : row <= height
  BY <1>1 DEF Drawn
<1> HIDE DEF rows
<1>3. Max(rows) \in rows
  BY <1>2, MaxIn
<1> QED
  BY <1>2, <1>3 DEF LastRow, rows, Drawn

\* Counting does what it says: it counts every row, or keeps those before the
\* last one drawn.
LEMMA RecalculatedFields ==
    ASSUME OverviewInv, NEW height \in Heights
    PROVE  LET n == Recalculated([overview EXCEPT !.height = height])
               lines == overview.linesInFile IN
           /\ n \in [linesInFile : 0..MaxLines, height : {0} \cup Heights, dirty : BOOLEAN,
                     computed : {NotComputed} \cup Computed,
                     rows : {NoRows} \cup UNION {[0..(h - 1) -> RowType] : h \in Heights}]
           /\ n.linesInFile = lines /\ n.height = height /\ n.dirty = FALSE
           /\ n.computed = [linesInFile |-> lines, height |-> height] /\ n.computed # NotComputed
           /\ n.rows \in [0..(height - 1) -> RowType]
           /\ \A row \in 0..(height - 1) : n.rows[row] = RowAt(d, lines, height, row)
<1> DEFINE o == [overview EXCEPT !.height = height]
           lines == overview.linesInFile
           n == Recalculated(o)
           onlyAppended == o.computed = [linesInFile |-> o.linesInFile, height |-> o.height] /\ ~d.rewritten
           from == FirstRow(o, onlyAppended)
           rows == [row \in 0..(height - 1) |-> RowAt(d, lines, height, row)]
           counted == [row \in 0..(height - 1) |->
                         IF o.linesInFile > 0 /\ row >= from THEN RowCount(o, row)
                         ELSE IF onlyAppended /\ row < from THEN o.rows[row] ELSE Blank]
<1>h. height \in Nat \ {0} /\ lines \in Nat /\ lines \in 0..MaxLines
  BY OverviewAssumption, DisplayedLinesAssumption DEF OverviewInv, OverviewMembers
<1>1. /\ o.linesInFile = lines /\ o.height = height /\ o.rows = overview.rows
      /\ o.computed = overview.computed
      /\ o \in [linesInFile : 0..MaxLines, height : {0} \cup Heights, dirty : BOOLEAN,
                computed : {NotComputed} \cup Computed,
                rows : {NoRows} \cup UNION {[0..(h - 1) -> RowType] : h \in Heights}]
  BY DEF OverviewInv, OverviewMembers
<1> HIDE DEF o
<1>2. DisplayInv(d)
  BY DEF OverviewInv, DisplayedInv
<1>3. ASSUME NEW row \in 0..(height - 1)
      PROVE  /\ RowCount(o, row) = RowAt(d, lines, height, row)
             /\ RowAt(d, lines, height, row) \in RowType
             /\ lines = 0 => RowAt(d, lines, height, row) = Blank
  <2>1. /\ FirstLineOfRow(o, row) = FirstAt(lines, height, row)
        /\ FirstLineOfRow(o, row + 1) = FirstAt(lines, height, row + 1)
    BY <1>1 DEF FirstLineOfRow, FirstAt
  <2>2. RowCount(o, row) = RowAt(d, lines, height, row)
    BY <2>1 DEF RowCount, RowAt
  <2>3. row \in Nat
    BY <1>h
  <2> QED
    BY <1>2, <1>h, <2>2, <2>3, RowFacts
<1>4. rows \in [0..(height - 1) -> RowType]
  BY <1>3
<1>5. ASSUME onlyAppended
      PROVE  \A row \in 0..(height - 1) : row < LastRow(o) => o.rows[row] = RowAt(d, lines, height, row)
  <2>1. /\ overview.computed = [linesInFile |-> lines, height |-> height] /\ ~d.rewritten
    BY <1>1, <1>5
  <2>2. overview.computed # NotComputed
    BY <2>1, <1>h DEF NotComputed
  <2>3. overview.computed.linesInFile = lines /\ overview.computed.height = height
    BY <2>1
  <2>4. overview.rows \in [0..(height - 1) -> RowType]
    BY <2>2, <2>3 DEF OverviewInv, OverviewMembers
  <2>5. LastRow(o) = LastRow(overview)
    BY <1>1 DEF LastRow, Drawn
  <2>6. \A row \in DOMAIN overview.rows : row < LastRow(overview) => overview.rows[row] = RowAt(d, lines, height, row)
    BY <2>1, <2>2, <2>3 DEF OverviewInv, RowsKept
  <2> QED
    BY <1>1, <2>4, <2>5, <2>6
<1>6. counted = rows
  <2>1. from \in Nat /\ (from # 0 => onlyAppended /\ from = LastRow(o))
    <3>1. LastRow(o) \in Nat
      <4>1. PICK h \in Nat : o.rows \in [0..(h - 1) -> RowType] \/ o.rows = NoRows
        BY <1>1, <1>h, OverviewAssumption
      <4> QED
        BY <4>1, LastRowIn
    <3> HIDE DEF onlyAppended
    <3> QED
      BY <3>1 DEF FirstRow
  <2> HIDE DEF onlyAppended, from
  <2>2. ASSUME NEW row \in 0..(height - 1)
        PROVE  (IF o.linesInFile > 0 /\ row >= from THEN RowCount(o, row)
                ELSE IF onlyAppended /\ row < from THEN o.rows[row] ELSE Blank) = RowAt(d, lines, height, row)
    <3>1. CASE row < from
      <4>1. onlyAppended /\ row < LastRow(o) /\ ~(row >= from)
        BY <2>1, <3>1
      <4> QED
        BY <1>5, <3>1, <4>1
    <3>2. CASE ~(row < from)
      <4>1. row >= from
        BY <2>1, <3>2
      <4>2. CASE lines = 0
        BY <1>1, <1>3, <3>2, <4>2
      <4>3. CASE lines # 0
        BY <1>1, <1>3, <1>h, <4>1, <4>3
      <4> QED
        BY <4>2, <4>3
    <3> QED
      BY <3>1, <3>2
  <2> QED
    BY <2>2
<1>7. n = [o EXCEPT !.rows = counted, !.computed = [linesInFile |-> o.linesInFile, height |-> o.height],
                    !.dirty = FALSE]
  BY <1>1 DEF Recalculated
<1> HIDE DEF counted
<1>8. n = [o EXCEPT !.rows = rows, !.computed = [linesInFile |-> lines, height |-> height], !.dirty = FALSE]
  BY <1>1, <1>6, <1>7
<1>9. [linesInFile |-> lines, height |-> height] \in Computed
  BY <1>h DEF Computed
<1>10. rows \in {NoRows} \cup UNION {[0..(h - 1) -> RowType] : h \in Heights}
  BY <1>4
<1> DEFINE key == [linesInFile |-> lines, height |-> height]
<1>11. key # NotComputed
  BY <1>h DEF NotComputed
<1> HIDE DEF n, rows, lines, key
<1>12. n = [o EXCEPT !.rows = rows, !.computed = key, !.dirty = FALSE] /\ key \in Computed
  BY <1>8, <1>9 DEF key
<1>13. /\ n \in [linesInFile : 0..MaxLines, height : {0} \cup Heights, dirty : BOOLEAN,
                 computed : {NotComputed} \cup Computed,
                 rows : {NoRows} \cup UNION {[0..(h - 1) -> RowType] : h \in Heights}]
       /\ n.linesInFile = o.linesInFile /\ n.height = o.height /\ n.dirty = FALSE
       /\ n.computed = key /\ n.rows = rows
  BY <1>1, <1>10, <1>12
<1>14. \A row \in 0..(height - 1) : n.rows[row] = RowAt(d, lines, height, row)
  BY <1>13 DEF rows
<1> QED
  BY <1>1, <1>4, <1>11, <1>13, <1>14 DEF n, lines, key, o

\* computeOverview(), which is asked for by updateView().
LEMMA UpdateViewStep ==
    ASSUME OverviewInv, UpdateView
    PROVE  /\ OverviewInv'
           /\ \A row \in DOMAIN overview'.rows : overview'.rows[row] = RowCount(overview, row)'
<1>1. PICK height \in Heights : overview' = Recalculated([overview EXCEPT !.height = height])
  BY DEF UpdateView
<1>2. PICK n : n = Recalculated([overview EXCEPT !.height = height])
  OBVIOUS
<1>3. PICK lines : lines = overview.linesInFile
  OBVIOUS
<1>4. /\ n \in [linesInFile : 0..MaxLines, height : {0} \cup Heights, dirty : BOOLEAN,
                computed : {NotComputed} \cup Computed,
                rows : {NoRows} \cup UNION {[0..(h - 1) -> RowType] : h \in Heights}]
      /\ n.linesInFile = lines /\ n.height = height /\ n.dirty = FALSE
      /\ n.computed = [linesInFile |-> lines, height |-> height] /\ n.computed # NotComputed
      /\ n.rows \in [0..(height - 1) -> RowType]
      /\ \A row \in 0..(height - 1) : n.rows[row] = RowAt(d, lines, height, row)
  BY <1>2, <1>3, RecalculatedFields, ZenonT(60)
<1>h. height \in Nat \ {0} /\ lines \in Nat
  BY <1>3, OverviewAssumption, DisplayedLinesAssumption DEF OverviewInv, OverviewMembers
<1>5. overview' = n
  BY <1>1, <1>2
<1>6. /\ DisplayedInv' /\ d'.shown = d.shown /\ d'.matches = d.matches /\ Lines(d') = Lines(d)
      /\ DisplayInv(d) /\ DisplayInv(d')
  BY ReadStep DEF OverviewInv, DisplayedInv
<1>7. ASSUME NEW first, NEW end
      PROVE  CountIn(d', first, end) = CountIn(d, first, end)
  BY <1>6 DEF CountIn, MatchesShown
<1>8. \A row : RowAt(d', lines, height, row) = RowAt(d, lines, height, row)
  BY <1>7 DEF RowAt
<1>9. ASSUME NEW row \in 0..(height - 1)
      PROVE  n.rows[row] = RowAt(d', lines, height, row) /\ RowAt(d', lines, height, row) \in RowType
  <2>1. n.rows[row] = RowAt(d, lines, height, row)
    BY <1>4
  <2>2. row \in Nat
    BY <1>h
  <2> QED
    BY <1>6, <1>8, <1>h, <2>1, <2>2, RowFacts
<1>10. DOMAIN n.rows = 0..(height - 1) /\ n.rows \in [0..(height - 1) -> RowType]
  BY <1>4
<1>11. n.computed.linesInFile = lines /\ n.computed.height = height
  BY <1>4
<1>12. OverviewMembers'
  BY <1>4, <1>5, <1>10, <1>11 DEF OverviewMembers
<1>13. /\ LastRow(n) \in Nat
       /\ LastRow(n) # 0 => LastRow(n) \in DOMAIN n.rows /\ n.rows[LastRow(n)] # Blank
  BY <1>10, <1>h, LastRowIn
<1>14. LastRow(n) > 0 => \E last \in Everything(d') : FirstAt(lines, height, LastRow(n)) <= last
  <2>1. PICK row : row = LastRow(n)
    OBVIOUS
  <2>2. ASSUME row > 0
        PROVE  \E last \in Everything(d') : FirstAt(lines, height, row) <= last
    <3>1. row \in 0..(height - 1) /\ n.rows[row] # Blank /\ row \in Nat
      BY <1>10, <1>13, <2>1, <2>2
    <3>2. RowAt(d', lines, height, row) # Blank
      BY <1>9, <3>1
    <3> QED
      BY <1>6, <1>h, <3>1, <3>2, RowFacts
  <2> QED
    BY <2>1, <2>2
<1>15. RowsKept'
  <2>1. \A row \in DOMAIN n.rows : n.rows[row] = RowAt(d', lines, height, row)
    BY <1>9, <1>10
  <2> QED
    BY <1>5, <1>11, <1>14, <2>1 DEF RowsKept
<1>16. ASSUME NEW row \in DOMAIN overview'.rows
       PROVE  overview'.rows[row] = RowCount(overview, row)'
  <2>1. /\ FirstLineOfRow(n, row) = FirstAt(lines, height, row)
        /\ FirstLineOfRow(n, row + 1) = FirstAt(lines, height, row + 1)
    BY <1>4 DEF FirstLineOfRow, FirstAt
  <2>2. RowCount(overview, row)' = RowAt(d', lines, height, row)
    BY <1>5, <2>1 DEF RowCount, RowAt
  <2>3. row \in 0..(height - 1)
    BY <1>5, <1>10
  <2> QED
    BY <1>5, <1>9, <2>2, <2>3
<1> QED
  BY <1>6, <1>12, <1>15, <1>16 DEF OverviewInv

\* A step of the Displayed Lines keeps the rows that may be kept.
LEMMA DisplayedKeepsRows ==
    ASSUME OverviewInv, DisplayedNext, UNCHANGED overview
    PROVE  OverviewInv'
<1>1. DisplayedInv' /\ Tells(d, d') /\ DisplayInv(d) /\ DisplayInv(d')
  BY DisplayedStep DEF OverviewInv, DisplayedInv
<1>2. OverviewMembers'
  BY DEF OverviewInv, OverviewMembers
<1>3. ASSUME overview.computed # NotComputed, ~d'.rewritten,
             NEW lines, lines = overview.computed.linesInFile,
             NEW height, height = overview.computed.height
      PROVE  /\ \A row \in DOMAIN overview.rows :
                   row < LastRow(overview) => overview.rows[row] = RowAt(d', lines, height, row)
             /\ LastRow(overview) > 0 =>
                   \E last \in Everything(d') : FirstAt(lines, height, LastRow(overview)) <= last
  <2>1. lines \in Nat /\ height \in Nat \ {0} /\ overview.rows \in [0..(height - 1) -> RowType]
    <3>1. overview.computed \in Computed /\ overview.rows \in [0..(height - 1) -> RowType]
      BY <1>3 DEF OverviewInv, OverviewMembers
    <3>2. overview.computed.linesInFile \in 0..MaxLines /\ overview.computed.height \in Heights
      BY <3>1 DEF Computed
    <3>3. lines \in 0..MaxLines /\ height \in Heights
      BY <1>3, <3>2
    <3>4. lines \in Nat
      BY <3>3, DisplayedLinesAssumption
    <3>5. height \in Nat \ {0}
      BY <3>3, OverviewAssumption
    <3> QED
      BY <1>3, <3>1, <3>4, <3>5
  <2>2. ~d.rewritten /\ d'.shown = d.shown /\ KeptBefore(d, d')
    BY <1>1, <1>3 DEF Tells
  <2>3. PICK later : later = LastRow(overview)
    OBVIOUS
  <2>4. later \in Nat
    BY <2>1, <2>3, LastRowIn
  <2>5. /\ \A row \in DOMAIN overview.rows : row < later => overview.rows[row] = RowAt(d, lines, height, row)
        /\ later > 0 => \E last \in Everything(d) : FirstAt(lines, height, later) <= last
    BY <1>3, <2>2, <2>3 DEF OverviewInv, RowsKept
  <2>6. ASSUME later > 0
        PROVE  \E last \in Everything(d) : FirstAt(lines, height, later) <= last /\ last \in Everything(d')
    <3>1. PICK last \in Everything(d) : FirstAt(lines, height, later) <= last
      BY <2>5, <2>6
    <3>2. last \in LogLines /\ last <= last
      BY <1>1, DisplayedLinesAssumption DEF Everything, DisplayInv, Members, LogLines
    <3>3. LineType(d, last) = LineType(d', last)
      BY <2>2, <3>1, <3>2 DEF KeptBefore
    <3>4. \A m : /\ "Match" \in LineType(m, last) <=> last \in m.matches
                 /\ "Mark" \in LineType(m, last) <=> last \in m.marks
                 /\ "Context" \in LineType(m, last) <=> last \in m.contextLines \ (m.matches \cup m.marks)
      BY DEF LineType
    <3>5. last \in Everything(d')
      BY <3>1, <3>3, <3>4 DEF Everything
    <3> QED
      BY <3>1, <3>5
  <2>7. ASSUME NEW row \in DOMAIN overview.rows, row < later
        PROVE  overview.rows[row] = RowAt(d', lines, height, row)
    <3>1. row \in Nat /\ later > 0
      BY <2>1, <2>4, <2>7
    <3>2. PICK last \in Everything(d) : FirstAt(lines, height, later) <= last
      BY <2>5, <3>1
    <3>3. RowAt(d', lines, height, row) = RowAt(d, lines, height, row)
      <4>1. PICK n : n = d'
        OBVIOUS
      <4>2. RowAt(n, lines, height, row) = RowAt(d, lines, height, row)
        BY <1>1, <2>1, <2>2, <2>4, <2>7, <3>1, <3>2, <4>1, RowKept
      <4> QED
        BY <4>1, <4>2
    <3> QED
      BY <2>5, <2>7, <3>3
  <2> QED
    BY <2>3, <2>6, <2>7
<1>4. RowsKept'
  <2>1. LastRow(overview)' = LastRow(overview) /\ (overview.computed = NotComputed <=> overview'.computed = NotComputed)
    BY DEF LastRow, Drawn
  <2> QED
    BY <1>3, <2>1 DEF RowsKept
<1> QED
  BY <1>1, <1>2, <1>4 DEF OverviewInv

\* setFilteredData() and updateData().
LEMMA AskedStep ==
    ASSUME OverviewInv, SetFilteredData \/ UpdateData
    PROVE  OverviewInv' /\ overview'.dirty = TRUE /\ d' = d
<1>1. d' = d /\ nbLogLines' = nbLogLines
  BY DEF SetFilteredData, UpdateData
<1>2. DisplayedInv'
  BY <1>1 DEF OverviewInv, DisplayedInv
<1>3. CASE SetFilteredData
  <2>1. /\ overview' \in [linesInFile : 0..MaxLines, height : {0} \cup Heights, dirty : BOOLEAN,
                          computed : {NotComputed} \cup Computed,
                          rows : {NoRows} \cup UNION {[0..(height - 1) -> RowType] : height \in Heights}]
        /\ overview'.computed = NotComputed /\ overview'.rows = NoRows /\ overview'.dirty = TRUE
    BY <1>3 DEF SetFilteredData, OverviewInv, OverviewMembers
  <2> QED
    BY <1>1, <1>2, <2>1 DEF OverviewInv, OverviewMembers, RowsKept
<1>4. CASE UpdateData
  <2>1. nbLogLines \in 0..MaxLines
    BY DEF OverviewInv, DisplayedInv
  <2>2. /\ overview' \in [linesInFile : 0..MaxLines, height : {0} \cup Heights, dirty : BOOLEAN,
                          computed : {NotComputed} \cup Computed,
                          rows : {NoRows} \cup UNION {[0..(height - 1) -> RowType] : height \in Heights}]
        /\ overview'.computed = overview.computed /\ overview'.rows = overview.rows /\ overview'.dirty = TRUE
    BY <1>4, <2>1 DEF UpdateData, OverviewInv, OverviewMembers
  <2>3. OverviewMembers'
    BY <2>2 DEF OverviewInv, OverviewMembers
  <2>4. LastRow(overview)' = LastRow(overview)
    BY <2>2 DEF LastRow, Drawn
  <2>5. RowsKept'
    BY <1>1, <2>2, <2>4 DEF OverviewInv, RowsKept
  <2> QED
    BY <1>2, <2>2, <2>3, <2>5, <1>1 DEF OverviewInv
<1> QED
  BY <1>3, <1>4

\* Every step keeps the invariant.
LEMMA OverviewNext ==
    ASSUME OverviewInv, [Next]_vars
    PROVE  OverviewInv'
<1>1. CASE UNCHANGED vars
  BY <1>1 DEF vars, OverviewInv, DisplayedInv, OverviewMembers, RowsKept, LastRow, Drawn
<1>2. CASE Next
  <2>1. \/ DisplayedNext /\ UNCHANGED overview
        \/ SetFilteredData \/ UpdateData \/ UpdateView
    BY <1>2 DEF Next, DisplayedNext
  <2> QED
    BY <2>1, DisplayedKeepsRows, AskedStep, UpdateViewStep
<1> QED
  BY <1>1, <1>2

LEMMA OverviewStart ==
    ASSUME OverviewInit
    PROVE  OverviewInv
<1>1. DisplayedInv
  BY DisplayedInit DEF OverviewInit
<1>2. overview = [linesInFile |-> 0, height |-> 0, dirty |-> TRUE, computed |-> NotComputed, rows |-> NoRows]
  BY DEF OverviewInit
<1>3. OverviewMembers /\ RowsKept
  BY <1>2, DisplayedLinesAssumption DEF OverviewMembers, RowsKept
<1> QED
  BY <1>1, <1>3 DEF OverviewInv

-----------------------------------------------------------------------------
(* What is proved.                                                         *)

\* The Displayed Lines and the Overview keep the invariant: what is displayed
\* is what is shown, the Context Lines held are those owed, and the rows that
\* may be kept are right.
THEOREM OverviewInvariant == Spec => []OverviewInv
  BY OverviewStart, OverviewNext, PTL DEF Spec

\* The members of both are what their types say.
THEOREM TypeCorrect == Spec => []OverviewTypeOK
<1>1. ASSUME OverviewInv
      PROVE  OverviewTypeOK
  <2>1. TypeOK /\ overview.linesInFile \in 0..MaxLines /\ overview.height \in {0} \cup Heights
    BY <1>1 DEF OverviewInv, DisplayedInv, DisplayInv, TypeOK, OverviewMembers
  <2>2. CASE overview.computed = NotComputed
    <3>1. overview.rows = <<>>
      BY <1>1, <2>2 DEF OverviewInv, OverviewMembers, NoRows
    <3>2. DOMAIN overview.rows = {}
      BY <3>1
    <3> QED
      BY <2>1, <2>2, <3>2 DEF OverviewTypeOK
  <2>3. CASE overview.computed # NotComputed
    <3>1. overview.rows \in [0..(overview.computed.height - 1) -> RowType]
      BY <1>1, <2>3 DEF OverviewInv, OverviewMembers
    <3> QED
      BY <2>1, <3>1 DEF OverviewTypeOK, RowType
  <2> QED
    BY <2>2, <2>3
<1> QED
  BY <1>1, OverviewInvariant, PTL

\* Whatever changed, and however little of the lines was computed again for
\* it, the lines displayed are those of the kinds shown.
THEOREM DisplayedAreShownHolds == Spec => []DisplayedAreShown
<1>1. OverviewInv => DisplayedAreShown
  BY DEF OverviewInv, DisplayedInv, DisplayInv, DisplayedAreShown
<1> QED
  BY <1>1, OverviewInvariant, PTL

\* The Context Lines, while kept up to date, are what the Matches and Marks
\* reach, those of the Matches still waiting left out.
THEOREM ContextLinesExactHolds == Spec => []ContextLinesExact
<1>1. OverviewInv => ContextLinesExact
  BY DEF OverviewInv, DisplayedInv, DisplayInv, ContextInv, Covers, Reaching, ContextLinesExact,
         ContextLinesAround
<1> QED
  BY <1>1, OverviewInvariant, PTL

\* A step that tells no rewrite leaves every Log Line before the last one
\* displayed, marked or around as it was.
THEOREM RewritesToldHolds == Spec => RewritesTold
<1>1. ASSUME OverviewInv, [Next]_vars
      PROVE  [~d'.rewritten =>
                 \A line \in {l \in LogLines : \E last \in Everything(d) : l <= last} :
                     LineType(d, line) = LineType(d', line) /\ (line \in Lines(d) <=> line \in Lines(d'))]_vars
  <2>1. CASE UNCHANGED vars
    BY <2>1
  <2>2. CASE Next
    <3>1. CASE DisplayedNext
      BY <1>1, <3>1, DisplayedStep DEF OverviewInv, Tells, KeptBefore
    <3>2. CASE SetFilteredData \/ UpdateData
      BY <1>1, <3>2, AskedStep
    <3>3. CASE UpdateView
      BY <1>1, <3>3, ReadStep DEF OverviewInv, KeptBefore
    <3> QED
      BY <2>2, <3>1, <3>2, <3>3 DEF Next, DisplayedNext
  <2> QED
    BY <1>1, <2>1, <2>2
<1> QED
  BY <1>1, OverviewInvariant, PTL DEF Spec, RewritesTold

\* Every row of an Overview just computed counts all the Log Lines displayed
\* in it, though those before the last row drawn were kept from before.
THEOREM OverviewExactHolds == Spec => OverviewExact
<1>1. ASSUME OverviewInv, [Next]_vars
      PROVE  [(overview' # overview /\ ~overview'.dirty) =>
                 (\A row \in DOMAIN overview.rows' : overview.rows'[row] = RowCount(overview, row)')]_vars
  <2>1. CASE UNCHANGED vars
    BY <2>1
  <2>2. CASE Next
    <3>1. CASE UNCHANGED overview
      BY <3>1
    <3>2. CASE SetFilteredData \/ UpdateData
      BY <1>1, <3>2, AskedStep
    <3>3. CASE UpdateView
      BY <1>1, <3>3, UpdateViewStep
    <3> QED
      BY <2>2, <3>1, <3>2, <3>3 DEF Next
  <2> QED
    BY <1>1, <2>1, <2>2
<1> QED
  BY <1>1, OverviewInvariant, PTL DEF Spec, OverviewExact

==============================================================================
