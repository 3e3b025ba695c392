------------------------ MODULE DisplayedLines_proofs ------------------------
(***************************************************************************)
(* Lemmas about the operators of DisplayedLines: what each of them does to *)
(* the members, that what is displayed anew is what may have changed, and  *)
(* that bringing the Context Lines up to date gives what building them     *)
(* again would.                                                            *)
(***************************************************************************)
EXTENDS DisplayedLines, TLAPS

\* Only the lines displayed differ.
Same(m, n) ==
    /\ n.matches = m.matches /\ n.marks = m.marks /\ n.contextLines = m.contextLines
    /\ n.shown = m.shown /\ n.contextLinesCount = m.contextLinesCount
    /\ n.matchesWithoutContextLines = m.matchesWithoutContextLines
    /\ n.contextLinesUpToDate = m.contextLinesUpToDate /\ n.contextLinesEnd = m.contextLinesEnd
    /\ n.rewritten = m.rewritten

\* n displays what m does, and differs from it at changed only.
Differs(m, n, changed) ==
    /\ n.source = m.source /\ n.combinedLines = m.combinedLines /\ n.shown = m.shown
    /\ n.matches \ changed = m.matches \ changed
    /\ n.marks \ changed = m.marks \ changed
    /\ n.contextLines \ changed = m.contextLines \ changed

Reaching(m) == m.matches \cup m.marks

-----------------------------------------------------------------------------
(* What is displayed.                                                      *)

\* Members that differ only in the lines displayed show the same.
LEMMA ShownSame ==
    ASSUME NEW m, NEW n, Same(m, n)
    PROVE  Shown(n) = Shown(m)
  BY DEF Same, Shown, MatchesShown, MarksShown

\* What is shown is of the Log File.
LEMMA ShownType ==
    ASSUME NEW m \in Members
    PROVE  Shown(m) \subseteq LogLines
  BY DEF Members, Shown

\* refreshLines()
LEMMA RefreshFields ==
    ASSUME NEW m \in Members
    PROVE  /\ RefreshLines(m) \in Members /\ Same(m, RefreshLines(m))
           /\ Lines(RefreshLines(m)) = Shown(m)
<1>1. PickSource(m) \in {"Matches", "Marks", "Combined"}
  BY DEF PickSource
<1> DEFINE combined == IF PickSource(m) = "Combined" THEN Shown(m) ELSE {}
<1>2. combined \in SUBSET LogLines
  BY ShownType
<1>3. RefreshLines(m) = [m EXCEPT !.source = PickSource(m), !.combinedLines = combined]
  BY DEF RefreshLines
<1> HIDE DEF combined
<1>4. /\ RefreshLines(m) \in Members /\ Same(m, RefreshLines(m))
      /\ RefreshLines(m).source = PickSource(m) /\ RefreshLines(m).combinedLines = combined
  BY ONLY <1>1, <1>2, <1>3, m \in Members DEF Members, Same
<1>5. CASE PickSource(m) = "Combined"
  BY <1>4, <1>5 DEF Lines, combined
<1>6. CASE PickSource(m) = "Matches"
  <2>1. Shown(m) = m.matches
    BY <1>6 DEF PickSource, Shown, MatchesShown, MarksShown
  <2> QED
    BY <1>4, <1>6, <2>1 DEF Lines, Same
<1>7. CASE PickSource(m) = "Marks"
  <2>1. Shown(m) = m.marks
    BY <1>7 DEF PickSource, Shown, MatchesShown, MarksShown
  <2> QED
    BY <1>4, <1>7, <2>1 DEF Lines, Same
<1> QED
  BY <1>1, <1>4, <1>5, <1>6, <1>7

\* The lines displayed are those shown, but for some.
DisplayedBut(m, but) == m.source = "Combined" => m.combinedLines \ but = Shown(m) \ but

\* They are those shown but for where the members differ, too.
LEMMA DiffersDisplay ==
    ASSUME NEW m, NEW n, NEW but, NEW changed, DisplayedBut(m, but), Differs(m, n, changed)
    PROVE  DisplayedBut(n, but \cup changed)
<1>1. Shown(n) \ changed = Shown(m) \ changed
  BY DEF Differs, Shown, MatchesShown, MarksShown
<1> QED
  BY <1>1 DEF DisplayedBut, Differs

\* refreshLinesAt(): what it is told are displayed as they are shown.
LEMMA RefreshAtBut ==
    ASSUME NEW m \in Members, NEW changed, NEW but, DisplayedBut(m, but \cup changed)
    PROVE  /\ RefreshLinesAt(m, changed) \in Members /\ Same(m, RefreshLinesAt(m, changed))
           /\ DisplayedBut(RefreshLinesAt(m, changed), but)
           /\ but = {} => Lines(RefreshLinesAt(m, changed)) = Shown(m)
<1> DEFINE n == RefreshLinesAt(m, changed)
<1>1. CASE m.source # "Combined" \/ PickSource(m) # "Combined"
  <2>1. n = RefreshLines(m)
    BY <1>1 DEF RefreshLinesAt
  <2>2. n \in Members /\ Same(m, n) /\ Lines(n) = Shown(m)
    BY <2>1, RefreshFields
  <2> HIDE DEF n
  <2>3. Shown(n) = Shown(m)
    BY <2>2, ShownSame
  <2>4. DisplayedBut(n, but)
    BY <2>2, <2>3 DEF DisplayedBut, Lines
  <2> QED
    BY <2>2, <2>4 DEF n
<1>2. CASE ~(m.source # "Combined" \/ PickSource(m) # "Combined")
  <2> DEFINE combined == (m.combinedLines \ changed) \cup (changed \cap Shown(m))
  <2>1. combined \in SUBSET LogLines
    BY ShownType DEF Members
  <2>2. n = [m EXCEPT !.combinedLines = combined]
    BY <1>2 DEF RefreshLinesAt
  <2>3. combined \ but = Shown(m) \ but
    BY <1>2 DEF DisplayedBut
  <2> HIDE DEF combined, n
  <2>4. n \in Members /\ Same(m, n) /\ n.source = m.source /\ n.combinedLines = combined
    BY ONLY <2>1, <2>2, m \in Members DEF Members, Same
  <2>5. Shown(n) = Shown(m)
    BY <2>4, ShownSame
  <2>6. DisplayedBut(n, but)
    BY <2>3, <2>4, <2>5 DEF DisplayedBut
  <2>7. but = {} => Lines(n) = Shown(m)
    BY <1>2, <2>3, <2>4 DEF Lines
  <2> QED
    BY <2>4, <2>6, <2>7 DEF n
<1> QED
  BY <1>1, <1>2

-----------------------------------------------------------------------------
(* Context Lines.                                                          *)

\* Being near is mutual, and two lines near a third are near twice as far.
LEMMA NearFacts ==
    ASSUME NEW reach \in Nat
    PROVE  /\ \A line \in Nat : \A l : l \in Near(line, reach) <=>
                 l \in Nat /\ line - reach <= l /\ l <= line + reach
           /\ \A line \in Nat, other \in Nat, l \in Nat :
                 l \in Near(line, reach) /\ l \in Near(other, reach) => other \in Near(line, 2 * reach)
           /\ \A line \in Nat : line \in Near(line, reach)
<1>1. ASSUME NEW line \in Nat, NEW r \in Nat, NEW l
      PROVE  l \in Near(line, r) <=> l \in Nat /\ line - r <= l /\ l <= line + r
  BY DEF Near, Greatest
<1>2. 2 * reach \in Nat
  OBVIOUS
<1>3. \A line \in Nat : \A l : l \in Near(line, 2 * reach) <=>
         l \in Nat /\ line - 2 * reach <= l /\ l <= line + 2 * reach
  BY <1>1, <1>2
<1>4. ASSUME NEW line \in Nat, NEW other \in Nat, NEW l \in Nat,
             l \in Near(line, reach), l \in Near(other, reach)
      PROVE  other \in Near(line, 2 * reach)
  <2>1. line - reach <= l /\ l <= line + reach /\ other - reach <= l /\ l <= other + reach
    BY <1>1, <1>4
  <2> QED
    BY <1>3, <2>1
<1>5. \A line \in Nat : line \in Near(line, reach)
  BY <1>1
<1> QED
  BY <1>1, <1>4, <1>5

\* contextLinesAround()
LEMMA AroundFacts ==
    ASSUME NEW m \in Members, NEW lines \in SUBSET LogLines, NEW end \in 0..MaxLines
    PROVE  /\ ContextLinesAround(m, lines, end) \subseteq LogLines
           /\ \A l : l \in ContextLinesAround(m, lines, end) <=>
                 /\ m.contextLinesCount > 0 /\ l \in Nat /\ l < end /\ l \notin Reaching(m)
                 /\ \E line \in lines : l \in Near(line, m.contextLinesCount)
<1>1. m.contextLinesCount \in Nat /\ MaxLines \in Nat
  BY DisplayedLinesAssumption DEF Members
<1> QED
  BY <1>1 DEF ContextLinesAround, LogLines, Reaching

\* What is held are the Context Lines of what is served and none that is of
\* nothing, but for those exempt.
Covers(m, served, exempt) ==
    /\ ContextLinesAround(m, served, m.contextLinesEnd) \ exempt \subseteq m.contextLines
    /\ (m.contextLines \ Reaching(m)) \ exempt \subseteq ContextLinesAround(m, Reaching(m), m.contextLinesEnd)

\* What is held of Context Lines, told by how it is kept.
ContextInv(m) ==
    /\ m.matchesWithoutContextLines \subseteq m.matches
    /\ m.contextLines \cap m.marks = {}
    /\ m.contextLinesCount = 0 => m.contextLines = {}
    /\ m.contextLinesUpToDate =>
          /\ m.contextLines \subseteq 0..(m.contextLinesEnd - 1)
          /\ Covers(m, (m.matches \ m.matchesWithoutContextLines) \cup m.marks, {})

\* rebuildContextLines()
LEMMA RebuildFields ==
    ASSUME NEW m \in Members, nbLogLines \in 0..MaxLines
    PROVE  LET n == RebuildContextLines(m) IN
           /\ n \in Members /\ ContextInv(n)
           /\ n.matches = m.matches /\ n.marks = m.marks /\ n.shown = m.shown
           /\ n.contextLinesCount = m.contextLinesCount /\ n.rewritten = m.rewritten
<1> DEFINE n == RebuildContextLines(m)
           around == ContextLinesAround(m, Reaching(m), nbLogLines)
<1>1. Reaching(m) \in SUBSET LogLines
  BY DEF Reaching, Members
<1>2. /\ around \in SUBSET LogLines
      /\ \A l : l \in around <=>
            /\ m.contextLinesCount > 0 /\ l \in Nat /\ l < nbLogLines /\ l \notin Reaching(m)
            /\ \E line \in Reaching(m) : l \in Near(line, m.contextLinesCount)
  BY <1>1, AroundFacts
<1>3. n = [m EXCEPT !.contextLines = around, !.matchesWithoutContextLines = {},
                    !.contextLinesUpToDate = TRUE, !.contextLinesEnd = nbLogLines]
  BY DEF RebuildContextLines, Reaching
<1> HIDE DEF around, n
<1>4. /\ n \in Members
      /\ n.matches = m.matches /\ n.marks = m.marks /\ n.shown = m.shown
      /\ n.contextLinesCount = m.contextLinesCount /\ n.rewritten = m.rewritten
      /\ n.contextLines = around /\ n.matchesWithoutContextLines = {}
      /\ n.contextLinesUpToDate = TRUE /\ n.contextLinesEnd = nbLogLines
  BY ONLY <1>2, <1>3, m \in Members, nbLogLines \in 0..MaxLines DEF Members
<1>5. Reaching(n) = Reaching(m) /\ (n.matches \ {}) \cup n.marks = Reaching(n)
  BY <1>4 DEF Reaching
<1>6. ContextLinesAround(n, Reaching(n), n.contextLinesEnd) = around
  BY <1>4, <1>5 DEF ContextLinesAround, around, Reaching
<1>7. Covers(n, (n.matches \ n.matchesWithoutContextLines) \cup n.marks, {})
  BY <1>4, <1>5, <1>6 DEF Covers
<1>8. m.contextLinesCount \in Nat
  BY DEF Members
<1>9. around \subseteq 0..(nbLogLines - 1)
  BY <1>2
<1>10. around \cap n.marks = {} /\ (m.contextLinesCount = 0 => around = {})
  BY <1>2, <1>4 DEF Reaching
<1>11. ContextInv(n)
  BY <1>4, <1>7, <1>9, <1>10 DEF ContextInv
<1> QED
  BY <1>4, <1>11 DEF n

\* updateContextLines(), of Context Lines kept up to date.
Stale(m) == ~m.contextLinesUpToDate \/ nbLogLines < m.contextLinesEnd
LEMMA UpdateFields ==
    ASSUME NEW m \in Members, nbLogLines \in 0..MaxLines
    PROVE  LET u == UpdateContextLines(m)
               n == u.members IN
           /\ n \in Members
           /\ n.matches = m.matches /\ n.marks = m.marks /\ n.shown = m.shown
           /\ n.contextLinesCount = m.contextLinesCount /\ n.rewritten = m.rewritten
           /\ (u.everywhere <=> Stale(m))
           /\ Stale(m) => ContextInv(n)
           /\ ~Stale(m) =>
                 /\ n.source = m.source /\ n.combinedLines = m.combinedLines
                 /\ n.contextLines \ u.changed = m.contextLines \ u.changed
                 /\ n.matchesWithoutContextLines = {} /\ n.contextLinesUpToDate = TRUE
                 /\ n.contextLinesEnd = nbLogLines
<1> DEFINE reach == m.contextLinesCount
           near == IF reach > 0 /\ nbLogLines > m.contextLinesEnd
                   THEN Greatest(m.contextLinesEnd - reach, 0)..(nbLogLines + reach - 1) ELSE {}
           around == m.matchesWithoutContextLines \cup (near \cap Reaching(m))
           added == ContextLinesAround(m, around, nbLogLines)
           held == IF reach = 0 THEN m.contextLines ELSE (m.contextLines \ around) \cup added
           u == UpdateContextLines(m)
<1>1. CASE Stale(m)
  <2>1. u.members = RebuildContextLines(m) /\ u.everywhere = TRUE
    BY <1>1 DEF UpdateContextLines, Stale
  <2> QED
    BY <1>1, <2>1, RebuildFields
<1>2. CASE ~Stale(m)
  <2>1. around \in SUBSET LogLines
    BY DEF Members, Reaching
  <2>2. held \in SUBSET LogLines
    <3>1. added \subseteq LogLines
      <4> HIDE DEF around
      <4> QED
        BY <2>1, AroundFacts
    <3> HIDE DEF added, around
    <3> QED
      BY <3>1 DEF Members
  <2>3. /\ u.members = [m EXCEPT !.matchesWithoutContextLines = {}, !.contextLinesEnd = nbLogLines,
                                 !.contextLines = held]
        /\ u.everywhere = FALSE /\ u.changed = added \cup around
    BY <1>2 DEF UpdateContextLines, Stale, Reaching
  <2>4. held \ u.changed = m.contextLines \ u.changed
    BY <2>3
  <2> HIDE DEF held, added, around, u
  <2>5. /\ u.members \in Members
        /\ u.members.matches = m.matches /\ u.members.marks = m.marks /\ u.members.shown = m.shown
        /\ u.members.contextLinesCount = m.contextLinesCount /\ u.members.rewritten = m.rewritten
        /\ u.members.source = m.source /\ u.members.combinedLines = m.combinedLines
        /\ u.members.contextLines = held
        /\ u.members.matchesWithoutContextLines = {}
        /\ u.members.contextLinesUpToDate = m.contextLinesUpToDate /\ u.members.contextLinesEnd = nbLogLines
    BY ONLY <2>2, <2>3, m \in Members, nbLogLines \in 0..MaxLines DEF Members
  <2>6. m.contextLinesUpToDate = TRUE
    BY <1>2 DEF Stale, Members
  <2>7. /\ (u.everywhere <=> Stale(m)) /\ ~Stale(m)
        /\ u.members.contextLines \ u.changed = m.contextLines \ u.changed
    BY <1>2, <2>3, <2>4, <2>5
  <2> QED
    BY <2>5, <2>6, <2>7 DEF u
<1> QED
  BY <1>1, <1>2

\* What was served stays covered, and what waited is.
LEMMA UpdateCovers ==
    ASSUME NEW m \in Members, nbLogLines \in 0..MaxLines, ~Stale(m),
           m.matchesWithoutContextLines \subseteq m.matches,
           m.contextLinesCount = 0 => m.contextLines = {},
           m.contextLines \subseteq 0..(m.contextLinesEnd - 1),
           NEW served \in SUBSET Reaching(m), NEW exempt, Covers(m, served, exempt)
    PROVE  LET n == UpdateContextLines(m).members IN
           /\ Covers(n, served \cup m.matchesWithoutContextLines, exempt)
           /\ n.contextLines \subseteq 0..(n.contextLinesEnd - 1)
           /\ n.contextLines \cap m.marks \subseteq m.contextLines
           /\ m.contextLinesCount = 0 => n.contextLines = {}
<1> DEFINE reach == m.contextLinesCount
           near == IF reach > 0 /\ nbLogLines > m.contextLinesEnd
                   THEN Greatest(m.contextLinesEnd - reach, 0)..(nbLogLines + reach - 1) ELSE {}
           around == m.matchesWithoutContextLines \cup (near \cap Reaching(m))
           added == ContextLinesAround(m, around, nbLogLines)
           held == IF reach = 0 THEN m.contextLines ELSE (m.contextLines \ around) \cup added
           n == UpdateContextLines(m).members
           all == served \cup m.matchesWithoutContextLines
<1>a. /\ reach \in Nat /\ m.contextLinesEnd \in 0..MaxLines /\ nbLogLines \in Nat /\ m.contextLinesEnd <= nbLogLines
      /\ Reaching(m) \in SUBSET LogLines /\ MaxLines \in Nat
  BY DisplayedLinesAssumption DEF Members, Stale, Reaching
<1>1. /\ around \in SUBSET Reaching(m) /\ all \in SUBSET Reaching(m)
      /\ around \in SUBSET LogLines /\ all \in SUBSET LogLines /\ served \in SUBSET LogLines
      /\ m.matchesWithoutContextLines \subseteq around
  BY <1>a DEF Reaching
<1>2. n = [m EXCEPT !.matchesWithoutContextLines = {}, !.contextLinesEnd = nbLogLines, !.contextLines = held]
  BY DEF UpdateContextLines, Stale, Reaching
<1>3. /\ n.contextLines = held /\ n.contextLinesEnd = nbLogLines /\ n.contextLinesCount = reach
      /\ n.matches = m.matches /\ n.marks = m.marks
  <2> HIDE DEF held
  <2> QED
    BY <1>2 DEF Members
<1>4. Reaching(n) = Reaching(m) /\ \A lines, end : ContextLinesAround(n, lines, end) = ContextLinesAround(m, lines, end)
  BY <1>3 DEF Reaching, ContextLinesAround
<1>5. CASE reach = 0
  <2>1. \A lines, end : ContextLinesAround(m, lines, end) = {}
    BY <1>5 DEF ContextLinesAround
  <2>2. n.contextLines = {}
    BY <1>3, <1>5
  <2> QED
    BY <1>4, <1>5, <2>1, <2>2 DEF Covers
<1>6. CASE reach > 0
  <2>1. /\ \A l : l \in added <=>
              /\ l \in Nat /\ l < nbLogLines /\ l \notin Reaching(m) /\ \E line \in around : l \in Near(line, reach)
        /\ \A l : l \in ContextLinesAround(m, all, nbLogLines) <=>
              /\ l \in Nat /\ l < nbLogLines /\ l \notin Reaching(m) /\ \E line \in all : l \in Near(line, reach)
        /\ \A l : l \in ContextLinesAround(m, served, m.contextLinesEnd) <=>
              /\ l \in Nat /\ l < m.contextLinesEnd /\ l \notin Reaching(m)
              /\ \E line \in served : l \in Near(line, reach)
        /\ \A l : l \in ContextLinesAround(m, Reaching(m), nbLogLines) <=>
              /\ l \in Nat /\ l < nbLogLines /\ l \notin Reaching(m) /\ \E line \in Reaching(m) : l \in Near(line, reach)
        /\ \A l : l \in ContextLinesAround(m, Reaching(m), m.contextLinesEnd) <=>
              /\ l \in Nat /\ l < m.contextLinesEnd /\ l \notin Reaching(m)
              /\ \E line \in Reaching(m) : l \in Near(line, reach)
    <3> HIDE DEF around, all
    <3>1. nbLogLines \in 0..MaxLines
      OBVIOUS
    <3> QED
      BY <1>a, <1>1, <1>6, <3>1, AroundFacts
  <2>2. held = (m.contextLines \ around) \cup added
    BY <1>6
  <2>3. ASSUME NEW l \in ContextLinesAround(m, all, nbLogLines), l \notin exempt
        PROVE  l \in held
    <3>1. PICK line \in all : l \in Near(line, reach)
      BY <2>1
    <3>2. /\ l \in Nat /\ l < nbLogLines /\ l \notin Reaching(m) /\ line \in Nat
          /\ line - reach <= l /\ l <= line + reach
      <4> HIDE DEF all, around
      <4>1. l \in Nat /\ l < nbLogLines /\ l \notin Reaching(m)
        BY <2>1, <2>3
      <4>2. line \in LogLines
        BY <1>1, <3>1
      <4>3. line \in Nat
        BY <4>2, <1>a DEF LogLines
      <4> QED
        BY <1>a, <3>1, <4>1, <4>3, NearFacts
    <3>3. CASE line \in around
      BY <2>1, <2>2, <3>1, <3>2, <3>3
    <3>4. CASE line \notin around
      <4>1. line \in served /\ line \in Reaching(m)
        BY <1>1, <3>4
      <4>2. l < m.contextLinesEnd
        <5> SUFFICES ASSUME ~(l < m.contextLinesEnd) PROVE FALSE
          OBVIOUS
        <5>1. line >= m.contextLinesEnd - reach /\ line <= nbLogLines + reach - 1 /\ nbLogLines > m.contextLinesEnd
          BY <1>a, <3>2
        <5>2. line \in near
          BY <1>a, <1>6, <3>2, <5>1 DEF Greatest
        <5> QED
          BY <3>4, <4>1, <5>2
      <4>3. l \in ContextLinesAround(m, served, m.contextLinesEnd)
        BY <2>1, <3>1, <3>2, <4>1, <4>2
      <4>4. l \in m.contextLines /\ l \notin around
        BY <1>1, <2>3, <3>2, <4>3 DEF Covers
      <4> QED
        BY <2>2, <4>4
    <3> QED
      BY <3>3, <3>4
  <2>4. ASSUME NEW l \in held, l \notin Reaching(m), l \notin exempt
        PROVE  l \in ContextLinesAround(m, Reaching(m), nbLogLines)
    <3>1. CASE l \in added
      BY <1>1, <2>1, <3>1
    <3>2. CASE l \in m.contextLines
      <4>1. l \in ContextLinesAround(m, Reaching(m), m.contextLinesEnd)
        BY <2>4, <3>2 DEF Covers
      <4>2. l < nbLogLines
        BY <1>a, <2>1, <4>1
      <4> QED
        BY <2>1, <4>1, <4>2
    <3> QED
      BY <2>2, <3>1, <3>2
  <2>5. held \subseteq 0..(nbLogLines - 1)
    <3>1. \A l \in added : l \in Nat /\ l < nbLogLines
      BY <2>1
    <3>2. \A l \in m.contextLines : l \in Nat /\ l < nbLogLines
      BY <1>a
    <3> HIDE DEF added, around, held
    <3> QED
      BY <1>a, <2>2, <3>1, <3>2
  <2>6. held \cap m.marks \subseteq m.contextLines
    BY <2>1, <2>2 DEF Reaching
  <2> HIDE DEF held, n, all
  <2>7. Covers(n, all, exempt)
    BY <1>3, <1>4, <2>3, <2>4 DEF Covers
  <2> QED
    BY <1>3, <1>6, <2>5, <2>6, <2>7 DEF n, all
<1> QED
  BY <1>a, <1>5, <1>6

\* dropContextLinesOf(), of all whose Context Lines are not told any longer.
LEMMA DropCovers ==
    ASSUME NEW m \in Members, NEW lines \in SUBSET LogLines, m.contextLinesCount > 0,
           NEW exempt, \A l \in exempt : \E line \in lines : l \in Near(line, m.contextLinesCount),
           m.contextLines \subseteq 0..(m.contextLinesEnd - 1),
           NEW served \in SUBSET Reaching(m), Covers(m, served, exempt)
    PROVE  LET n == DropContextLinesOf(m, lines)
               reached == UNION {Reached(m, line) : line \in lines} IN
           /\ n \in Members
           /\ n.matches = m.matches /\ n.marks = m.marks /\ n.shown = m.shown
           /\ n.contextLinesCount = m.contextLinesCount /\ n.rewritten = m.rewritten
           /\ n.source = m.source /\ n.combinedLines = m.combinedLines
           /\ n.matchesWithoutContextLines = m.matchesWithoutContextLines
           /\ n.contextLinesUpToDate = m.contextLinesUpToDate /\ n.contextLinesEnd = m.contextLinesEnd
           /\ Covers(n, served, {})
           /\ n.contextLines \subseteq 0..(n.contextLinesEnd - 1)
           /\ n.contextLines \cap m.marks \subseteq m.contextLines
           /\ n.contextLines \ reached = m.contextLines \ reached
<1> DEFINE reach == m.contextLinesCount
           end == m.contextLinesEnd
           reached == UNION {Reached(m, line) : line \in lines}
           still == UNION {StillReached(m, line, 2 * reach) : line \in lines}
           held == (m.contextLines \ reached) \cup still
           exact == ContextLinesAround(m, Reaching(m), end)
           n == DropContextLinesOf(m, lines)
<1>1. /\ reach \in Nat /\ reach > 0 /\ end \in 0..MaxLines /\ MaxLines \in Nat
      /\ Reaching(m) \in SUBSET LogLines /\ LogLines \subseteq Nat
  BY DisplayedLinesAssumption DEF Members, Reaching, LogLines
<1>2. \A l : l \in exact <=>
        /\ l \in Nat /\ l < end /\ l \notin Reaching(m) /\ \E line \in Reaching(m) : l \in Near(line, reach)
  BY <1>1, AroundFacts
<1>3. \A l : l \in reached <=> l \in Nat /\ l < end /\ \E line \in lines : l \in Near(line, reach)
  BY <1>1 DEF Reached
<1>4. ASSUME NEW line \in lines, NEW l
      PROVE  l \in StillReached(m, line, 2 * reach) <=> l \in exact /\ l \in Near(line, reach)
  <2> DEFINE others == Near(line, 2 * reach) \cap Reaching(m)
  <2>1. others \in SUBSET LogLines /\ line \in Nat
    BY <1>1
  <2>2. l \in ContextLinesAround(m, others, end) <=>
          /\ l \in Nat /\ l < end /\ l \notin Reaching(m) /\ \E other \in others : l \in Near(other, reach)
    <3> HIDE DEF others
    <3> QED
      BY <1>1, <2>1, AroundFacts
  <2>3. l \in StillReached(m, line, 2 * reach) <=>
          l \in ContextLinesAround(m, others, end) /\ l \in Near(line, reach)
    <3>1. StillReached(m, line, 2 * reach) = ContextLinesAround(m, others, end) \cap Reached(m, line)
      BY DEF StillReached, Reaching
    <3>2. l \in ContextLinesAround(m, others, end) => l \in 0..(end - 1)
      <4> HIDE DEF others
      <4> QED
        BY <1>1, <2>2
    <3> HIDE DEF others
    <3> QED
      BY <3>1, <3>2 DEF Reached
  <2>4. ASSUME l \in exact, l \in Near(line, reach)
        PROVE  \E other \in others : l \in Near(other, reach)
    <3>1. PICK other \in Reaching(m) : l \in Near(other, reach)
      BY <1>2, <2>4
    <3>2. l \in Nat /\ other \in Nat
      BY <1>1, <1>2, <2>4
    <3>3. other \in Near(line, 2 * reach)
      BY <1>1, <2>1, <2>4, <3>1, <3>2, NearFacts
    <3> QED
      BY <3>1, <3>3
  <2>5. others \subseteq Reaching(m)
    OBVIOUS
  <2> HIDE DEF others, exact
  <2> QED
    BY <1>2, <2>2, <2>3, <2>4, <2>5
<1>5. \A l : l \in still <=> l \in exact /\ \E line \in lines : l \in Near(line, reach)
  BY <1>4
<1>6. held \in SUBSET LogLines
  BY <1>1, <1>2, <1>5 DEF Members, LogLines
<1>7. n = [m EXCEPT !.contextLines = held]
  BY DEF DropContextLinesOf
<1> HIDE DEF held, n
<1>8. /\ n \in Members
      /\ n.matches = m.matches /\ n.marks = m.marks /\ n.shown = m.shown
      /\ n.contextLinesCount = m.contextLinesCount /\ n.rewritten = m.rewritten
      /\ n.source = m.source /\ n.combinedLines = m.combinedLines
      /\ n.matchesWithoutContextLines = m.matchesWithoutContextLines
      /\ n.contextLinesUpToDate = m.contextLinesUpToDate /\ n.contextLinesEnd = m.contextLinesEnd
      /\ n.contextLines = held
  BY ONLY <1>6, <1>7, m \in Members DEF Members
<1> DEFINE owed == ContextLinesAround(m, served, end)
<1>9. /\ Reaching(n) = Reaching(m) /\ ContextLinesAround(n, Reaching(n), n.contextLinesEnd) = exact
      /\ ContextLinesAround(n, served, n.contextLinesEnd) = owed /\ owed \subseteq exact
  BY <1>8 DEF Reaching, ContextLinesAround
<1> HIDE DEF exact, owed, reached, still
<1>10. /\ owed \ exempt \subseteq m.contextLines
       /\ (m.contextLines \ Reaching(m)) \ exempt \subseteq exact
  BY DEF Covers, exact, owed
<1>11. ASSUME NEW l \in owed
       PROVE  l \in held
  <2>1. CASE \E line \in lines : l \in Near(line, reach)
    BY <1>5, <1>9, <1>11, <2>1 DEF held
  <2>2. CASE ~\E line \in lines : l \in Near(line, reach)
    BY <1>3, <1>10, <1>11, <2>2 DEF held
  <2> QED
    BY <2>1, <2>2
<1>12. ASSUME NEW l \in held, l \notin Reaching(m)
       PROVE  l \in exact
  <2>1. CASE l \in still
    BY <1>5, <2>1
  <2>2. CASE l \notin still
    <3>1. l \in m.contextLines /\ l \notin reached
      BY <1>12, <2>2 DEF held
    <3>2. l \in Nat /\ l < end
      BY <1>1, <3>1
    <3>3. l \notin exempt
      BY <1>3, <3>1, <3>2
    <3> QED
      BY <1>10, <1>12, <3>1, <3>3
  <2> QED
    BY <2>1, <2>2
<1>13. Covers(n, served, {})
  BY <1>8, <1>9, <1>11, <1>12 DEF Covers
<1>14. held \subseteq 0..(end - 1)
  <2>1. \A l \in still : l \in Nat /\ l < end
    BY <1>2, <1>5
  <2>2. m.contextLines \subseteq 0..(end - 1)
    OBVIOUS
  <2> QED
    BY <1>1, <2>1, <2>2 DEF held
<1>15. held \cap m.marks \subseteq m.contextLines
  BY <1>2, <1>5 DEF held, Reaching
<1>16. held \ reached = m.contextLines \ reached
  BY <1>2, <1>3, <1>5 DEF held
<1> QED
  BY <1>8, <1>13, <1>14, <1>15, <1>16 DEF n, reached

-----------------------------------------------------------------------------
(* The invariant, and what the operations keep of it.                      *)

\* What is held of Context Lines, those of some Matches that are yet to be
\* told of left out.
ContextBut(m, but) ==
    /\ m.matchesWithoutContextLines \subseteq m.matches
    /\ m.contextLines \cap m.marks = {}
    /\ m.contextLinesCount = 0 => m.contextLines = {}
    /\ m.contextLinesUpToDate =>
          /\ m.contextLines \subseteq 0..(m.contextLinesEnd - 1)
          /\ Covers(m, (m.matches \ (m.matchesWithoutContextLines \cup but)) \cup m.marks, {})

DisplayInv(m) == m \in Members /\ Lines(m) = Shown(m) /\ ContextInv(m)
DisplayInvBut(m, but) == m \in Members /\ DisplayedBut(m, but) /\ ContextBut(m, but)

\* Less is owed where less is served.
LEMMA CoversLess ==
    ASSUME NEW m, NEW served, NEW fewer \in SUBSET served, NEW exempt, Covers(m, served, exempt)
    PROVE  Covers(m, fewer, exempt)
  BY DEF Covers, ContextLinesAround

\* Where lines stop being Matches or Marks all near them are exempt, and
\* where others become it nothing is.
LEMMA CoversChange ==
    ASSUME NEW m \in Members, NEW n \in Members,
           n.contextLines = m.contextLines, n.contextLinesEnd = m.contextLinesEnd,
           n.contextLinesCount = m.contextLinesCount,
           NEW served \in SUBSET Reaching(m), NEW fewer \in SUBSET served, Covers(m, served, {}),
           NEW exempt,
           \A line \in Reaching(m) \ Reaching(n) : Near(line, m.contextLinesCount) \subseteq exempt
    PROVE  Covers(n, fewer, exempt)
<1>1. /\ Reaching(m) \in SUBSET LogLines /\ Reaching(n) \in SUBSET LogLines
      /\ served \in SUBSET LogLines /\ fewer \in SUBSET LogLines
      /\ m.contextLinesCount \in Nat /\ m.contextLinesEnd \in 0..MaxLines /\ MaxLines \in Nat
      /\ LogLines \subseteq Nat
  BY DisplayedLinesAssumption DEF Members, Reaching, LogLines
<1>2. \A line \in Reaching(m) \ Reaching(n) : line \in exempt
  BY <1>1, NearFacts
<1>3. /\ \A l : l \in ContextLinesAround(m, served, m.contextLinesEnd) <=>
           /\ m.contextLinesCount > 0 /\ l \in Nat /\ l < m.contextLinesEnd /\ l \notin Reaching(m)
           /\ \E line \in served : l \in Near(line, m.contextLinesCount)
      /\ \A l : l \in ContextLinesAround(m, Reaching(m), m.contextLinesEnd) <=>
           /\ m.contextLinesCount > 0 /\ l \in Nat /\ l < m.contextLinesEnd /\ l \notin Reaching(m)
           /\ \E line \in Reaching(m) : l \in Near(line, m.contextLinesCount)
  BY <1>1, AroundFacts
<1>4. /\ \A l : l \in ContextLinesAround(n, fewer, n.contextLinesEnd) <=>
           /\ m.contextLinesCount > 0 /\ l \in Nat /\ l < m.contextLinesEnd /\ l \notin Reaching(n)
           /\ \E line \in fewer : l \in Near(line, m.contextLinesCount)
      /\ \A l : l \in ContextLinesAround(n, Reaching(n), n.contextLinesEnd) <=>
           /\ m.contextLinesCount > 0 /\ l \in Nat /\ l < m.contextLinesEnd /\ l \notin Reaching(n)
           /\ \E line \in Reaching(n) : l \in Near(line, m.contextLinesCount)
  BY <1>1, AroundFacts
<1>5. ASSUME NEW l \in ContextLinesAround(n, fewer, n.contextLinesEnd), l \notin exempt
      PROVE  l \in m.contextLines
  <2>1. l \notin Reaching(m)
    BY <1>2, <1>4, <1>5
  <2>2. l \in ContextLinesAround(m, served, m.contextLinesEnd)
    BY <1>3, <1>4, <2>1
  <2> QED
    BY <2>2 DEF Covers
<1>6. ASSUME NEW l \in m.contextLines, l \notin Reaching(n), l \notin exempt
      PROVE  l \in ContextLinesAround(n, Reaching(n), n.contextLinesEnd)
  <2>1. l \notin Reaching(m)
    BY <1>2, <1>6
  <2>2. l \in ContextLinesAround(m, Reaching(m), m.contextLinesEnd)
    BY <2>1 DEF Covers
  <2>3. PICK line \in Reaching(m) : l \in Near(line, m.contextLinesCount)
    BY <1>3, <2>2
  <2>4. line \in Reaching(n)
    BY <1>6, <2>3
  <2> QED
    BY <1>3, <1>4, <1>6, <2>2, <2>3, <2>4
<1> QED
  BY <1>5, <1>6 DEF Covers

\* Members that differ only in the lines displayed owe the same.
LEMMA SameContext ==
    ASSUME NEW m, NEW n, Same(m, n), NEW but
    PROVE  /\ ContextInv(m) => ContextInv(n)
           /\ ContextBut(m, but) => ContextBut(n, but)
<1>1. /\ Reaching(n) = Reaching(m)
      /\ \A lines, end : ContextLinesAround(n, lines, end) = ContextLinesAround(m, lines, end)
  BY DEF Same, Reaching, ContextLinesAround
<1>2. \A served : Covers(m, served, {}) => Covers(n, served, {})
  BY <1>1 DEF Same, Covers
<1> QED
  BY <1>2 DEF Same, ContextInv, ContextBut

\* Less is owed where some are left out, and nothing less where none is.
LEMMA ButLess ==
    ASSUME NEW m \in Members, NEW but
    PROVE  /\ ContextInv(m) => ContextBut(m, but)
           /\ ContextBut(m, {}) => ContextInv(m)
<1>1. ASSUME ContextInv(m), m.contextLinesUpToDate
      PROVE  Covers(m, (m.matches \ (m.matchesWithoutContextLines \cup but)) \cup m.marks, {})
  <2> DEFINE served == (m.matches \ m.matchesWithoutContextLines) \cup m.marks
             fewer == (m.matches \ (m.matchesWithoutContextLines \cup but)) \cup m.marks
  <2>1. Covers(m, served, {}) /\ fewer \in SUBSET served
    BY <1>1 DEF ContextInv
  <2> HIDE DEF served, fewer
  <2>2. Covers(m, fewer, {})
    BY <2>1, CoversLess
  <2> QED
    BY <2>2 DEF fewer
<1>2. ASSUME ContextBut(m, {})
      PROVE  ContextInv(m)
  <2>1. (m.matches \ (m.matchesWithoutContextLines \cup {})) \cup m.marks
           = (m.matches \ m.matchesWithoutContextLines) \cup m.marks
    OBVIOUS
  <2> QED
    BY <1>2, <2>1 DEF ContextBut, ContextInv
<1> QED
  BY <1>1, <1>2 DEF ContextInv, ContextBut

\* refreshLines() makes the lines displayed those shown.
LEMMA RefreshKeeps ==
    ASSUME NEW m \in Members, NEW but
    PROVE  /\ ContextInv(m) => DisplayInv(RefreshLines(m))
           /\ ContextBut(m, but) => DisplayInvBut(RefreshLines(m), but)
<1> DEFINE n == RefreshLines(m)
<1>1. n \in Members /\ Same(m, n) /\ Lines(n) = Shown(m)
  BY RefreshFields
<1> HIDE DEF n
<1>2. Shown(n) = Shown(m)
  BY <1>1, ShownSame
<1>3. DisplayedBut(n, but)
  BY <1>1, <1>2 DEF DisplayedBut, Lines
<1>4. (ContextInv(m) => ContextInv(n)) /\ (ContextBut(m, but) => ContextBut(n, but))
  BY <1>1, SameContext
<1> QED
  BY <1>1, <1>2, <1>3, <1>4 DEF DisplayInv, DisplayInvBut, n

\* refreshLinesAt() does, told where they may differ.
LEMMA RefreshAtKeeps ==
    ASSUME NEW m \in Members, NEW changed, NEW but, DisplayedBut(m, but \cup changed)
    PROVE  /\ but = {} /\ ContextInv(m) => DisplayInv(RefreshLinesAt(m, changed))
           /\ ContextBut(m, but) => DisplayInvBut(RefreshLinesAt(m, changed), but)
<1> DEFINE n == RefreshLinesAt(m, changed)
<1>1. /\ n \in Members /\ Same(m, n) /\ DisplayedBut(n, but)
      /\ but = {} => Lines(n) = Shown(m)
  BY RefreshAtBut
<1> HIDE DEF n
<1>2. Shown(n) = Shown(m)
  BY <1>1, ShownSame
<1>3. (ContextInv(m) => ContextInv(n)) /\ (ContextBut(m, but) => ContextBut(n, but))
  BY <1>1, SameContext
<1> QED
  BY <1>1, <1>2, <1>3 DEF DisplayInv, DisplayInvBut, n

\* updateContextLines(): it is all Context Lines anew, or what it says.
LEMMA UpdateKeeps ==
    ASSUME NEW m \in Members, nbLogLines \in 0..MaxLines, NEW but, NEW shownBut,
           ContextBut(m, but), DisplayedBut(m, shownBut)
    PROVE  LET u == UpdateContextLines(m)
               n == u.members IN
           /\ u.everywhere => ContextInv(n)
           /\ ~u.everywhere => /\ DisplayedBut(n, shownBut \cup u.changed) /\ n.contextLinesUpToDate = TRUE
                               /\ n.contextLinesCount = 0 => n.contextLines = {}
                               /\ n.contextLines \cap n.marks = {}
                               /\ n.matchesWithoutContextLines = {}
                               /\ n.contextLines \subseteq 0..(n.contextLinesEnd - 1)
                               /\ Covers(n, (n.matches \ but) \cup n.marks, {})
<1> DEFINE u == UpdateContextLines(m)
           n == u.members
           served == (m.matches \ (m.matchesWithoutContextLines \cup but)) \cup m.marks
<1>1. /\ n \in Members
      /\ n.matches = m.matches /\ n.marks = m.marks /\ n.shown = m.shown
      /\ n.contextLinesCount = m.contextLinesCount /\ n.rewritten = m.rewritten
      /\ (u.everywhere <=> Stale(m))
      /\ Stale(m) => ContextInv(n)
      /\ ~Stale(m) =>
            /\ n.source = m.source /\ n.combinedLines = m.combinedLines
            /\ n.contextLines \ u.changed = m.contextLines \ u.changed
            /\ n.matchesWithoutContextLines = {} /\ n.contextLinesUpToDate = TRUE
            /\ n.contextLinesEnd = nbLogLines
  BY UpdateFields
<1>2. ASSUME ~Stale(m)
      PROVE  /\ Covers(n, served \cup m.matchesWithoutContextLines, {})
             /\ n.contextLines \subseteq 0..(n.contextLinesEnd - 1)
             /\ n.contextLines \cap m.marks \subseteq m.contextLines
             /\ m.contextLinesCount = 0 => n.contextLines = {}
  <2>1. /\ m.matchesWithoutContextLines \subseteq m.matches
        /\ m.contextLinesCount = 0 => m.contextLines = {}
        /\ m.contextLines \subseteq 0..(m.contextLinesEnd - 1)
        /\ Covers(m, served, {}) /\ served \in SUBSET Reaching(m)
    BY <1>2 DEF ContextBut, Stale, Reaching
  <2> HIDE DEF served
  <2> QED
    BY <1>2, <2>1, UpdateCovers
<1> HIDE DEF u
<1>3. ASSUME ~Stale(m)
      PROVE  DisplayedBut(n, shownBut \cup u.changed)
  <2>1. Differs(m, n, u.changed)
    BY <1>1, <1>3 DEF Differs
  <2> QED
    BY <2>1, DiffersDisplay
<1>4. ASSUME ~Stale(m)
      PROVE  Covers(n, (n.matches \ but) \cup n.marks, {})
  <2>1. (n.matches \ but) \cup n.marks \in SUBSET (served \cup m.matchesWithoutContextLines)
    BY <1>1
  <2> QED
    BY <1>2, <1>4, <2>1, CoversLess
<1>5. m.contextLines \cap m.marks = {}
  BY DEF ContextBut
<1> QED
  BY <1>1, <1>2, <1>3, <1>4, <1>5 DEF u

\* rewritten() touches nothing else.
LEMMA RewrittenFields ==
    ASSUME NEW m \in Members
    PROVE  /\ Rewritten(m) \in Members /\ Rewritten(m).rewritten = TRUE
           /\ \A but : DisplayedBut(m, but) => DisplayedBut(Rewritten(m), but)
           /\ \A but : ContextBut(m, but) => ContextBut(Rewritten(m), but)
           /\ ContextInv(m) => ContextInv(Rewritten(m))
           /\ Rewritten(m).matches = m.matches /\ Rewritten(m).marks = m.marks
           /\ Rewritten(m).shown = m.shown /\ Rewritten(m).source = m.source
           /\ Rewritten(m).combinedLines = m.combinedLines
           /\ Rewritten(m).contextLines = m.contextLines
           /\ Rewritten(m).contextLinesCount = m.contextLinesCount
           /\ Rewritten(m).contextLinesUpToDate = m.contextLinesUpToDate
           /\ Rewritten(m).contextLinesEnd = m.contextLinesEnd
           /\ Rewritten(m).matchesWithoutContextLines = m.matchesWithoutContextLines
<1> DEFINE n == Rewritten(m)
<1>1. n = [m EXCEPT !.rewritten = TRUE]
  BY DEF Rewritten
<1> HIDE DEF n
<1>2. /\ n \in Members /\ n.rewritten = TRUE
      /\ n.matches = m.matches /\ n.marks = m.marks /\ n.shown = m.shown /\ n.source = m.source
      /\ n.combinedLines = m.combinedLines /\ n.contextLines = m.contextLines
      /\ n.contextLinesCount = m.contextLinesCount
      /\ n.contextLinesUpToDate = m.contextLinesUpToDate /\ n.contextLinesEnd = m.contextLinesEnd
      /\ n.matchesWithoutContextLines = m.matchesWithoutContextLines
  BY ONLY <1>1, m \in Members DEF Members
<1>3. Shown(n) = Shown(m) /\ Reaching(n) = Reaching(m)
  BY <1>2 DEF Shown, MatchesShown, MarksShown, Reaching
<1>4. \A lines, end : ContextLinesAround(n, lines, end) = ContextLinesAround(m, lines, end)
  BY <1>2 DEF ContextLinesAround
<1>5. \A served, exempt : Covers(m, served, exempt) => Covers(n, served, exempt)
  BY <1>2, <1>3, <1>4 DEF Covers
<1>6. /\ \A but : DisplayedBut(m, but) => DisplayedBut(n, but)
      /\ \A but : ContextBut(m, but) => ContextBut(n, but)
      /\ ContextInv(m) => ContextInv(n)
  BY <1>2, <1>3, <1>5 DEF DisplayedBut, ContextBut, ContextInv
<1> QED
  BY <1>2, <1>6 DEF n

\* The Matches wait for their Context Lines to be told of.
LEMMA WaitingKeeps ==
    ASSUME NEW m \in Members, NEW added \in SUBSET m.matches, NEW but,
           ContextBut(m, added), DisplayedBut(m, but)
    PROVE  /\ Waiting(m, added) \in Members
           /\ ContextInv(Waiting(m, added)) /\ DisplayedBut(Waiting(m, added), but)
           /\ Waiting(m, added).matches = m.matches /\ Waiting(m, added).marks = m.marks
           /\ Waiting(m, added).rewritten = m.rewritten
<1> DEFINE n == Waiting(m, added)
           waiting == IF m.contextLinesUpToDate THEN m.matchesWithoutContextLines \cup added
                      ELSE m.matchesWithoutContextLines
<1>1. n = [m EXCEPT !.matchesWithoutContextLines = waiting]
  BY DEF Waiting
<1>2. waiting \in SUBSET LogLines /\ waiting \subseteq m.matches
  BY DEF Members, ContextBut
<1> HIDE DEF n, waiting
<1>3. /\ n \in Members /\ n.rewritten = m.rewritten
      /\ n.matches = m.matches /\ n.marks = m.marks /\ n.shown = m.shown /\ n.source = m.source
      /\ n.combinedLines = m.combinedLines /\ n.contextLines = m.contextLines
      /\ n.contextLinesCount = m.contextLinesCount
      /\ n.contextLinesUpToDate = m.contextLinesUpToDate /\ n.contextLinesEnd = m.contextLinesEnd
      /\ n.matchesWithoutContextLines = waiting
  BY ONLY <1>1, <1>2, m \in Members DEF Members
<1>4. Shown(n) = Shown(m) /\ Reaching(n) = Reaching(m)
  BY <1>3 DEF Shown, MatchesShown, MarksShown, Reaching
<1>5. \A lines, end : ContextLinesAround(n, lines, end) = ContextLinesAround(m, lines, end)
  BY <1>3 DEF ContextLinesAround
<1>6. \A served, exempt : Covers(m, served, exempt) => Covers(n, served, exempt)
  BY <1>3, <1>4, <1>5 DEF Covers
<1>7. n.contextLinesUpToDate => Covers(n, (n.matches \ n.matchesWithoutContextLines) \cup n.marks, {})
  <2>1. SUFFICES ASSUME m.contextLinesUpToDate
                 PROVE  Covers(n, (n.matches \ n.matchesWithoutContextLines) \cup n.marks, {})
    BY <1>3
  <2>2. Covers(m, (m.matches \ (m.matchesWithoutContextLines \cup added)) \cup m.marks, {})
    BY <2>1 DEF ContextBut
  <2>3. waiting = m.matchesWithoutContextLines \cup added
    BY <2>1 DEF waiting
  <2> QED
    BY <1>3, <1>6, <2>2, <2>3
<1>8. ContextInv(n)
  BY <1>2, <1>3, <1>7 DEF ContextInv, ContextBut
<1>9. DisplayedBut(n, but)
  BY <1>3, <1>4 DEF DisplayedBut
<1> QED
  BY <1>3, <1>8, <1>9 DEF n

\* matchesRemoved(), of Matches that lost some and were joined by others: but
\* for those, what is displayed and held is right.
LEMMA MatchesRemovedKeeps ==
    ASSUME nbLogLines \in 0..MaxLines, NEW m, DisplayInv(m),
           NEW removed \in SUBSET m.matches, NEW added \in SUBSET LogLines, added \cap m.matches = {}
    PROVE  LET before == [m EXCEPT !.matches = (@ \ removed) \cup added]
               told == MatchesRemoved(before, removed) IN
           /\ DisplayInvBut(told, added) /\ added \subseteq told.matches /\ told.shown = m.shown
           /\ removed # {} => told.rewritten = TRUE
<1> DEFINE before == [m EXCEPT !.matches = (@ \ removed) \cup added]
           told == MatchesRemoved(before, removed)
<1>m. m \in Members /\ DisplayedBut(m, {}) /\ ContextInv(m)
  BY DEF DisplayInv, DisplayedBut, Lines
<1>1. removed \in SUBSET LogLines /\ (m.matches \ removed) \cup added \in SUBSET LogLines
  BY <1>m DEF Members
<1>2. /\ before \in Members
      /\ before.matches = (m.matches \ removed) \cup added
      /\ before.marks = m.marks /\ before.shown = m.shown /\ before.source = m.source
      /\ before.combinedLines = m.combinedLines /\ before.contextLines = m.contextLines
      /\ before.contextLinesCount = m.contextLinesCount
      /\ before.contextLinesUpToDate = m.contextLinesUpToDate
      /\ before.contextLinesEnd = m.contextLinesEnd
      /\ before.matchesWithoutContextLines = m.matchesWithoutContextLines
  BY ONLY <1>1, <1>m DEF Members
<1> HIDE DEF before
<1>3. CASE removed = {}
  <2>1. told = before
    BY <1>3 DEF MatchesRemoved
  <2>2. Differs(m, before, added)
    BY <1>2, <1>3 DEF Differs
  <2>3. DisplayedBut(before, added)
    <3>1. DisplayedBut(before, {} \cup added)
      BY <1>m, <2>2, DiffersDisplay
    <3>2. {} \cup added = added
      OBVIOUS
    <3> QED
      BY <3>1, <3>2
  <2> DEFINE served == (m.matches \ m.matchesWithoutContextLines) \cup m.marks
             fewer == (before.matches \ (before.matchesWithoutContextLines \cup added)) \cup before.marks
  <2>4. ASSUME m.contextLinesUpToDate
        PROVE  Covers(before, fewer, {})
    <3>1. Covers(m, served, {})
      BY <1>m, <2>4 DEF ContextInv
    <3>2. /\ served \in SUBSET Reaching(m) /\ fewer \in SUBSET served
          /\ Reaching(m) \ Reaching(before) = {}
      BY <1>2, <1>3 DEF Reaching
    <3> HIDE DEF served, fewer
    <3> QED
      BY <1>m, <1>2, <3>1, <3>2, CoversChange
  <2>5. ContextBut(before, added)
    BY <1>m, <1>2, <1>3, <2>4 DEF ContextInv, ContextBut
  <2> QED
    BY <1>2, <1>3, <2>1, <2>3, <2>5 DEF DisplayInvBut, before
<1>4. CASE removed # {}
  <2> DEFINE wait == m.matchesWithoutContextLines \ removed
             start == [Rewritten(before) EXCEPT !.matchesWithoutContextLines = @ \ removed]
             u == UpdateContextLines(start)
             n == u.members
             dropped == {line \in removed : before.contextLinesCount > 0 /\ line \notin before.marks}
             exempt == UNION {Near(line, m.contextLinesCount) : line \in removed \ m.marks}
             served == ((m.matches \ removed) \ m.matchesWithoutContextLines) \cup m.marks
             after == DropContextLinesOf(n, dropped)
             reached == UNION {Reached(n, line) : line \in dropped}
  <2>1. told = IF u.everywhere THEN RefreshLines(n) ELSE RefreshLinesAt(after, u.changed \cup removed \cup reached)
    BY <1>4 DEF MatchesRemoved
  <2>2. /\ Rewritten(before) \in Members /\ Rewritten(before).rewritten = TRUE
        /\ Rewritten(before).matches = before.matches /\ Rewritten(before).marks = m.marks
        /\ Rewritten(before).shown = m.shown /\ Rewritten(before).source = m.source
        /\ Rewritten(before).combinedLines = m.combinedLines
        /\ Rewritten(before).contextLines = m.contextLines
        /\ Rewritten(before).contextLinesCount = m.contextLinesCount
        /\ Rewritten(before).contextLinesUpToDate = m.contextLinesUpToDate
        /\ Rewritten(before).contextLinesEnd = m.contextLinesEnd
        /\ Rewritten(before).matchesWithoutContextLines = m.matchesWithoutContextLines
    BY <1>2, RewrittenFields
  <2>3. start = [Rewritten(before) EXCEPT !.matchesWithoutContextLines = wait] /\ wait \in SUBSET LogLines
    BY <1>m, <2>2 DEF Members
  <2> HIDE DEF start, wait
  <2>4. /\ start \in Members /\ start.rewritten = TRUE
        /\ start.matches = before.matches /\ start.marks = m.marks
        /\ start.shown = m.shown /\ start.source = m.source
        /\ start.combinedLines = m.combinedLines /\ start.contextLines = m.contextLines
        /\ start.contextLinesCount = m.contextLinesCount
        /\ start.contextLinesUpToDate = m.contextLinesUpToDate
        /\ start.contextLinesEnd = m.contextLinesEnd
        /\ start.matchesWithoutContextLines = wait
    BY ONLY <2>2, <2>3 DEF Members
  <2>5. DisplayedBut(start, added \cup removed)
    <3>1. Differs(m, start, added \cup removed)
      BY <1>2, <2>4 DEF Differs
    <3>2. DisplayedBut(start, {} \cup (added \cup removed))
      BY <1>m, <3>1, DiffersDisplay
    <3>3. {} \cup (added \cup removed) = added \cup removed
      OBVIOUS
    <3> QED
      BY <3>2, <3>3
  <2>6. /\ n \in Members
        /\ n.matches = before.matches /\ n.marks = m.marks /\ n.shown = m.shown
        /\ n.contextLinesCount = m.contextLinesCount /\ n.rewritten = TRUE
        /\ (u.everywhere <=> Stale(start))
        /\ Stale(start) => ContextInv(n)
        /\ ~Stale(start) =>
              /\ n.source = start.source /\ n.combinedLines = start.combinedLines
              /\ n.contextLines \ u.changed = start.contextLines \ u.changed
              /\ n.matchesWithoutContextLines = {} /\ n.contextLinesUpToDate = TRUE
              /\ n.contextLinesEnd = nbLogLines
    BY <2>4, UpdateFields
  <2>7. added \subseteq n.matches
    BY <1>2, <2>6
  <2>8. CASE Stale(start)
    <3> HIDE DEF u
    <3>1. told = RefreshLines(n) /\ ContextInv(n)
      BY <2>1, <2>6, <2>8
    <3>2. DisplayInvBut(told, added)
      BY <2>6, <3>1, ButLess, RefreshKeeps
    <3>3. Same(n, told)
      BY <2>6, <3>1, RefreshFields
    <3>4. told.matches = n.matches /\ told.rewritten = n.rewritten /\ told.shown = n.shown
      BY <3>3 DEF Same
    <3> QED
      BY <1>4, <2>6, <2>7, <3>2, <3>4 DEF before
  <2>9. CASE ~Stale(start)
    <3>1. /\ served \in SUBSET Reaching(start) /\ served \cup wait = (m.matches \ removed) \cup m.marks
          /\ wait \subseteq start.matches
      BY <1>m, <1>2, <2>4 DEF Reaching, ContextInv, wait
    <3>2. Covers(start, served, exempt)
      <4> DEFINE all == (m.matches \ m.matchesWithoutContextLines) \cup m.marks
      <4>1. Covers(m, all, {}) /\ all \in SUBSET Reaching(m) /\ served \in SUBSET all
        BY <1>m, <2>4, <2>9 DEF ContextInv, Stale, Reaching
      <4>2. \A line \in Reaching(m) \ Reaching(start) : Near(line, m.contextLinesCount) \subseteq exempt
        BY <1>2, <2>4 DEF Reaching
      <4> HIDE DEF all, served, exempt
      <4> QED
        BY <1>m, <2>4, <4>1, <4>2, CoversChange
    <3>3. /\ Covers(n, (m.matches \ removed) \cup m.marks, exempt)
          /\ n.contextLines \subseteq 0..(n.contextLinesEnd - 1)
          /\ n.contextLines \cap m.marks \subseteq m.contextLines
          /\ m.contextLinesCount = 0 => n.contextLines = {}
      <4>1. /\ m.contextLinesCount = 0 => m.contextLines = {}
            /\ m.contextLines \subseteq 0..(m.contextLinesEnd - 1)
        BY <1>m, <2>4, <2>9 DEF ContextInv, Stale
      <4> HIDE DEF served, exempt
      <4>2. /\ start.contextLinesCount = 0 => start.contextLines = {}
            /\ start.contextLines \subseteq 0..(start.contextLinesEnd - 1)
            /\ start.matchesWithoutContextLines \subseteq start.matches
            /\ start \in Members /\ served \in SUBSET Reaching(start) /\ Covers(start, served, exempt)
        BY <2>4, <3>1, <3>2, <4>1
      <4>3. /\ Covers(n, served \cup start.matchesWithoutContextLines, exempt)
            /\ n.contextLines \subseteq 0..(n.contextLinesEnd - 1)
            /\ n.contextLines \cap start.marks \subseteq start.contextLines
            /\ start.contextLinesCount = 0 => n.contextLines = {}
        BY ONLY nbLogLines \in 0..MaxLines, <2>9, <4>2, UpdateCovers
      <4>4. served \cup start.matchesWithoutContextLines = (m.matches \ removed) \cup m.marks
        BY <2>4, <3>1
      <4> HIDE DEF n
      <4> QED
        BY <2>4, <4>3, <4>4
    <3> HIDE DEF u
    <3>4. /\ after \in Members
          /\ after.matches = before.matches /\ after.marks = m.marks /\ after.shown = m.shown
          /\ after.contextLinesCount = m.contextLinesCount /\ after.rewritten = TRUE
          /\ after.source = n.source /\ after.combinedLines = n.combinedLines
          /\ after.matchesWithoutContextLines = {} /\ after.contextLinesUpToDate = TRUE
          /\ after.contextLines \ reached = n.contextLines \ reached
          /\ after.contextLines \subseteq 0..(after.contextLinesEnd - 1)
          /\ after.contextLines \cap m.marks \subseteq n.contextLines
          /\ Covers(after, (m.matches \ removed) \cup m.marks, {})
          /\ m.contextLinesCount = 0 => after.contextLines = {}
      <4> DEFINE all == (m.matches \ removed) \cup m.marks
      <4>1. CASE m.contextLinesCount = 0
        <5>1. dropped = {} /\ n.contextLines = {}
          BY <1>2, <3>3, <4>1
        <5>2. after = [n EXCEPT !.contextLines = {}] /\ reached = {}
          BY <5>1 DEF DropContextLinesOf
        <5> HIDE DEF after, reached, all
        <5>3. after = n
          BY ONLY <5>1, <5>2, <2>6 DEF Members
        <5>4. Covers(after, all, {})
          BY <2>6, <4>1, <5>1, <5>3 DEF Covers, ContextLinesAround
        <5> QED
          BY <2>6, <2>9, <4>1, <5>1, <5>2, <5>3, <5>4 DEF all
      <4>2. CASE m.contextLinesCount > 0
        <5>1. all \in SUBSET Reaching(n)
          BY <1>2, <2>6 DEF Reaching
        <5>2. dropped \in SUBSET LogLines /\ \A l \in exempt : \E line \in dropped : l \in Near(line, n.contextLinesCount)
          BY <1>1, <1>2, <2>6, <4>2
        <5>3. Covers(n, all, exempt)
          BY <3>3
        <5> HIDE DEF all, exempt, dropped
        <5>4. /\ after \in Members
              /\ after.matches = n.matches /\ after.marks = n.marks /\ after.shown = n.shown
              /\ after.contextLinesCount = n.contextLinesCount /\ after.rewritten = n.rewritten
              /\ after.source = n.source /\ after.combinedLines = n.combinedLines
              /\ after.matchesWithoutContextLines = n.matchesWithoutContextLines
              /\ after.contextLinesUpToDate = n.contextLinesUpToDate
              /\ Covers(after, all, {})
              /\ after.contextLines \subseteq 0..(after.contextLinesEnd - 1)
              /\ after.contextLines \cap n.marks \subseteq n.contextLines
              /\ after.contextLines \ reached = n.contextLines \ reached
          BY <2>6, <3>3, <4>2, <5>1, <5>2, <5>3, DropCovers, ZenonT(60)
        <5> HIDE DEF after, reached
        <5> QED
          BY <2>6, <2>9, <4>2, <5>4 DEF all
      <4>3. m.contextLinesCount \in Nat
        BY <1>m DEF Members
      <4>4. m.contextLinesCount = 0 \/ m.contextLinesCount > 0
        BY <4>3
      <4> HIDE DEF after, reached, n, dropped, all
      <4> QED
        BY ONLY <4>1, <4>2, <4>4, Zenon
    <3> HIDE DEF after, reached
    <3>5. ContextBut(after, added)
      <4>1. (after.matches \ (after.matchesWithoutContextLines \cup added)) \cup after.marks
              = (m.matches \ removed) \cup m.marks
        BY <1>2, <3>4
      <4>2. m.contextLines \cap m.marks = {}
        BY <1>m DEF ContextInv
      <4>3. Covers(after, (after.matches \ (after.matchesWithoutContextLines \cup added)) \cup after.marks, {})
        BY <3>4, <4>1
      <4>4. after.contextLines \cap after.marks = {}
        BY <3>3, <3>4, <4>2
      <4> QED
        BY <3>4, <4>3, <4>4 DEF ContextBut
    <3>6. DisplayedBut(after, added \cup (u.changed \cup removed \cup reached))
      <4>1. Differs(start, n, u.changed)
        BY <2>4, <2>6, <2>9 DEF Differs
      <4>2. DisplayedBut(n, (added \cup removed) \cup u.changed)
        BY <2>5, <4>1, DiffersDisplay
      <4>3. Differs(n, after, reached)
        BY <2>6, <3>4 DEF Differs
      <4>4. DisplayedBut(after, ((added \cup removed) \cup u.changed) \cup reached)
        BY <4>2, <4>3, DiffersDisplay
      <4>5. ((added \cup removed) \cup u.changed) \cup reached = added \cup (u.changed \cup removed \cup reached)
        OBVIOUS
      <4> QED
        BY <4>4, <4>5
    <3>7. told = RefreshLinesAt(after, u.changed \cup removed \cup reached)
      BY <2>1, <2>6, <2>9
    <3>8. DisplayInvBut(told, added)
      BY <3>4, <3>5, <3>6, <3>7, RefreshAtKeeps
    <3>9. Same(after, told)
      BY <3>4, <3>6, <3>7, RefreshAtBut
    <3>10. told.matches = before.matches /\ told.rewritten = TRUE /\ told.shown = m.shown
      BY <3>4, <3>9 DEF Same
    <3> QED
      BY <1>2, <1>4, <3>8, <3>10 DEF before
  <2> QED
    BY <2>8, <2>9
<1> QED
  BY <1>3, <1>4

\* rewritten(), where it does not hold that only the end changed.
LEMMA UnlessFields ==
    ASSUME NEW m \in Members, NEW holds \in BOOLEAN
    PROVE  LET n == RewrittenUnless(holds, m) IN
           /\ n \in Members /\ (~n.rewritten => ~m.rewritten /\ holds)
           /\ \A but : DisplayedBut(m, but) => DisplayedBut(n, but)
           /\ \A but : ContextBut(m, but) => ContextBut(n, but)
           /\ ContextInv(m) => ContextInv(n)
           /\ n.matches = m.matches /\ n.marks = m.marks /\ n.shown = m.shown
           /\ n.contextLines = m.contextLines
<1>1. CASE holds
  BY <1>1 DEF RewrittenUnless
<1>2. CASE ~holds
  <2>1. RewrittenUnless(holds, m) = Rewritten(m)
    BY <1>2 DEF RewrittenUnless
  <2> QED
    BY <2>1, RewrittenFields
<1> QED
  BY <1>1, <1>2

\* matchesArrived(), and what is true where it tells no rewrite.
LEMMA MatchesArrivedKeeps ==
    ASSUME NEW m, NEW added \in SUBSET m.matches, DisplayInvBut(m, added)
    PROVE  LET n == MatchesArrived(m, added) IN
           /\ DisplayInv(n) /\ n.shown = m.shown
           /\ n.matches = m.matches /\ n.marks = m.marks /\ n.contextLines = m.contextLines
           /\ ~n.rewritten => ~m.rewritten /\ AllAfter(added, Former(m, added))
<1> DEFINE told == RewrittenUnless(ComeAfterEverything(m, added), m)
           waiting == Waiting(told, added)
           n == MatchesArrived(m, added)
<1>1. m \in Members /\ DisplayedBut(m, added) /\ ContextBut(m, added)
  BY DEF DisplayInvBut
<1>2. ComeAfterEverything(m, added) \in BOOLEAN
  BY DEF ComeAfterEverything, AllAfter
<1>3. /\ told \in Members /\ (~told.rewritten => ~m.rewritten /\ ComeAfterEverything(m, added))
      /\ DisplayedBut(told, added) /\ ContextBut(told, added)
      /\ told.matches = m.matches /\ told.marks = m.marks /\ told.shown = m.shown
      /\ told.contextLines = m.contextLines
  BY <1>1, <1>2, UnlessFields
<1> HIDE DEF told
<1>4. /\ waiting \in Members /\ ContextInv(waiting) /\ DisplayedBut(waiting, added)
      /\ waiting.matches = m.matches /\ waiting.marks = m.marks /\ waiting.rewritten = told.rewritten
  BY <1>3, WaitingKeeps
<1>5. waiting.shown = told.shown /\ waiting.contextLines = told.contextLines
  BY <1>3 DEF Waiting, Members
<1> HIDE DEF waiting
<1>6. n = RefreshLinesAt(waiting, added)
  BY DEF MatchesArrived, waiting, told
<1>7. DisplayedBut(waiting, {} \cup added)
  BY <1>4 DEF DisplayedBut
<1>8. DisplayInv(n)
  BY <1>4, <1>6, <1>7, RefreshAtKeeps
<1>9. Same(waiting, n)
  BY <1>4, <1>6, <1>7, RefreshAtBut
<1> HIDE DEF n
<1>10. /\ n.matches = m.matches /\ n.marks = m.marks /\ n.shown = m.shown
       /\ n.contextLines = m.contextLines /\ n.rewritten = told.rewritten
  BY <1>3, <1>4, <1>5, <1>9 DEF Same
<1> QED
  BY <1>3, <1>8, <1>10 DEF n, ComeAfterEverything

\* searchCompleted(), likewise.
LEMMA SearchCompletedKeeps ==
    ASSUME nbLogLines \in 0..MaxLines, NEW m, NEW added \in SUBSET m.matches, DisplayInvBut(m, added)
    PROVE  LET n == SearchCompleted(m, added) IN
           /\ DisplayInv(n) /\ n.shown = m.shown
           /\ n.matches = m.matches /\ n.marks = m.marks
           /\ ~n.rewritten =>
                 /\ ~m.rewritten /\ AllAfter(added, Former(m, added))
                 /\ \E changed : /\ AllAfter(changed \ Reaching(m), Former(m, added))
                                 /\ n.contextLines \ changed = m.contextLines \ changed
<1> DEFINE waiting == Waiting(m, added)
           u == UpdateContextLines(waiting)
           un == u.members
           contextLinesChanged == u.changed \ Reaching(m)
           appended == /\ ComeAfterEverything(m, added)
                       /\ AllAfter(contextLinesChanged, Former(m, added))
           told == RewrittenUnless(appended, un)
           n == SearchCompleted(m, added)
<1>1. m \in Members /\ DisplayedBut(m, added) /\ ContextBut(m, added)
  BY DEF DisplayInvBut
<1>2. /\ waiting \in Members /\ ContextInv(waiting) /\ DisplayedBut(waiting, added)
      /\ waiting.matches = m.matches /\ waiting.marks = m.marks /\ waiting.rewritten = m.rewritten
  BY <1>1, WaitingKeeps
<1>3. waiting.shown = m.shown /\ waiting.contextLines = m.contextLines
  BY <1>1 DEF Waiting, Members
<1>4. n = IF u.everywhere THEN RefreshLines(Rewritten(un))
          ELSE RefreshLinesAt(told, u.changed \cup added)
  BY DEF SearchCompleted, Reaching
<1>5. ContextBut(waiting, {})
  BY <1>2, ButLess
<1> HIDE DEF waiting
<1>6. /\ un \in Members
      /\ un.matches = m.matches /\ un.marks = m.marks /\ un.shown = m.shown
      /\ un.rewritten = m.rewritten
      /\ (u.everywhere <=> Stale(waiting))
      /\ ~Stale(waiting) => un.contextLines \ u.changed = m.contextLines \ u.changed
  BY <1>2, <1>3, UpdateFields
<1>7. /\ u.everywhere => ContextInv(un)
      /\ ~u.everywhere => /\ DisplayedBut(un, added \cup u.changed) /\ un.contextLinesUpToDate = TRUE
                          /\ un.contextLinesCount = 0 => un.contextLines = {}
                          /\ un.contextLines \cap un.marks = {}
                          /\ un.matchesWithoutContextLines = {}
                          /\ un.contextLines \subseteq 0..(un.contextLinesEnd - 1)
                          /\ Covers(un, (un.matches \ {}) \cup un.marks, {})
  BY <1>2, <1>5, UpdateKeeps
<1> HIDE DEF u, un
<1>8. CASE u.everywhere
  <2>1. /\ Rewritten(un) \in Members /\ Rewritten(un).rewritten = TRUE /\ ContextInv(Rewritten(un))
        /\ Rewritten(un).matches = m.matches /\ Rewritten(un).marks = m.marks
        /\ Rewritten(un).shown = m.shown
    BY <1>6, <1>7, <1>8, RewrittenFields
  <2>2. DisplayInv(n) /\ Same(Rewritten(un), n)
    BY <1>4, <1>8, <2>1, RefreshKeeps, RefreshFields
  <2> HIDE DEF n
  <2>3. /\ n.matches = m.matches /\ n.marks = m.marks /\ n.shown = m.shown /\ n.rewritten = TRUE
    BY <2>1, <2>2 DEF Same
  <2> QED
    BY <2>2, <2>3 DEF n
<1>9. CASE ~u.everywhere
  <2>1. appended \in BOOLEAN
    BY DEF ComeAfterEverything, AllAfter
  <2>2. ContextInv(un)
    <3>1. (un.matches \ {}) \cup un.marks = (un.matches \ un.matchesWithoutContextLines) \cup un.marks
      BY <1>7, <1>9
    <3> QED
      BY <1>7, <1>9, <3>1 DEF ContextInv
  <2> HIDE DEF appended
  <2>3. /\ told \in Members /\ (~told.rewritten => ~un.rewritten /\ appended)
        /\ DisplayedBut(told, added \cup u.changed) /\ ContextInv(told)
        /\ told.matches = m.matches /\ told.marks = m.marks /\ told.shown = m.shown
        /\ told.contextLines = un.contextLines
    BY <1>6, <1>7, <1>9, <2>1, <2>2, UnlessFields
  <2> HIDE DEF told
  <2>4. DisplayedBut(told, {} \cup (u.changed \cup added))
    <3>1. {} \cup (u.changed \cup added) = added \cup u.changed
      OBVIOUS
    <3> QED
      BY <2>3, <3>1
  <2>5. n = RefreshLinesAt(told, u.changed \cup added)
    BY <1>4, <1>9
  <2> HIDE DEF n
  <2>6. DisplayInv(n)
    BY <2>3, <2>4, <2>5, RefreshAtKeeps
  <2>7. Same(told, n)
    BY <2>3, <2>4, <2>5, RefreshAtBut
  <2>8. /\ n.matches = m.matches /\ n.marks = m.marks /\ n.shown = m.shown
        /\ n.contextLines = un.contextLines /\ n.rewritten = told.rewritten
    BY <2>3, <2>7 DEF Same
  <2>9. ASSUME ~n.rewritten
        PROVE  /\ ~m.rewritten /\ AllAfter(added, Former(m, added))
               /\ \E changed : /\ AllAfter(changed \ Reaching(m), Former(m, added))
                               /\ n.contextLines \ changed = m.contextLines \ changed
    <3>1. ~un.rewritten /\ appended
      BY <2>3, <2>8, <2>9
    <3>2. AllAfter(added, Former(m, added)) /\ AllAfter(u.changed \ Reaching(m), Former(m, added))
      BY <3>1 DEF appended, ComeAfterEverything
    <3>3. n.contextLines \ u.changed = m.contextLines \ u.changed
      BY <1>6, <1>9, <2>8
    <3> QED
      BY <1>6, <3>1, <3>2, <3>3
  <2> QED
    BY <2>6, <2>8, <2>9 DEF n
<1> QED
  BY <1>8, <1>9

\* Setting the Marks of the members, and telling a rewrite.
LEMMA MarksFields ==
    ASSUME NEW m \in Members, NEW marks \in SUBSET LogLines
    PROVE  LET n == Rewritten([m EXCEPT !.marks = marks]) IN
           /\ n \in Members /\ n.rewritten = TRUE
           /\ n.matches = m.matches /\ n.marks = marks /\ n.shown = m.shown /\ n.source = m.source
           /\ n.combinedLines = m.combinedLines /\ n.contextLines = m.contextLines
           /\ n.contextLinesCount = m.contextLinesCount
           /\ n.contextLinesUpToDate = m.contextLinesUpToDate
           /\ n.contextLinesEnd = m.contextLinesEnd
           /\ n.matchesWithoutContextLines = m.matchesWithoutContextLines
<1> DEFINE before == [m EXCEPT !.marks = marks]
<1>1. /\ before \in Members
      /\ before.matches = m.matches /\ before.marks = marks /\ before.shown = m.shown
      /\ before.source = m.source
      /\ before.combinedLines = m.combinedLines /\ before.contextLines = m.contextLines
      /\ before.contextLinesCount = m.contextLinesCount
      /\ before.contextLinesUpToDate = m.contextLinesUpToDate
      /\ before.contextLinesEnd = m.contextLinesEnd
      /\ before.matchesWithoutContextLines = m.matchesWithoutContextLines
  BY DEF Members
<1> HIDE DEF before
<1> QED
  BY <1>1, RewrittenFields DEF before

\* markToggled() of a Mark set.
LEMMA MarkAddedKeeps ==
    ASSUME nbLogLines \in 0..MaxLines, NEW m, DisplayInv(m), NEW line \in LogLines, line \notin m.marks
    PROVE  LET n == MarkToggled([m EXCEPT !.marks = @ \cup {line}], line) IN
           DisplayInv(n) /\ n.shown = m.shown /\ n.rewritten = TRUE
<1> DEFINE marks == m.marks \cup {line}
           before == [m EXCEPT !.marks = marks]
           start == Rewritten(before)
           update == UpdateContextLines(start)
           u == update.members
           its == ContextLinesAround(u, {line}, u.contextLinesEnd)
           after == IF u.contextLinesCount = 0 THEN u
                    ELSE [u EXCEPT !.contextLines = (@ \ {line}) \cup its]
           n == MarkToggled([m EXCEPT !.marks = @ \cup {line}], line)
           served == (m.matches \ m.matchesWithoutContextLines) \cup m.marks
<1>m. m \in Members /\ DisplayedBut(m, {}) /\ ContextInv(m)
  BY DEF DisplayInv, DisplayedBut, Lines
<1>1. marks \in SUBSET LogLines
  BY <1>m DEF Members
<1> HIDE DEF marks
<1>2. /\ start \in Members /\ start.rewritten = TRUE
      /\ start.matches = m.matches /\ start.marks = marks
      /\ start.shown = m.shown /\ start.source = m.source
      /\ start.combinedLines = m.combinedLines /\ start.contextLines = m.contextLines
      /\ start.contextLinesCount = m.contextLinesCount
      /\ start.contextLinesUpToDate = m.contextLinesUpToDate
      /\ start.contextLinesEnd = m.contextLinesEnd
      /\ start.matchesWithoutContextLines = m.matchesWithoutContextLines
  BY <1>m, <1>1, MarksFields
<1>3. before.marks = marks /\ before.contextLinesCount = m.contextLinesCount /\ line \in marks
  BY <1>m DEF Members, marks
<1> HIDE DEF before
<1>4. /\ u \in Members
      /\ u.matches = m.matches /\ u.marks = marks /\ u.shown = m.shown
      /\ u.contextLinesCount = m.contextLinesCount /\ u.rewritten = TRUE
      /\ (update.everywhere <=> Stale(start))
      /\ Stale(start) => ContextInv(u)
      /\ ~Stale(start) =>
            /\ u.source = m.source /\ u.combinedLines = m.combinedLines
            /\ u.contextLines \ update.changed = m.contextLines \ update.changed
            /\ u.matchesWithoutContextLines = {} /\ u.contextLinesUpToDate = TRUE
            /\ u.contextLinesEnd = nbLogLines
  <2> HIDE DEF start
  <2> QED
    BY <1>2, UpdateFields
<1>5. n = IF update.everywhere THEN RefreshLines(u)
          ELSE RefreshLinesAt(after, update.changed \cup {line} \cup its \cup {})
  <2>1. [m EXCEPT !.marks = @ \cup {line}] = before
    BY DEF before, marks
  <2>2. n = MarkToggled(before, line)
    BY <2>1
  <2> QED
    BY <1>3, <1>4, <2>2 DEF MarkToggled
<1> HIDE DEF start
<1>6. CASE Stale(start)
  <2> HIDE DEF update, n
  <2>1. n = RefreshLines(u) /\ ContextInv(u)
    BY <1>4, <1>5, <1>6
  <2>2. DisplayInv(n) /\ Same(u, n)
    BY <1>4, <2>1, RefreshKeeps, RefreshFields
  <2>3. n.shown = m.shown /\ n.rewritten = TRUE
    BY <1>4, <2>2 DEF Same
  <2> QED
    BY <2>2, <2>3 DEF n
<1>7. CASE ~Stale(start)
  <2>1. /\ Covers(m, served, {}) /\ served \in SUBSET Reaching(m)
        /\ m.contextLines \subseteq 0..(m.contextLinesEnd - 1)
    BY <1>m, <1>2, <1>7 DEF ContextInv, Stale, Reaching
  <2>2. Covers(start, served, {})
    <3>1. Reaching(m) \ Reaching(start) = {}
      BY <1>2 DEF Reaching, marks
    <3> HIDE DEF served
    <3> QED
      BY <1>m, <1>2, <2>1, <3>1, CoversChange
  <2>3. /\ Covers(u, served \cup start.matchesWithoutContextLines, {})
        /\ u.contextLines \subseteq 0..(u.contextLinesEnd - 1)
        /\ u.contextLines \cap start.marks \subseteq start.contextLines
        /\ start.contextLinesCount = 0 => u.contextLines = {}
    <3>1. /\ start \in Members /\ start.matchesWithoutContextLines \subseteq start.matches
          /\ start.contextLinesCount = 0 => start.contextLines = {}
          /\ start.contextLines \subseteq 0..(start.contextLinesEnd - 1)
          /\ served \in SUBSET Reaching(start)
      BY <1>m, <1>2, <2>1 DEF ContextInv, Reaching, marks
    <3> HIDE DEF served
    <3> QED
      BY <1>7, <2>2, <3>1, UpdateCovers
  <2>4. Covers(u, m.matches \cup m.marks, {})
    <3>1. served \cup start.matchesWithoutContextLines = m.matches \cup m.marks
      BY <1>m, <1>2 DEF ContextInv
    <3> QED
      BY <2>3, <3>1
  <2>5. m.contextLines \cap m.marks = {} /\ (m.contextLinesCount = 0 => m.contextLines = {})
    BY <1>m DEF ContextInv
  <2> HIDE DEF update, u
  <2>6. /\ {line} \in SUBSET LogLines /\ Reaching(u) \in SUBSET LogLines
        /\ m.matches \cup m.marks \in SUBSET LogLines
        /\ u.contextLinesEnd \in 0..MaxLines
        /\ Reaching(u) = m.matches \cup m.marks \cup {line} /\ u.contextLinesCount \in Nat
    BY <1>m, <1>4 DEF Members, Reaching, marks
  <2>7. /\ \A l : l \in its <=>
              /\ u.contextLinesCount > 0 /\ l \in Nat /\ l < u.contextLinesEnd /\ l \notin Reaching(u)
              /\ l \in Near(line, u.contextLinesCount)
        /\ \A l : l \in ContextLinesAround(u, Reaching(u), u.contextLinesEnd) <=>
              /\ u.contextLinesCount > 0 /\ l \in Nat /\ l < u.contextLinesEnd /\ l \notin Reaching(u)
              /\ \E other \in Reaching(u) : l \in Near(other, u.contextLinesCount)
        /\ \A l : l \in ContextLinesAround(u, m.matches \cup m.marks, u.contextLinesEnd) <=>
              /\ u.contextLinesCount > 0 /\ l \in Nat /\ l < u.contextLinesEnd /\ l \notin Reaching(u)
              /\ \E other \in m.matches \cup m.marks : l \in Near(other, u.contextLinesCount)
        /\ its \in SUBSET LogLines
    <3>1. /\ \A l : l \in its <=>
                /\ u.contextLinesCount > 0 /\ l \in Nat /\ l < u.contextLinesEnd /\ l \notin Reaching(u)
                /\ \E other \in {line} : l \in Near(other, u.contextLinesCount)
          /\ its \in SUBSET LogLines
      BY <1>4, <2>6, AroundFacts
    <3> HIDE DEF its
    <3> QED
      BY <1>4, <2>6, <3>1, AroundFacts
  <2>8. /\ after \in Members
        /\ after.matches = m.matches /\ after.marks = marks /\ after.shown = m.shown
        /\ after.contextLinesCount = m.contextLinesCount /\ after.rewritten = TRUE
        /\ after.source = m.source /\ after.combinedLines = m.combinedLines
        /\ after.matchesWithoutContextLines = {} /\ after.contextLinesUpToDate = TRUE
        /\ after.contextLinesEnd = u.contextLinesEnd
        /\ after.contextLines = IF u.contextLinesCount = 0 THEN u.contextLines
                                ELSE (u.contextLines \ {line}) \cup its
    <3> HIDE DEF its
    <3> DEFINE held == (u.contextLines \ {line}) \cup its
    <3>1. CASE u.contextLinesCount = 0
      BY <1>4, <1>7, <3>1
    <3>2. CASE u.contextLinesCount # 0
      <4>1. held \in SUBSET LogLines
        BY <1>4, <2>7 DEF Members
      <4>2. after = [u EXCEPT !.contextLines = held]
        BY <3>2
      <4> HIDE DEF held, after
      <4>3. /\ after \in Members
            /\ after.matches = u.matches /\ after.marks = u.marks /\ after.shown = u.shown
            /\ after.contextLinesCount = u.contextLinesCount /\ after.rewritten = u.rewritten
            /\ after.source = u.source /\ after.combinedLines = u.combinedLines
            /\ after.matchesWithoutContextLines = u.matchesWithoutContextLines
            /\ after.contextLinesUpToDate = u.contextLinesUpToDate
            /\ after.contextLinesEnd = u.contextLinesEnd /\ after.contextLines = held
        BY ONLY <1>4, <4>1, <4>2 DEF Members
      <4> QED
        BY <1>4, <1>7, <3>2, <4>3 DEF held
    <3> QED
      BY <3>1, <3>2
  <2> HIDE DEF after, its
  <2>9. /\ Reaching(after) = Reaching(u)
        /\ \A lines, end : ContextLinesAround(after, lines, end) = ContextLinesAround(u, lines, end)
    BY <1>4, <2>8 DEF Reaching, ContextLinesAround
  <2>10. Covers(after, Reaching(after), {})
    <3>1. CASE u.contextLinesCount = 0
      <4>1. after.contextLines = {}
        BY <1>2, <1>4, <2>3, <2>8, <3>1
      <4> QED
        BY <1>4, <2>8, <3>1, <4>1 DEF Covers, ContextLinesAround
    <3>2. CASE u.contextLinesCount # 0
      <4>1. ContextLinesAround(u, Reaching(u), u.contextLinesEnd) \subseteq after.contextLines
        BY <2>4, <2>6, <2>7, <2>8, <3>2 DEF Covers
      <4>2. after.contextLines \ Reaching(u) \subseteq ContextLinesAround(u, Reaching(u), u.contextLinesEnd)
        BY <2>4, <2>6, <2>7, <2>8, <3>2 DEF Covers
      <4> QED
        BY <2>8, <2>9, <4>1, <4>2 DEF Covers
    <3> QED
      BY <3>1, <3>2
  <2>11. ContextInv(after)
    <3>1. (after.matches \ after.matchesWithoutContextLines) \cup after.marks = Reaching(after)
      BY <2>8 DEF Reaching
    <3>2. after.contextLines \subseteq 0..(after.contextLinesEnd - 1)
      <4>1. \A l \in its : l \in 0..(u.contextLinesEnd - 1)
        BY <2>6, <2>7
      <4> QED
        BY <2>3, <2>8, <4>1
    <3>3. after.contextLinesCount = 0 => after.contextLines = {}
      BY <1>2, <1>4, <2>3, <2>8
    <3>4. after.contextLines \cap after.marks = {}
      <4>1. CASE u.contextLinesCount = 0
        BY <1>2, <1>4, <2>3, <2>8, <4>1
      <4>2. CASE u.contextLinesCount # 0
        <5>1. \A l \in its : l \notin marks
          BY <1>4, <2>7 DEF Reaching
        <5>2. \A l \in u.contextLines : l \in marks => l = line
          BY <1>2, <2>3, <2>5 DEF marks
        <5> QED
          BY <2>8, <4>2, <5>1, <5>2
      <4> QED
        BY <4>1, <4>2
    <3> QED
      BY <2>8, <2>10, <3>1, <3>2, <3>3, <3>4 DEF ContextInv
  <2>12. DisplayedBut(after, {} \cup (update.changed \cup {line} \cup its \cup {}))
    <3>1. Differs(m, after, update.changed \cup {line} \cup its \cup {})
      BY <1>4, <1>7, <2>8 DEF Differs, marks
    <3> QED
      BY <1>m, <3>1, DiffersDisplay
  <2>13. n = RefreshLinesAt(after, update.changed \cup {line} \cup its \cup {})
    BY <1>4, <1>5, <1>7
  <2> HIDE DEF n
  <2>14. DisplayInv(n)
    BY <2>8, <2>11, <2>12, <2>13, RefreshAtKeeps
  <2>15. Same(after, n)
    BY <2>8, <2>12, <2>13, RefreshAtBut
  <2>16. n.shown = m.shown /\ n.rewritten = TRUE
    BY <2>8, <2>15 DEF Same
  <2> QED
    BY <2>14, <2>16 DEF n
<1> QED
  BY <1>6, <1>7

\* markToggled() of a Mark removed.
LEMMA MarkRemovedKeeps ==
    ASSUME nbLogLines \in 0..MaxLines, NEW m, DisplayInv(m), NEW line \in m.marks
    PROVE  LET n == MarkToggled([m EXCEPT !.marks = @ \ {line}], line) IN
           DisplayInv(n) /\ n.shown = m.shown /\ n.rewritten = TRUE
<1> DEFINE marks == m.marks \ {line}
           before == [m EXCEPT !.marks = marks]
           start == Rewritten(before)
           update == UpdateContextLines(start)
           u == update.members
           isAlone == line \notin m.matches
           after == IF u.contextLinesCount # 0 /\ isAlone THEN DropContextLinesOf(u, {line}) ELSE u
           reached == IF isAlone THEN Reached(u, line) ELSE {}
           n == MarkToggled([m EXCEPT !.marks = @ \ {line}], line)
           served == (m.matches \ m.matchesWithoutContextLines) \cup marks
           all == (m.matches \ m.matchesWithoutContextLines) \cup m.marks
           exempt == IF isAlone THEN Near(line, m.contextLinesCount) ELSE {}
<1>m. m \in Members /\ DisplayedBut(m, {}) /\ ContextInv(m)
  BY DEF DisplayInv, DisplayedBut, Lines
<1>1. marks \in SUBSET LogLines /\ line \in LogLines
  BY <1>m DEF Members
<1> HIDE DEF marks
<1>2. /\ start \in Members /\ start.rewritten = TRUE
      /\ start.matches = m.matches /\ start.marks = marks
      /\ start.shown = m.shown /\ start.source = m.source
      /\ start.combinedLines = m.combinedLines /\ start.contextLines = m.contextLines
      /\ start.contextLinesCount = m.contextLinesCount
      /\ start.contextLinesUpToDate = m.contextLinesUpToDate
      /\ start.contextLinesEnd = m.contextLinesEnd
      /\ start.matchesWithoutContextLines = m.matchesWithoutContextLines
  BY <1>m, <1>1, MarksFields
<1>3. /\ before.marks = marks /\ before.contextLinesCount = m.contextLinesCount
      /\ before.matches = m.matches /\ line \notin marks
  BY <1>m DEF Members, marks
<1> HIDE DEF before
<1>4. /\ u \in Members
      /\ u.matches = m.matches /\ u.marks = marks /\ u.shown = m.shown
      /\ u.contextLinesCount = m.contextLinesCount /\ u.rewritten = TRUE
      /\ (update.everywhere <=> Stale(start))
      /\ Stale(start) => ContextInv(u)
      /\ ~Stale(start) =>
            /\ u.source = m.source /\ u.combinedLines = m.combinedLines
            /\ u.contextLines \ update.changed = m.contextLines \ update.changed
            /\ u.matchesWithoutContextLines = {} /\ u.contextLinesUpToDate = TRUE
            /\ u.contextLinesEnd = nbLogLines
  <2> HIDE DEF start
  <2> QED
    BY <1>2, UpdateFields
<1>5. n = IF update.everywhere THEN RefreshLines(u)
          ELSE RefreshLinesAt(after, update.changed \cup {line} \cup {} \cup reached)
  <2>1. [m EXCEPT !.marks = @ \ {line}] = before
    BY DEF before, marks
  <2>2. n = MarkToggled(before, line)
    BY <2>1
  <2> QED
    BY <1>3, <1>4, <2>2 DEF MarkToggled
<1> HIDE DEF start
<1>6. CASE Stale(start)
  <2> HIDE DEF update, n
  <2>1. n = RefreshLines(u) /\ ContextInv(u)
    BY <1>4, <1>5, <1>6
  <2>2. DisplayInv(n) /\ Same(u, n)
    BY <1>4, <2>1, RefreshKeeps, RefreshFields
  <2>3. n.shown = m.shown /\ n.rewritten = TRUE
    BY <1>4, <2>2 DEF Same
  <2> QED
    BY <2>2, <2>3 DEF n
<1>7. CASE ~Stale(start)
  <2>1. /\ Covers(m, all, {}) /\ all \in SUBSET Reaching(m)
        /\ m.contextLines \subseteq 0..(m.contextLinesEnd - 1)
    BY <1>m, <1>2, <1>7 DEF ContextInv, Stale, Reaching
  <2>2. Covers(start, served, exempt)
    <3>1. \A other \in Reaching(m) \ Reaching(start) : Near(other, m.contextLinesCount) \subseteq exempt
      BY <1>2 DEF Reaching, marks
    <3>2. served \in SUBSET all
      BY DEF marks
    <3> HIDE DEF served, all, exempt
    <3> QED
      BY <1>m, <1>2, <2>1, <3>1, <3>2, CoversChange
  <2>3. /\ Covers(u, served \cup start.matchesWithoutContextLines, exempt)
        /\ u.contextLines \subseteq 0..(u.contextLinesEnd - 1)
        /\ u.contextLines \cap start.marks \subseteq start.contextLines
        /\ start.contextLinesCount = 0 => u.contextLines = {}
    <3>1. /\ start \in Members /\ start.matchesWithoutContextLines \subseteq start.matches
          /\ start.contextLinesCount = 0 => start.contextLines = {}
          /\ start.contextLines \subseteq 0..(start.contextLinesEnd - 1)
          /\ served \in SUBSET Reaching(start)
      BY <1>m, <1>2, <2>1 DEF ContextInv, Reaching
    <3> HIDE DEF served, exempt
    <3> QED
      BY <1>7, <2>2, <3>1, UpdateCovers
  <2>4. Covers(u, Reaching(u), exempt)
    <3>1. served \cup start.matchesWithoutContextLines = Reaching(u)
      BY <1>m, <1>2, <1>4 DEF ContextInv, Reaching
    <3> QED
      BY <2>3, <3>1
  <2>5. m.contextLines \cap marks = {} /\ (m.contextLinesCount = 0 => m.contextLines = {})
    BY <1>m DEF ContextInv, marks
  <2>6. u.contextLinesCount = 0 => u.contextLines = {}
    BY <1>2, <1>4, <2>3
  <2>7. u.contextLines \cap marks = {}
    BY <1>2, <2>3, <2>5
  <2> HIDE DEF update, u
  <2>8. /\ after \in Members
        /\ after.matches = m.matches /\ after.marks = marks /\ after.shown = m.shown
        /\ after.contextLinesCount = m.contextLinesCount /\ after.rewritten = TRUE
        /\ after.source = m.source /\ after.combinedLines = m.combinedLines
        /\ after.matchesWithoutContextLines = {} /\ after.contextLinesUpToDate = TRUE
        /\ Covers(after, Reaching(u), {})
        /\ after.contextLines \subseteq 0..(after.contextLinesEnd - 1)
        /\ after.contextLines \cap marks = {}
        /\ after.contextLines \ reached = u.contextLines \ reached
        /\ after.contextLinesCount = 0 => after.contextLines = {}
    <3>1. CASE u.contextLinesCount = 0
      <4>1. after = u
        BY <3>1
      <4>2. Covers(u, Reaching(u), {})
        BY <2>6, <3>1 DEF Covers, ContextLinesAround
      <4> HIDE DEF after, reached
      <4> QED
        BY <1>4, <1>7, <2>3, <2>6, <2>7, <4>1, <4>2
    <3>2. CASE u.contextLinesCount # 0 /\ ~isAlone
      <4>1. after = u /\ exempt = {}
        BY <3>2
      <4> HIDE DEF after, reached
      <4> QED
        BY <1>4, <1>7, <2>3, <2>4, <2>6, <2>7, <4>1
    <3>3. CASE u.contextLinesCount # 0 /\ isAlone
      <4>1. u.contextLinesCount > 0
        BY <1>4, <3>3 DEF Members
      <4>2. after = DropContextLinesOf(u, {line}) /\ reached = UNION {Reached(u, l) : l \in {line}}
        BY <3>3
      <4>3. \A l \in exempt : \E other \in {line} : l \in Near(other, u.contextLinesCount)
        BY <1>4, <3>3
      <4> HIDE DEF after, reached, exempt
      <4>4. {line} \in SUBSET LogLines /\ Reaching(u) \in SUBSET Reaching(u)
        BY <1>1
      <4>5. /\ after \in Members
            /\ after.matches = u.matches /\ after.marks = u.marks /\ after.shown = u.shown
            /\ after.contextLinesCount = u.contextLinesCount /\ after.rewritten = u.rewritten
            /\ after.source = u.source /\ after.combinedLines = u.combinedLines
            /\ after.matchesWithoutContextLines = u.matchesWithoutContextLines
            /\ after.contextLinesUpToDate = u.contextLinesUpToDate
            /\ Covers(after, Reaching(u), {})
            /\ after.contextLines \subseteq 0..(after.contextLinesEnd - 1)
            /\ after.contextLines \cap u.marks \subseteq u.contextLines
            /\ after.contextLines \ reached = u.contextLines \ reached
        BY <1>4, <2>3, <2>4, <4>1, <4>2, <4>3, <4>4, DropCovers, ZenonT(60)
      <4>6. after.contextLines \cap marks = {}
        BY <1>4, <2>7, <4>5
      <4> QED
        BY <1>4, <1>7, <4>1, <4>5, <4>6
    <3> HIDE DEF after, reached, isAlone
    <3> QED
      BY <3>1, <3>2, <3>3
  <2> HIDE DEF after, reached
  <2>9. ContextInv(after)
    <3>1. (after.matches \ after.matchesWithoutContextLines) \cup after.marks = Reaching(u)
      BY <1>4, <2>8 DEF Reaching
    <3> QED
      BY <2>8, <3>1 DEF ContextInv
  <2>10. DisplayedBut(after, {} \cup (update.changed \cup {line} \cup {} \cup reached))
    <3>1. Differs(m, after, update.changed \cup {line} \cup {} \cup reached)
      BY <1>4, <1>7, <2>8 DEF Differs, marks
    <3> QED
      BY <1>m, <3>1, DiffersDisplay
  <2>11. n = RefreshLinesAt(after, update.changed \cup {line} \cup {} \cup reached)
    BY <1>4, <1>5, <1>7
  <2> HIDE DEF n
  <2>12. DisplayInv(n)
    BY <2>8, <2>9, <2>10, <2>11, RefreshAtKeeps
  <2>13. Same(after, n)
    BY <2>8, <2>10, <2>11, RefreshAtBut
  <2>14. n.shown = m.shown /\ n.rewritten = TRUE
    BY <2>8, <2>13 DEF Same
  <2> QED
    BY <2>12, <2>14 DEF n
<1> QED
  BY <1>6, <1>7

\* Context Lines that are not up to date owe nothing.
LEMMA NoneOwed ==
    ASSUME NEW m \in Members, ~m.contextLinesUpToDate, m.matchesWithoutContextLines = {},
           m.contextLines \cap m.marks = {}, m.contextLinesCount = 0 => m.contextLines = {}
    PROVE  DisplayInv(RefreshLines(m)) /\ Same(m, RefreshLines(m))
<1>1. ContextInv(m)
  BY DEF ContextInv
<1> QED
  BY <1>1, RefreshKeeps, RefreshFields

\* Everything computed again is right whatever was held.
LEMMA RebuildKeeps ==
    ASSUME nbLogLines \in 0..MaxLines, NEW m \in Members
    PROVE  LET n == RefreshLines(RebuildContextLines(m)) IN
           /\ DisplayInv(n) /\ n.shown = m.shown /\ n.rewritten = m.rewritten
<1> DEFINE r == RebuildContextLines(m)
           n == RefreshLines(r)
<1>1. /\ r \in Members /\ ContextInv(r) /\ r.shown = m.shown /\ r.rewritten = m.rewritten
  BY RebuildFields
<1> HIDE DEF r
<1>2. DisplayInv(n) /\ Same(r, n)
  BY <1>1, RefreshKeeps, RefreshFields
<1> HIDE DEF n
<1>3. n.shown = m.shown /\ n.rewritten = m.rewritten
  BY <1>1, <1>2 DEF Same
<1> QED
  BY <1>2, <1>3 DEF n, r

\* matchesArrived() and searchCompleted() of Matches replaced,
\* searchDiscarded().
LEMMA ReplacedKeeps ==
    ASSUME nbLogLines \in 0..MaxLines, NEW m, DisplayInv(m), NEW matches \in SUBSET LogLines
    PROVE  LET before == [m EXCEPT !.matches = matches] IN
           \A n \in {MatchesReplaced(before), SearchCompletedAnew(before), SearchDiscarded(before)} :
               DisplayInv(n) /\ n.shown = m.shown /\ n.rewritten = TRUE
<1> DEFINE before == [m EXCEPT !.matches = matches]
           told == Rewritten(before)
           replaced == [told EXCEPT !.contextLinesUpToDate = FALSE, !.matchesWithoutContextLines = {}]
           discarded == [told EXCEPT !.contextLines = {}, !.contextLinesUpToDate = FALSE,
                                     !.matchesWithoutContextLines = {}]
<1>m. /\ m \in Members /\ m.contextLines \cap m.marks = {}
      /\ m.contextLinesCount = 0 => m.contextLines = {}
  BY DEF DisplayInv, ContextInv
<1>1. /\ before \in Members /\ before.shown = m.shown /\ before.marks = m.marks
      /\ before.contextLines = m.contextLines /\ before.contextLinesCount = m.contextLinesCount
  BY <1>m DEF Members
<1> HIDE DEF before
<1>2. /\ told \in Members /\ told.rewritten = TRUE /\ told.shown = m.shown /\ told.marks = m.marks
      /\ told.contextLines = m.contextLines /\ told.contextLinesCount = m.contextLinesCount
  BY <1>1, RewrittenFields
<1> HIDE DEF told
<1>3. DisplayInv(RefreshLines(replaced)) /\ Same(replaced, RefreshLines(replaced))
  <2>1. /\ replaced \in Members /\ ~replaced.contextLinesUpToDate
        /\ replaced.matchesWithoutContextLines = {}
        /\ replaced.contextLines = m.contextLines /\ replaced.marks = m.marks
        /\ replaced.contextLinesCount = m.contextLinesCount
    BY <1>2 DEF Members
  <2> HIDE DEF replaced
  <2> QED
    BY <1>m, <2>1, NoneOwed
<1>4. DisplayInv(RefreshLines(discarded)) /\ Same(discarded, RefreshLines(discarded))
  <2>1. /\ discarded \in Members /\ ~discarded.contextLinesUpToDate
        /\ discarded.matchesWithoutContextLines = {} /\ discarded.contextLines = {}
    BY <1>2 DEF Members
  <2> HIDE DEF discarded
  <2> QED
    BY <2>1, NoneOwed
<1>5. /\ replaced.shown = m.shown /\ replaced.rewritten = TRUE
      /\ discarded.shown = m.shown /\ discarded.rewritten = TRUE
  BY <1>2 DEF Members
<1>6. /\ DisplayInv(RefreshLines(RebuildContextLines(told)))
      /\ RefreshLines(RebuildContextLines(told)).shown = m.shown
      /\ RefreshLines(RebuildContextLines(told)).rewritten = TRUE
  BY <1>2, RebuildKeeps
<1>7. /\ MatchesReplaced(before) = RefreshLines(replaced)
      /\ SearchCompletedAnew(before) = RefreshLines(RebuildContextLines(told))
      /\ SearchDiscarded(before) = RefreshLines(discarded)
  BY DEF MatchesReplaced, SearchCompletedAnew, SearchDiscarded, told
<1> HIDE DEF replaced, discarded
<1>8. /\ RefreshLines(replaced).shown = m.shown /\ RefreshLines(replaced).rewritten = TRUE
      /\ RefreshLines(discarded).shown = m.shown /\ RefreshLines(discarded).rewritten = TRUE
  BY <1>3, <1>4, <1>5 DEF Same
<1> QED
  BY <1>3, <1>4, <1>6, <1>7, <1>8 DEF before

\* What is shown is set.
LEMMA ShownKeeps ==
    ASSUME NEW m, DisplayInv(m), NEW shown \in SUBSET {"Match", "Mark", "Context"}
    PROVE  LET n == RefreshLines([Rewritten(m) EXCEPT !.shown = shown]) IN
           DisplayInv(n) /\ n.shown = shown /\ n.rewritten = TRUE
<1> DEFINE told == Rewritten(m)
           r == [told EXCEPT !.shown = shown]
           n == RefreshLines(r)
<1>m. m \in Members /\ ContextInv(m)
  BY DEF DisplayInv
<1>1. told \in Members /\ told.rewritten = TRUE /\ ContextInv(told)
  BY <1>m, RewrittenFields
<1> HIDE DEF told
<1>2. /\ r \in Members /\ r.rewritten = TRUE /\ r.shown = shown
      /\ r.matches = told.matches /\ r.marks = told.marks /\ r.contextLines = told.contextLines
      /\ r.contextLinesCount = told.contextLinesCount
      /\ r.contextLinesUpToDate = told.contextLinesUpToDate
      /\ r.contextLinesEnd = told.contextLinesEnd
      /\ r.matchesWithoutContextLines = told.matchesWithoutContextLines
  BY <1>1 DEF Members
<1> HIDE DEF r
<1>3. /\ Reaching(r) = Reaching(told)
      /\ \A lines, end : ContextLinesAround(r, lines, end) = ContextLinesAround(told, lines, end)
  BY <1>2 DEF Reaching, ContextLinesAround
<1>4. \A served : Covers(told, served, {}) => Covers(r, served, {})
  BY <1>2, <1>3 DEF Covers
<1>5. ContextInv(r)
  BY <1>1, <1>2, <1>4 DEF ContextInv
<1>6. DisplayInv(n) /\ Same(r, n)
  BY <1>2, <1>5, RefreshKeeps, RefreshFields
<1> HIDE DEF n
<1>7. n.shown = shown /\ n.rewritten = TRUE
  BY <1>2, <1>6 DEF Same
<1> QED
  BY <1>6, <1>7 DEF n, r, told

\* clearMarks() and setContextLinesCount().
LEMMA RecomputedKeeps ==
    ASSUME nbLogLines \in 0..MaxLines, NEW m, DisplayInv(m), NEW count \in Nat
    PROVE  \A r \in {[Rewritten(m) EXCEPT !.marks = {}], [Rewritten(m) EXCEPT !.contextLinesCount = count]} :
               LET n == RefreshLines(RebuildContextLines(r)) IN
               DisplayInv(n) /\ n.shown = m.shown /\ n.rewritten = TRUE
<1> DEFINE told == Rewritten(m)
<1>m. m \in Members
  BY DEF DisplayInv
<1>1. told \in Members /\ told.rewritten = TRUE /\ told.shown = m.shown
  BY <1>m, RewrittenFields
<1> HIDE DEF told
<1>2. ASSUME NEW r \in {[told EXCEPT !.marks = {}], [told EXCEPT !.contextLinesCount = count]}
      PROVE  r \in Members /\ r.rewritten = TRUE /\ r.shown = m.shown
  BY <1>1, <1>2 DEF Members
<1> QED
  BY <1>2, RebuildKeeps DEF told

\* Reading whether rewrites() changed.
LEMMA ReadKeeps ==
    ASSUME NEW m, DisplayInv(m)
    PROVE  LET n == [m EXCEPT !.rewritten = FALSE] IN
           /\ DisplayInv(n) /\ n.shown = m.shown /\ n.matches = m.matches /\ n.marks = m.marks
           /\ n.contextLines = m.contextLines /\ Lines(n) = Lines(m)
<1> DEFINE n == [m EXCEPT !.rewritten = FALSE]
<1>m. m \in Members /\ ContextInv(m) /\ Lines(m) = Shown(m)
  BY DEF DisplayInv
<1>1. /\ n \in Members
      /\ n.matches = m.matches /\ n.marks = m.marks /\ n.shown = m.shown /\ n.source = m.source
      /\ n.combinedLines = m.combinedLines /\ n.contextLines = m.contextLines
      /\ n.contextLinesCount = m.contextLinesCount
      /\ n.contextLinesUpToDate = m.contextLinesUpToDate /\ n.contextLinesEnd = m.contextLinesEnd
      /\ n.matchesWithoutContextLines = m.matchesWithoutContextLines
  BY <1>m DEF Members
<1> HIDE DEF n
<1>2. Shown(n) = Shown(m) /\ Reaching(n) = Reaching(m) /\ Lines(n) = Lines(m)
  BY <1>1 DEF Shown, MatchesShown, MarksShown, Reaching, Lines
<1>3. \A lines, end : ContextLinesAround(n, lines, end) = ContextLinesAround(m, lines, end)
  BY <1>1 DEF ContextLinesAround
<1>4. \A served : Covers(m, served, {}) => Covers(n, served, {})
  BY <1>1, <1>2, <1>3 DEF Covers
<1>5. ContextInv(n)
  BY <1>m, <1>1, <1>4 DEF ContextInv
<1> QED
  BY <1>m, <1>1, <1>2, <1>5 DEF DisplayInv, n

==============================================================================
