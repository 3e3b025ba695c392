----------------------------- MODULE SearchData -----------------------------
(***************************************************************************)
(* What the threads of a Search share (SearchData in                       *)
(* src/logdata/src/logfiltereddataworker.cpp): the Matches not yet taken,  *)
(* and how far the Log Lines were searched without a gap although blocks   *)
(* are combined in whatever order their matching ends.                     *)
(***************************************************************************)
EXTENDS Integers

\* No block was combined beyond the Log Lines searched without a gap.
NoneAhead == [first \in {} |-> 0]

\* until: searchedUntil_; ahead: searchedAhead_, from a block's first Log Line
\* to its end; found: newMatches_.
EmptyData == [until |-> 0, ahead |-> NoneAhead, found |-> {}]

Later(a, b) == IF a > b THEN a ELSE b

\* searchFrom()
SearchFrom(data, line) == [data EXCEPT !.until = line, !.ahead = NoneAhead]

\* What is searched without a gap once until is, the blocks in ahead joined
\* on in their order: the least line that no block starting at or before it
\* reaches beyond.
Joined(until, ahead) ==
    CHOOSE line \in {until} \cup {ahead[first] : first \in DOMAIN ahead} :
        /\ line >= until
        /\ \A first \in DOMAIN ahead : first <= line => ahead[first] <= line
        /\ \A other \in {until} \cup {ahead[first] : first \in DOMAIN ahead} :
              /\ other >= until
              /\ \A first \in DOMAIN ahead : first <= other => ahead[first] <= other
              => line <= other

\* addAll() of a block of the Log Lines first .. end - 1.
AddAll_TakesEnd(data, first, end, matches) ==
    [data EXCEPT !.until = Later(@, end), !.found = @ \cup matches]
AddAll(data, first, end, matches) ==
    IF first > data.until
    THEN [data EXCEPT
            !.found = @ \cup matches,
            !.ahead = [f \in DOMAIN @ \cup {first} |->
                          IF f # first THEN @[f]
                          ELSE IF first \in DOMAIN @ THEN Later(@[first], end) ELSE end]]
    ELSE LET until == Joined(Later(data.until, end), data.ahead)
         IN [data EXCEPT
               !.found = @ \cup matches,
               !.until = until,
               !.ahead = [f \in {f \in DOMAIN @ : f > until} |-> @[f]]]
=============================================================================
