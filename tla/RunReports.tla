----------------------------- MODULE RunReports -----------------------------
(***************************************************************************)
(* What whoever starts runs sees of a Background Run: runs are numbered as *)
(* they are started, and reported finished in that order, each once, until *)
(* the Background Run is shut down.  A run that a newer one superseded is  *)
(* reported finished in the end (backgroundrun.h, lines 127-152).          *)
(***************************************************************************)
EXTENDS Naturals, Sequences

CONSTANT MaxRuns    \* bound: how many runs are started

VARIABLES
    started,    \* runs started
    finished,   \* the runs reported finished, in the order reported
    closed      \* shut down

vars == <<started, finished, closed>>

Init == started = 0 /\ finished = <<>> /\ closed = FALSE

Start ==
    /\ ~closed
    /\ started < MaxRuns
    /\ started' = started + 1
    /\ UNCHANGED <<finished, closed>>

Finish ==
    /\ ~closed
    /\ Len(finished) < started
    /\ finished' = Append(finished, Len(finished) + 1)
    /\ UNCHANGED <<started, closed>>

Close ==
    /\ ~closed
    /\ closed' = TRUE
    /\ UNCHANGED <<started, finished>>

Next == Start \/ Finish \/ Close

Spec == Init /\ [][Next]_vars

FairSpec == Spec /\ WF_vars(Finish /\ Len(finished) + 1 < started)
=============================================================================
