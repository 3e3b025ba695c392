------------------------ MODULE BackgroundRun_proofs ------------------------
(***************************************************************************)
(* Proofs about BackgroundRun, for every number of runs and every bound.   *)
(*                                                                         *)
(* FinishedOnceInOrder is not inductive: that the next finish report is    *)
(* the one of the next run follows from what is in the mailbox, and that   *)
(* from which runnables have ended.  IInv therefore says where every run   *)
(* is: not begun, on the pool's thread, in the mailbox, or reported.       *)
(***************************************************************************)
EXTENDS BackgroundRun, SequenceTheorems, TLAPS

ReportedWereStarted == Len(finishes) <= lastRun

\* Runs whose runnable was handed to the pool: 1 .. Submitted.
Submitted == IF owner = "activated" THEN lastRun - 1 ELSE lastRun

\* Runs whose runnable has ended: 1 .. Ended.
Ended == IF running = 0 THEN begun ELSE begun - 1

\* start() is waiting for its runnable exactly while that is in the queue.
StartInv ==
    /\ owner \in {"activated", "starting"} => lastRun > 0
    /\ IF owner = "starting" /\ begun # lastRun
       THEN queued = <<lastRun>> /\ begun = lastRun - 1
       ELSE queued = <<>> /\ begun = Submitted
    /\ running \in {0, begun}
    /\ owner = "closed" => running = 0

\* Each run submitted and not reported holds the reader once.
ReaderInv ==
    /\ attached = undelivered
    /\ IF owner = "closed" THEN undelivered = 0
       ELSE undelivered = Submitted - Len(finishes)

\* Runs are reported in order, and those that ended without having been
\* reported have their finish report in the mailbox.
FinishInv ==
    /\ Len(finishes) <= Ended
    /\ \A i \in DOMAIN finishes : finishes[i] = i
    /\ open => \A r \in (Len(finishes) + 1)..Ended :
                  \E i \in DOMAIN pending : pending[i].run = r /\ pending[i].kind = "finish"

\* The mailbox holds reports of unreported runs only, in the order posted.
PendingInv ==
    /\ \A i \in DOMAIN pending :
          /\ pending[i].run > Len(finishes)
          /\ pending[i].run <= begun
          /\ pending[i].kind = "finish" => pending[i].run <= Ended
    /\ \A i, j \in DOMAIN pending :
          i < j => \/ pending[i].run < pending[j].run
                   \/ pending[i].run = pending[j].run /\ pending[i].kind = "progress"

ClosedInv ==
    /\ open <=> owner \notin {"closed", "abandoned"}
    /\ ~open => pending = <<>>

IInv ==
    /\ TypeOK
    /\ StartInv
    /\ ReaderInv
    /\ FinishInv
    /\ PendingInv
    /\ ClosedInv
    /\ NoLostWake

-----------------------------------------------------------------------------
(* Facts about sequences.                                                  *)

LEMMA AppendFacts ==
    ASSUME NEW S, NEW s \in Seq(S), NEW e \in S
    PROVE  /\ Append(s, e) \in Seq(S)
           /\ Append(s, e) # <<>>
           /\ Len(Append(s, e)) = Len(s) + 1
           /\ DOMAIN Append(s, e) = 1..(Len(s) + 1)
           /\ \A i \in 1..Len(s) : Append(s, e)[i] = s[i]
           /\ Append(s, e)[Len(s) + 1] = e
  OBVIOUS

LEMMA TailFacts ==
    ASSUME NEW S, NEW s \in Seq(S), s # <<>>
    PROVE  /\ Head(s) \in S
           /\ Head(s) = s[1]
           /\ Len(s) > 0
           /\ Tail(s) \in Seq(S)
           /\ DOMAIN Tail(s) = 1..(Len(s) - 1)
           /\ \A i \in 1..(Len(s) - 1) : Tail(s)[i] = s[i + 1]
  BY HeadTailProperties, LenProperties

LEMMA PopFacts ==
    ASSUME NEW S, NEW s \in Seq(S), s # <<>>
    PROVE  SubSeq(s, 1, Len(s) - 1) \in Seq(S)
  <1>1. Len(s) \in Nat \ {0} /\ \A i \in 1..(Len(s) - 1) : s[i] \in S
    BY EmptySeq, ElementOfSeq
  <1> QED  BY <1>1, SubSeqProperties

LEMMA TopFacts ==
    ASSUME NEW S, NEW s \in Seq(S), s # <<>>, NEW e \in S
    PROVE  /\ [s EXCEPT ![Len(s)] = e] \in Seq(S)
           /\ [s EXCEPT ![Len(s)] = e] # <<>>
  <1>1. Len(s) \in 1..Len(s)
    BY EmptySeq
  <1>2. /\ [s EXCEPT ![Len(s)] = e] \in Seq(S)
        /\ Len([s EXCEPT ![Len(s)] = e]) = Len(s)
    BY <1>1, ExceptSeq
  <1> QED  BY <1>1, <1>2, EmptySeq

-----------------------------------------------------------------------------
(* The invariant.                                                          *)

LEMMA InitIInv == Init => IInv
  <1> SUFFICES ASSUME Init PROVE IInv
    OBVIOUS
  <1> USE BoundsAssumption DEF Init
  <1>1. TypeOK
    BY DEF TypeOK, Runs, Ends
  <1>2. Len(finishes) = 0 /\ DOMAIN finishes = {} /\ DOMAIN pending = {}
    OBVIOUS
  <1>3. StartInv
    BY DEF StartInv, Submitted
  <1>5. ReaderInv
    <2>1. Submitted = 0
      BY DEF Submitted
    <2>2. attached = 0 /\ undelivered = 0 /\ owner # "closed"
      OBVIOUS
    <2> HIDE DEF Init
    <2> QED  BY <1>2, <2>1, <2>2 DEF ReaderInv
  <1>6. ClosedInv /\ NoLostWake
    BY DEF ClosedInv, NoLostWake
  <1>4. FinishInv /\ PendingInv
    BY <1>2 DEF FinishInv, PendingInv, Ended
  <1> QED  BY <1>1, <1>3, <1>4, <1>5, <1>6 DEF IInv

\* The owner's and the pool's steps that leave the mailbox alone.
LEMMA OwnerStep == IInv /\ (Activate \/ Submit \/ StartReturns \/ Interrupt \/ Shutdown) => IInv'
  <1> SUFFICES ASSUME IInv, Activate \/ Submit \/ StartReturns \/ Interrupt \/ Shutdown
               PROVE  IInv'
    OBVIOUS
  <1> USE BoundsAssumption DEF IInv, ownerVars, poolVars, mailVars
  <1>1. CASE Activate
    <2> USE <1>1 DEF Activate, OwnerFree
    <2>1. TypeOK'
      BY DEF TypeOK, Runs
    <2>2. StartInv' /\ Submitted' = Submitted /\ Ended' = Ended
      BY DEF TypeOK, StartInv, Submitted, Ended
    <2>3. ReaderInv' /\ FinishInv' /\ PendingInv' /\ ClosedInv' /\ NoLostWake'
      BY <2>2 DEF TypeOK, ReaderInv, FinishInv, PendingInv, ClosedInv, NoLostWake
    <2> QED  BY <2>1, <2>2, <2>3
  <1>2. CASE Submit
    <2> USE <1>2 DEF Submit
    <2>1. TypeOK'
      <3>1. lastRun \in Runs
        BY DEF TypeOK, StartInv, Runs
      <3>2. queued' \in Seq(Runs) /\ runPolicy' \in [Runs -> Policies]
        BY <3>1, AppendFacts DEF TypeOK
      <3> QED  BY <3>2 DEF TypeOK
    <2>2. StartInv' /\ Submitted' = Submitted + 1 /\ Ended' = Ended
      BY DEF TypeOK, StartInv, Submitted, Ended
    <2>3. ReaderInv' /\ FinishInv' /\ PendingInv' /\ ClosedInv' /\ NoLostWake'
      <3>1. Len(finishes) \in Nat
        BY LenProperties DEF TypeOK
      <3> QED  BY <2>2, <3>1 DEF TypeOK, Submitted, ReaderInv, FinishInv, PendingInv, ClosedInv, NoLostWake
    <2> QED  BY <2>1, <2>2, <2>3
  <1>3. CASE StartReturns
    <2> USE <1>3 DEF StartReturns
    <2>1. TypeOK'
      BY DEF TypeOK
    <2>2. StartInv' /\ Submitted' = Submitted /\ Ended' = Ended
      BY DEF TypeOK, StartInv, Submitted, Ended
    <2>3. ReaderInv' /\ FinishInv' /\ PendingInv' /\ ClosedInv' /\ NoLostWake'
      BY <2>2 DEF TypeOK, ReaderInv, FinishInv, PendingInv, ClosedInv, NoLostWake
    <2> QED  BY <2>1, <2>2, <2>3
  <1>4. CASE Interrupt
    <2> USE <1>4 DEF Interrupt
    <2>1. TypeOK'
      BY DEF TypeOK
    <2>2. StartInv' /\ Submitted' = Submitted /\ Ended' = Ended
      BY DEF TypeOK, StartInv, Submitted, Ended
    <2>3. ReaderInv' /\ FinishInv' /\ PendingInv' /\ ClosedInv' /\ NoLostWake'
      BY <2>2 DEF TypeOK, ReaderInv, FinishInv, PendingInv, ClosedInv, NoLostWake
    <2> QED  BY <2>1, <2>2, <2>3
  <1>5. CASE Shutdown
    <2> USE <1>5 DEF Shutdown, OwnerFree
    <2>1. TypeOK'
      BY DEF TypeOK
    <2>2. StartInv' /\ Submitted' = Submitted /\ Ended' = Ended
      BY DEF TypeOK, StartInv, Submitted, Ended
    <2>3. ReaderInv' /\ FinishInv' /\ PendingInv' /\ ClosedInv' /\ NoLostWake'
      BY <2>2 DEF TypeOK, ReaderInv, FinishInv, PendingInv, ClosedInv, NoLostWake
    <2> QED  BY <2>1, <2>2, <2>3
  <1> QED  BY <1>1, <1>2, <1>3, <1>4, <1>5

LEMMA ShutdownStep == IInv /\ (ShutdownDone \/ ShutdownTimesOut) => IInv'
  <1> SUFFICES ASSUME IInv, ShutdownDone \/ ShutdownTimesOut
               PROVE  IInv'
    OBVIOUS
  <1> USE BoundsAssumption DEF IInv, ownerVars, poolVars, mailVars, CloseMailbox
  <1>1. CASE ShutdownDone
    <2> USE <1>1 DEF ShutdownDone
    <2>1. TypeOK'
      <3>1. pending' \in Seq(Report) /\ wakes' \in Nat /\ open' \in BOOLEAN
        BY EmptySeq DEF TypeOK
      <3>2. attached' \in Nat /\ undelivered' \in Nat
        BY DEF TypeOK, ReaderInv
      <3> QED  BY <3>1, <3>2 DEF TypeOK
    <2>2. StartInv' /\ Submitted' = Submitted /\ Ended' = Ended
      BY DEF TypeOK, StartInv, Submitted, Ended
    <2>3. ReaderInv' /\ FinishInv' /\ PendingInv' /\ ClosedInv' /\ NoLostWake'
      BY <2>2 DEF TypeOK, ReaderInv, FinishInv, PendingInv, ClosedInv, NoLostWake
    <2> QED  BY <2>1, <2>2, <2>3
  <1>2. CASE ShutdownTimesOut
    <2> USE <1>2 DEF ShutdownTimesOut
    <2>1. TypeOK'
      <3>1. pending' \in Seq(Report) /\ wakes' \in Nat /\ open' \in BOOLEAN
        BY EmptySeq DEF TypeOK
      <3> QED  BY <3>1 DEF TypeOK
    <2>2. StartInv' /\ Submitted' = Submitted /\ Ended' = Ended
      BY DEF TypeOK, StartInv, Submitted, Ended
    <2>3. ReaderInv' /\ FinishInv' /\ PendingInv' /\ ClosedInv' /\ NoLostWake'
      BY <2>2 DEF TypeOK, ReaderInv, FinishInv, PendingInv, ClosedInv, NoLostWake
    <2> QED  BY <2>1, <2>2, <2>3
  <1> QED  BY <1>1, <1>2

LEMMA DeliveryStep == IInv /\ Deliveries => IInv'
  <1> SUFFICES ASSUME IInv, Deliveries
               PROVE  IInv'
    OBVIOUS
  <1> USE BoundsAssumption DEF IInv, ownerVars, poolVars, mailVars
  <1>0. Between \in Frames /\ Report \subseteq Frames
    BY DEF Frames
  <1>1. CASE Wake
    <2> USE <1>1 DEF Wake
    <2>1. TypeOK' /\ stack' # <<>>
      <3>1. stack' \in Seq(Frames) /\ stack' # <<>>
        BY <1>0, AppendFacts DEF TypeOK
      <3> QED  BY <3>1 DEF TypeOK
    <2>2. StartInv' /\ Submitted' = Submitted /\ Ended' = Ended
      BY DEF TypeOK, StartInv, Submitted, Ended
    <2>3. ReaderInv' /\ FinishInv' /\ PendingInv' /\ ClosedInv' /\ NoLostWake'
      BY <2>1, <2>2 DEF ReaderInv, FinishInv, PendingInv, ClosedInv, NoLostWake
    <2> QED  BY <2>1, <2>2, <2>3
  <1>2. CASE Deliver
    <2> USE <1>2 DEF Deliver
    <2> DEFINE report == Head(pending)
    <2>1. /\ report \in Report
          /\ report = pending[1]
          /\ Len(pending) \in Nat \ {0}
          /\ DOMAIN pending = 1..Len(pending)
          /\ pending' \in Seq(Report)
          /\ DOMAIN pending' = 1..(Len(pending) - 1)
          /\ \A i \in 1..(Len(pending) - 1) : pending'[i] = pending[i + 1]
      BY TailFacts, LenProperties DEF TypeOK
    <2>2. report.kind \in {"progress", "finish"} /\ report.run \in Runs
      BY <2>1 DEF Report
    <2>3. Len(finishes) \in Nat /\ DOMAIN finishes = 1..Len(finishes)
      BY LenProperties DEF TypeOK
    <2>4. stack' \in Seq(Frames) /\ stack' # <<>>
      BY <1>0, <2>1, TopFacts DEF TypeOK, SetTop
    <2>5. open /\ owner # "closed"
      BY DEF ClosedInv, TypeOK
    <2>6. StartInv' /\ Submitted' = Submitted /\ Ended' = Ended
      BY DEF TypeOK, StartInv, Submitted, Ended
    <2>7. /\ \A i \in 2..Len(pending) : \/ pending[1].run < pending[i].run
                                        \/ /\ pending[1].run = pending[i].run
                                           /\ pending[1].kind = "progress"
          /\ pending[1].run > Len(finishes)
          /\ pending[1].kind = "finish" => pending[1].run <= Ended
      <3>1. PendingInv /\ Len(pending) \in Nat \ {0} /\ DOMAIN pending = 1..Len(pending)
        BY <2>1
      <3>2. 1 \in DOMAIN pending /\ \A i \in 2..Len(pending) : i \in DOMAIN pending /\ 1 < i
        BY ONLY <3>1
      <3> QED  BY ONLY <3>1, <3>2 DEF PendingInv
    <2>8. \A i \in 1..Len(pending) : pending[i] \in Report /\ pending[i].run \in Nat
      <3>1. \A i \in 1..Len(pending) : pending[i] \in Report
        BY ElementOfSeq DEF TypeOK
      <3> QED  BY <3>1 DEF Report, Runs
    <2>9. begun \in Nat /\ Ended \in Int /\ Submitted \in Int
      BY DEF TypeOK, Ended, Submitted
    <2>10. CASE report.kind = "progress"
      <3>1. UNCHANGED <<undelivered, attached, finishes>>
        BY <2>10 DEF HoldsReader
      <3>2. TypeOK'
        BY <3>1, <2>1, <2>4 DEF TypeOK
      <3>3. ReaderInv' /\ ClosedInv' /\ NoLostWake'
        BY <3>1, <2>4, <2>5, <2>6 DEF ReaderInv, ClosedInv, NoLostWake
      <3>4. FinishInv'
        <4>1. ASSUME NEW r \in (Len(finishes) + 1)..Ended
              PROVE  \E i \in DOMAIN pending' : pending'[i].run = r /\ pending'[i].kind = "finish"
          <5>1. PICK i \in DOMAIN pending : pending[i].run = r /\ pending[i].kind = "finish"
            BY <2>5 DEF FinishInv
          <5>2. i # 1
            BY <5>1, <2>10, <2>1
          <5>3. (i - 1) \in DOMAIN pending' /\ pending'[i - 1] = pending[i]
            BY <5>2, <2>1
          <5> QED  BY <5>1, <5>3
        <4> QED  BY <4>1, <3>1, <2>6 DEF FinishInv
      <3>5. PendingInv'
        BY <2>1, <3>1, <2>6 DEF PendingInv
      <3> QED  BY <2>6, <3>2, <3>3, <3>4, <3>5
    <2>11. CASE report.kind = "finish"
      <3>1. /\ undelivered' = undelivered - 1
            /\ attached' = attached - 1
            /\ finishes' = Append(finishes, report.run)
        BY <2>11 DEF HoldsReader
      <3>2. /\ finishes' \in Seq(Runs)
            /\ Len(finishes') = Len(finishes) + 1
            /\ DOMAIN finishes' = 1..(Len(finishes) + 1)
            /\ \A i \in 1..Len(finishes) : finishes'[i] = finishes[i]
            /\ finishes'[Len(finishes) + 1] = report.run
        BY <3>1, <2>2, AppendFacts DEF TypeOK
      <3>3. report.run = Len(finishes) + 1
        <4> SUFFICES ASSUME report.run > Len(finishes) + 1 PROVE FALSE
          BY <2>1, <2>7, <2>8, <2>3
        <4>1. Len(finishes) + 1 \in (Len(finishes) + 1)..Ended
          BY <2>1, <2>3, <2>7, <2>8, <2>9, <2>11
        <4>2. PICK i \in DOMAIN pending : pending[i].run = Len(finishes) + 1
          BY <4>1, <2>5 DEF FinishInv
        <4> QED  BY <4>2, <2>1, <2>7, <2>8, <2>3
      <3>4. report.run <= Ended
        BY <2>1, <2>7, <2>11
      <3>5. Ended <= Submitted
        BY DEF StartInv, Ended, Submitted, TypeOK
      <3>a. /\ attached = undelivered /\ undelivered = Submitted - Len(finishes)
            /\ undelivered \in Nat /\ owner' = owner
        BY <2>5 DEF ReaderInv, TypeOK
      <3>6. ReaderInv'
        <4>1. attached' = undelivered' /\ undelivered' = Submitted' - Len(finishes')
          <5> HIDE DEF Deliver, IInv
          <5>1. attached' = attached - 1 /\ undelivered' = undelivered - 1
            BY <3>1
          <5>2. Len(finishes') = Len(finishes) + 1
            BY <3>2
          <5> QED  BY <5>1, <5>2, <3>a, <2>3, <2>6, <2>9
        <4> QED  BY <4>1, <3>a, <2>5, owner' # "closed" DEF ReaderInv
      <3>7. TypeOK'
        <4>1. undelivered' \in Nat
          <5> HIDE DEF Deliver, IInv
          <5>1. undelivered >= 1
            BY <3>a, <3>3, <3>4, <3>5, <2>3, <2>9
          <5> QED  BY <5>1, <3>a, <3>1
        <4> QED  BY <4>1, <3>1, <3>2, <2>1, <2>4, <3>6 DEF TypeOK, ReaderInv
      <3>8. FinishInv'
        <4>1. Len(finishes') <= Ended'
          BY <3>2, <3>3, <3>4, <2>6
        <4>2. \A i \in DOMAIN finishes' : finishes'[i] = i
          BY <3>2, <3>3, <2>3 DEF FinishInv
        <4>3. ASSUME NEW r \in (Len(finishes') + 1)..Ended'
              PROVE  \E i \in DOMAIN pending' : pending'[i].run = r /\ pending'[i].kind = "finish"
          <5>1. r \in (Len(finishes) + 1)..Ended /\ r # report.run
            BY <3>2, <3>3, <2>3, <2>6, <2>9
          <5>2. PICK i \in DOMAIN pending : pending[i].run = r /\ pending[i].kind = "finish"
            BY <5>1, <2>5 DEF FinishInv
          <5>3. i # 1
            BY <5>1, <5>2, <2>1
          <5>4. (i - 1) \in DOMAIN pending' /\ pending'[i - 1] = pending[i]
            BY <5>3, <2>1
          <5> QED  BY <5>2, <5>4
        <4> QED  BY <4>1, <4>2, <4>3 DEF FinishInv
      <3>9. PendingInv'
        <4>1. \A i \in DOMAIN pending' : pending'[i].run > Len(finishes')
          BY <2>1, <2>3, <2>7, <2>8, <2>11, <3>2, <3>3
        <4>2. \A i \in DOMAIN pending' : /\ pending'[i].run <= begun
                                        /\ pending'[i].kind = "finish" => pending'[i].run <= Ended
          BY <2>1 DEF PendingInv
        <4>3. \A i, j \in DOMAIN pending' :
                i < j => \/ pending'[i].run < pending'[j].run
                         \/ pending'[i].run = pending'[j].run /\ pending'[i].kind = "progress"
          BY <2>1 DEF PendingInv
        <4> QED  BY <4>1, <4>2, <4>3, <2>6 DEF PendingInv
      <3>10. ClosedInv' /\ NoLostWake'
        BY <2>4, <2>5 DEF ClosedInv, NoLostWake
      <3> QED  BY <2>6, <3>6, <3>7, <3>8, <3>9, <3>10
    <2> QED  BY <2>2, <2>10, <2>11
  <1>3. CASE DeliverReturns
    <2> USE <1>3 DEF DeliverReturns
    <2>1. TypeOK'
      BY PopFacts DEF TypeOK, PopFrame
    <2>2. StartInv' /\ Submitted' = Submitted /\ Ended' = Ended
      BY DEF TypeOK, StartInv, Submitted, Ended
    <2>3. ReaderInv' /\ FinishInv' /\ PendingInv' /\ ClosedInv' /\ NoLostWake'
      BY <2>2 DEF ReaderInv, FinishInv, PendingInv, ClosedInv, NoLostWake
    <2> QED  BY <2>1, <2>2, <2>3
  <1>4. CASE CallbackReturns
    <2> USE <1>4 DEF CallbackReturns
    <2>1. TypeOK' /\ stack' # <<>>
      <3>1. stack' \in Seq(Frames) /\ stack' # <<>>
        BY <1>0, TopFacts DEF TypeOK, SetTop
      <3> QED  BY <3>1 DEF TypeOK
    <2>2. StartInv' /\ Submitted' = Submitted /\ Ended' = Ended
      BY DEF TypeOK, StartInv, Submitted, Ended
    <2>3. ReaderInv' /\ FinishInv' /\ PendingInv' /\ ClosedInv' /\ NoLostWake'
      BY <2>1, <2>2 DEF ReaderInv, FinishInv, PendingInv, ClosedInv, NoLostWake
    <2> QED  BY <2>1, <2>2, <2>3
  <1> QED  BY <1>1, <1>2, <1>3, <1>4 DEF Deliveries

LEMMA PoolStep == IInv /\ (Pool \/ SetPolicy) => IInv'
  <1> SUFFICES ASSUME IInv, Pool \/ SetPolicy
               PROVE  IInv'
    OBVIOUS
  <1> USE BoundsAssumption DEF IInv, ownerVars, poolVars, mailVars
  <1>0. /\ Len(finishes) \in Nat /\ begun \in Nat
        /\ \A i \in DOMAIN pending : pending[i] \in Report /\ pending[i].run \in Nat
        /\ DOMAIN pending = 1..Len(pending) /\ Len(pending) \in Nat
    <2>1. \A i \in DOMAIN pending : pending[i] \in Report
      BY ElementOfSeq, LenProperties DEF TypeOK
    <2>2. Len(finishes) \in Nat /\ DOMAIN pending = 1..Len(pending) /\ Len(pending) \in Nat
      BY LenProperties DEF TypeOK
    <2> QED  BY <2>1, <2>2 DEF TypeOK, Report, Runs
  <1>1. CASE Begin
    <2> USE <1>1 DEF Begin
    <2>1. /\ queued = <<lastRun>> /\ owner = "starting" /\ begun = lastRun - 1
          /\ Head(queued) = lastRun /\ Tail(queued) = <<>> /\ lastRun > 0
      BY DEF StartInv, TypeOK
    <2>2. TypeOK'
      <3>1. queued' \in Seq(Runs)
        BY <2>1, EmptySeq
      <3> QED  BY <2>1, <3>1 DEF TypeOK
    <2>3. StartInv' /\ Submitted' = Submitted /\ Ended' = Ended /\ begun' = begun + 1
      BY <2>1 DEF TypeOK, StartInv, Submitted, Ended
    <2>4. PendingInv'
      BY <1>0, <2>3 DEF PendingInv
    <2>5. ReaderInv' /\ FinishInv' /\ ClosedInv' /\ NoLostWake'
      BY <2>3 DEF ReaderInv, FinishInv, ClosedInv, NoLostWake
    <2> QED  BY <2>2, <2>3, <2>4, <2>5
  <1>2. CASE ReportProgress
    <2> USE <1>2 DEF ReportProgress
    <2> DEFINE report == Progress(running)
    <2>1. /\ report \in Report /\ report.run = running /\ report.kind = "progress"
          /\ running = begun /\ Ended = begun - 1 /\ running \in Nat
      BY DEF Progress, Report, TypeOK, Runs, StartInv, Ended
    <2>2. StartInv' /\ Submitted' = Submitted /\ Ended' = Ended
      BY DEF TypeOK, StartInv, Submitted, Ended
    <2>3. CASE ~open
      <3>1. UNCHANGED mailVars
        BY <2>3 DEF Post
      <3> QED  BY <2>2, <3>1 DEF TypeOK, ReaderInv, FinishInv, PendingInv, ClosedInv, NoLostWake
    <2>4. CASE open
      <3>1. /\ pending' = Append(pending, report) /\ open' = open
            /\ wakes' = IF pending = <<>> THEN wakes + 1 ELSE wakes
        BY <2>4 DEF Post, WasEmpty
      <3>2. /\ pending' \in Seq(Report)
            /\ pending' # <<>>
            /\ DOMAIN pending' = 1..(Len(pending) + 1)
            /\ \A i \in 1..Len(pending) : pending'[i] = pending[i]
            /\ pending'[Len(pending) + 1] = report
        BY <2>1, <3>1, AppendFacts DEF TypeOK
      <3>3. TypeOK'
        BY <3>1, <3>2 DEF TypeOK
      <3>4. PendingInv'
        <4> HIDE DEF ReportProgress
        <4>1. UNCHANGED <<finishes, begun>>
          BY DEF ReportProgress
        <4>2. running > Len(finishes)
          BY <1>0, <2>1 DEF FinishInv
        <4>3. \A i \in DOMAIN pending' :
                 /\ pending'[i].run > Len(finishes)
                 /\ pending'[i].run <= begun
                 /\ pending'[i].kind = "finish" => pending'[i].run <= Ended
          BY <1>0, <2>1, <3>2, <4>2 DEF PendingInv
        <4>4. ASSUME NEW i \in DOMAIN pending', NEW j \in DOMAIN pending', i < j
              PROVE  \/ pending'[i].run < pending'[j].run
                     \/ pending'[i].run = pending'[j].run /\ pending'[i].kind = "progress"
          <5>1. i \in 1..Len(pending) /\ pending'[i] = pending[i]
            BY <1>0, <3>2, <4>4
          <5>2. CASE j = Len(pending) + 1
            <6>1. pending[i].run <= begun /\ (pending[i].kind = "finish" => pending[i].run <= Ended)
              BY <1>0, <5>1 DEF PendingInv
            <6>2. pending[i].kind \in {"progress", "finish"}
              BY <1>0, <5>1 DEF Report
            <6> QED  BY <1>0, <2>1, <3>2, <5>1, <5>2, <6>1, <6>2
          <5>3. CASE j \in 1..Len(pending)
            BY <1>0, <3>2, <4>4, <5>1, <5>3 DEF PendingInv
          <5> QED  BY <1>0, <3>2, <5>2, <5>3
        <4> QED  BY <2>2, <4>1, <4>3, <4>4 DEF PendingInv
      <3>5. FinishInv'
        BY <1>0, <2>2, <3>1, <3>2 DEF FinishInv
      <3>6. ReaderInv' /\ ClosedInv'
        BY <2>2, <2>4, <3>1 DEF ReaderInv, ClosedInv
      <3>7. NoLostWake'
        BY <3>1 DEF NoLostWake, TypeOK
      <3> QED  BY <2>2, <3>3, <3>4, <3>5, <3>6, <3>7
    <2> QED  BY <2>3, <2>4
  <1>3. CASE JobEnds
    <2> USE <1>3 DEF JobEnds
    <2>1. TypeOK'
      BY DEF TypeOK, Ends
    <2>2. StartInv' /\ Submitted' = Submitted /\ Ended' = Ended
      BY DEF TypeOK, StartInv, Submitted, Ended
    <2>3. ReaderInv' /\ FinishInv' /\ PendingInv' /\ ClosedInv' /\ NoLostWake'
      BY <2>2 DEF ReaderInv, FinishInv, PendingInv, ClosedInv, NoLostWake
    <2> QED  BY <2>1, <2>2, <2>3
  <1>4. CASE RunnableEnds
    <2> USE <1>4 DEF RunnableEnds
    <2> DEFINE report == Finish(running, end)
    <2>1. /\ report \in Report /\ report.run = running /\ report.kind = "finish"
          /\ running = begun /\ Ended = begun - 1 /\ Ended' = begun /\ running \in Nat
          /\ owner # "closed"
      BY DEF Finish, Report, TypeOK, Runs, StartInv, Ended
    <2>2. StartInv' /\ Submitted' = Submitted
      BY <2>1 DEF TypeOK, StartInv, Submitted
    <2>3. CASE ~open
      <3>1. UNCHANGED mailVars
        BY <2>3 DEF Post
      <3>2. TypeOK'
        BY <3>1 DEF TypeOK, NoEnd
      <3>3. FinishInv' /\ PendingInv'
        BY <1>0, <2>1, <2>3, <3>1 DEF FinishInv, PendingInv, ClosedInv
      <3>4. ReaderInv' /\ ClosedInv' /\ NoLostWake'
        BY <2>2, <3>1 DEF ReaderInv, ClosedInv, NoLostWake
      <3> QED  BY <2>2, <3>2, <3>3, <3>4
    <2>4. CASE open
      <3>1. /\ pending' = Append(pending, report) /\ open' = open
            /\ wakes' = IF pending = <<>> THEN wakes + 1 ELSE wakes
        BY <2>4 DEF Post, WasEmpty
      <3>2. /\ pending' \in Seq(Report)
            /\ pending' # <<>>
            /\ DOMAIN pending' = 1..(Len(pending) + 1)
            /\ \A i \in 1..Len(pending) : pending'[i] = pending[i]
            /\ pending'[Len(pending) + 1] = report
        BY <2>1, <3>1, AppendFacts DEF TypeOK
      <3>3. TypeOK'
        BY <3>1, <3>2 DEF TypeOK, NoEnd
      <3>a. UNCHANGED <<finishes, begun>>
        OBVIOUS
      <3>4. PendingInv'
        <4> HIDE DEF RunnableEnds
        <4>2. running > Len(finishes)
          BY <1>0, <2>1 DEF FinishInv
        <4>3. \A i \in DOMAIN pending' : pending'[i].run > Len(finishes) /\ pending'[i].run <= begun
          BY <1>0, <2>1, <3>2, <4>2 DEF PendingInv
        <4>4. ASSUME NEW i \in DOMAIN pending', NEW j \in DOMAIN pending', i < j
              PROVE  \/ pending'[i].run < pending'[j].run
                     \/ pending'[i].run = pending'[j].run /\ pending'[i].kind = "progress"
          <5>1. i \in 1..Len(pending) /\ pending'[i] = pending[i]
            BY <1>0, <3>2, <4>4
          <5>2. CASE j = Len(pending) + 1
            <6>1. pending[i].run <= begun /\ (pending[i].kind = "finish" => pending[i].run <= Ended)
              BY <1>0, <5>1 DEF PendingInv
            <6>2. pending[i].kind \in {"progress", "finish"}
              BY <1>0, <5>1 DEF Report
            <6> QED  BY <1>0, <2>1, <3>2, <5>1, <5>2, <6>1, <6>2
          <5>3. CASE j \in 1..Len(pending)
            BY <1>0, <3>2, <4>4, <5>1, <5>3 DEF PendingInv
          <5> QED  BY <1>0, <3>2, <5>2, <5>3
        <4> QED  BY <2>1, <3>a, <4>3, <4>4 DEF PendingInv
      <3>5. FinishInv'
        <4> HIDE DEF RunnableEnds
        <4>1. ASSUME NEW r \in (Len(finishes) + 1)..begun
              PROVE  \E i \in DOMAIN pending' : pending'[i].run = r /\ pending'[i].kind = "finish"
          <5>1. CASE r = begun
            <6>1. (Len(pending) + 1) \in DOMAIN pending'
              BY <1>0, <3>2
            <6> QED  BY <2>1, <3>2, <5>1, <6>1
          <5>2. CASE r # begun
            <6>1. r \in (Len(finishes) + 1)..Ended
              BY <1>0, <2>1, <5>2
            <6>2. PICK i \in DOMAIN pending : pending[i].run = r /\ pending[i].kind = "finish"
              BY <2>4, <6>1 DEF FinishInv
            <6>3. i \in DOMAIN pending' /\ pending'[i] = pending[i]
              BY <1>0, <3>2
            <6> QED  BY <6>2, <6>3
          <5> QED  BY <5>1, <5>2
        <4>2. Len(finishes) <= begun
          BY <1>0, <2>1 DEF FinishInv
        <4> QED  BY <2>1, <3>a, <4>1, <4>2 DEF FinishInv
      <3>6. ReaderInv' /\ ClosedInv'
        BY <2>2, <2>4, <3>1 DEF ReaderInv, ClosedInv
      <3>7. NoLostWake'
        BY <3>1 DEF NoLostWake, TypeOK
      <3> QED  BY <2>2, <3>3, <3>4, <3>5, <3>6, <3>7
    <2> QED  BY <2>3, <2>4
  <1>5. CASE SetPolicy
    <2> USE <1>5 DEF SetPolicy
    <2>1. TypeOK'
      BY DEF TypeOK
    <2>2. StartInv' /\ Submitted' = Submitted /\ Ended' = Ended
      BY DEF StartInv, Submitted, Ended
    <2>3. ReaderInv' /\ FinishInv' /\ PendingInv' /\ ClosedInv' /\ NoLostWake'
      BY <2>2 DEF ReaderInv, FinishInv, PendingInv, ClosedInv, NoLostWake
    <2> QED  BY <2>1, <2>2, <2>3
  <1> QED  BY <1>1, <1>2, <1>3, <1>4, <1>5 DEF Pool

LEMMA StutterStep == IInv /\ UNCHANGED vars => IInv'
  BY DEF IInv, vars, ownerVars, poolVars, mailVars, TypeOK, StartInv, ReaderInv, FinishInv,
         PendingInv, ClosedInv, NoLostWake, Submitted, Ended

\* The invariant holds in every reachable state.
THEOREM InvariantHolds == Spec => []IInv
  <1>1. IInv /\ [Next]_vars => IInv'
    BY OwnerStep, ShutdownStep, DeliveryStep, PoolStep, StutterStep DEF Next, Owner
  <1> QED  BY <1>1, InitIInv, PTL DEF Spec

-----------------------------------------------------------------------------
(* What follows from it.                                                   *)

\* Every variable keeps its type: the counters of readers and of reports
\* that are due never go below zero (backgroundrun.h, lines 191-193, 318-325).
THEOREM TypeCorrect == Spec => []TypeOK
  <1>1. IInv => TypeOK
    BY DEF IInv
  <1> QED  BY <1>1, InvariantHolds, PTL

\* Every run is reported finished once, in order, after all its progress
\* (backgroundrun.h, lines 138-142), whichever way the threads interleave.
THEOREM ReportedOnceInOrder == Spec => [](FinishedOnceInOrder /\ ProgressBeforeFinish)
  <1>1. IInv => FinishedOnceInOrder /\ ProgressBeforeFinish
    BY DEF IInv, FinishInv, PendingInv, FinishedOnceInOrder, ProgressBeforeFinish
  <1> QED  BY <1>1, InvariantHolds, PTL

\* The Log File a job reads is open, and attached once for each run that was
\* started and not reported (backgroundrun.h, lines 135-137).
THEOREM ReaderHeld == Spec => [](ReaderOpenUnderJob /\ ReadersBalanced)
  <1>1. IInv => ReaderOpenUnderJob /\ ReadersBalanced
    <2> SUFFICES ASSUME IInv PROVE ReaderOpenUnderJob /\ ReadersBalanced
      OBVIOUS
    <2>1. /\ attached = undelivered /\ Len(finishes) \in Nat /\ Len(finishes) <= Ended
          /\ lastRun \in Nat /\ begun \in Nat
      BY LenProperties DEF IInv, TypeOK, ReaderInv, FinishInv
    <2>2. ReadersBalanced
      BY <2>1 DEF IInv, ReadersBalanced, ReaderInv, Submitted
    <2>3. ASSUME running # 0 \/ queued # <<>> PROVE attached > 0
      <3>1. Ended < Submitted /\ owner # "closed"
        BY <2>1, <2>3 DEF IInv, StartInv, Ended, Submitted, TypeOK
      <3>2. undelivered = Submitted - Len(finishes) /\ Ended \in Int /\ Submitted \in Int
        BY <2>1, <3>1 DEF IInv, ReaderInv, Ended, Submitted
      <3> QED  BY <2>1, <3>1, <3>2
    <2> QED  BY <2>2, <2>3 DEF ReaderOpenUnderJob
  <1> QED  BY <1>1, InvariantHolds, PTL

\* A report in the mailbox always has a "deliver" call or loop coming for it
\* (backgroundrun.cpp, lines 106-119).
THEOREM WakeNeverLost == Spec => []NoLostWake
  <1>1. IInv => NoLostWake
    BY DEF IInv
  <1> QED  BY <1>1, InvariantHolds, PTL

\* start() returns in the turn of its run only (backgroundrun.h, lines 130-132).
THEOREM OneRunAtATime == Spec => []StartWaitsForTurn
  <1>1. IInv => StartWaitsForTurn
    BY DEF IInv, StartInv, StartWaitsForTurn, Submitted, TypeOK
  <1> QED  BY <1>1, InvariantHolds, PTL

\* After shutting down nothing more is delivered, a callback still on the
\* stack and a job left to itself notwithstanding (backgroundrun.h, line 145).
THEOREM QuietAfterShutdown == Spec => NothingAfterShutdown
  <1>1. ASSUME IInv, [Next]_vars, owner \in {"closed", "abandoned"}
        PROVE  pending' = <<>> /\ finishes' = finishes
    <2>1. ~open /\ pending = <<>>
      BY <1>1 DEF IInv, ClosedInv
    <2> USE <2>1, <1>1 DEF mailVars
    <2>2. CASE Owner
      BY <2>2 DEF Owner, Activate, Submit, StartReturns, Interrupt, Shutdown, ShutdownDone,
                  ShutdownTimesOut, OwnerFree
    <2>3. CASE Deliveries
      BY <2>3 DEF Deliveries, Wake, Deliver, DeliverReturns, CallbackReturns
    <2>4. CASE Pool
      BY <2>4 DEF Pool, Begin, ReportProgress, JobEnds, RunnableEnds, Post
    <2>5. CASE SetPolicy \/ UNCHANGED vars
      BY <2>5 DEF SetPolicy, vars
    <2> QED  BY <2>2, <2>3, <2>4, <2>5 DEF Next
  <1>2. IInv /\ [Next]_vars =>
           [(owner \in {"closed", "abandoned"}) => pending' = <<>> /\ finishes' = finishes]_vars
    BY <1>1
  <1> QED  BY <1>2, InvariantHolds, PTL DEF Spec, NothingAfterShutdown

\* The policy of the run on the pool's thread is never replaced under it: the
\* next run's copy is another one (backgroundrun.h, lines 133-134).
THEOREM PolicyFixed == Spec => PolicyFixedDuringRun
  <1>1. ASSUME IInv, Next, running # 0, running' = running
        PROVE  JobPolicy' = JobPolicy
    <2> USE <1>1 DEF JobPolicy
    <2>1. CASE Submit
      <3>1. running # lastRun /\ lastRun \in Int
        BY <2>1 DEF IInv, StartInv, TypeOK, Submit, Submitted
      <3>2. runPolicy' = [runPolicy EXCEPT ![lastRun] = policy] /\ runPolicy \in [Runs -> Policies]
        BY <2>1 DEF Submit, IInv, TypeOK
      <3>3. running \in Runs
        BY DEF IInv, TypeOK, Runs
      <3> QED  BY <3>1, <3>2, <3>3
    <2>2. CASE ~Submit
      <3>1. runPolicy' = runPolicy
        BY <2>2 DEF Next, Owner, Deliveries, Pool, Activate, StartReturns, Interrupt, Shutdown,
                    ShutdownDone, ShutdownTimesOut, Wake, Deliver, DeliverReturns,
                    CallbackReturns, Begin, ReportProgress, JobEnds, RunnableEnds, SetPolicy
      <3> QED  BY <3>1
    <2> QED  BY <2>1, <2>2
  <1>2. IInv /\ [Next]_vars => [running # 0 /\ running' = running => JobPolicy' = JobPolicy]_vars
    BY <1>1
  <1> QED  BY <1>2, InvariantHolds, PTL DEF Spec, PolicyFixedDuringRun

\* Whoever starts runs may rely on RunReports alone: every step of the owner,
\* the deliveries and the pool is a step of RunReports or invisible in it.
THEOREM Refinement == Spec => ImplementsRunReports
  <1>1. Init => Reports!Init
    <2> SUFFICES ASSUME Init PROVE lastRun = 0 /\ finishes = <<>> /\ (~open) = FALSE
      BY DEF Reports!Init
    <2> QED  BY DEF Init
  <1>2. ASSUME IInv, ReportedWereStarted', FinishedOnceInOrder', [Next]_vars
        PROVE  [Reports!Next]_(Reports!vars)
    <2> USE <1>2 DEF ownerVars, mailVars
    <2>1. CASE Activate
      <3>1. open /\ lastRun < MaxRuns /\ lastRun' = lastRun + 1 /\ UNCHANGED <<finishes, open>>
        BY <2>1 DEF Activate, OwnerFree, IInv, ClosedInv
      <3>2. Reports!Start
        BY <3>1 DEF Reports!Start
      <3> QED  BY <3>2 DEF Reports!Next
    <2>2. CASE Deliver
      <3>1. open /\ UNCHANGED <<lastRun, open>>
        BY <2>2 DEF Deliver, IInv, ClosedInv, TypeOK
      <3>2. CASE finishes' = finishes
        BY <3>1, <3>2 DEF Reports!vars
      <3>3. CASE finishes' # finishes
        <4>1. Head(pending) \in Report /\ finishes' = Append(finishes, Head(pending).run)
          BY <2>2, <3>3, TailFacts DEF Deliver, IInv, TypeOK
        <4>2. Len(finishes') = Len(finishes) + 1 /\ Len(finishes) \in Nat
          BY <4>1, AppendFacts, LenProperties DEF IInv, TypeOK, Report
        <4>3. Len(finishes') <= lastRun /\ lastRun \in Nat
          BY <1>2, <3>1 DEF IInv, TypeOK, ReportedWereStarted
        <4>4. Len(finishes) < lastRun
          BY <4>2, <4>3
        <4>5. DOMAIN finishes' = 1..(Len(finishes) + 1) /\ finishes'[Len(finishes) + 1] = Head(pending).run
          BY <4>1, AppendFacts, LenProperties DEF IInv, TypeOK, Report
        <4>6. Head(pending).run = Len(finishes) + 1
          BY <1>2, <4>2, <4>5 DEF FinishedOnceInOrder
        <4> QED  BY <3>1, <4>1, <4>4, <4>6 DEF Reports!Next, Reports!Finish
      <3> QED  BY <3>2, <3>3
    <2>3. CASE ShutdownDone \/ ShutdownTimesOut
      <3>1. open /\ open' = FALSE /\ UNCHANGED <<lastRun, finishes>>
        BY <2>3 DEF ShutdownDone, ShutdownTimesOut, CloseMailbox, IInv, ClosedInv
      <3> QED  BY <3>1 DEF Reports!Next, Reports!Close
    <2>4. CASE Submit \/ StartReturns \/ Interrupt \/ Shutdown \/ SetPolicy \/ UNCHANGED vars
      <3>1. UNCHANGED <<lastRun, finishes, open>>
        BY <2>4 DEF Submit, StartReturns, Interrupt, Shutdown, SetPolicy, vars
      <3> QED  BY <3>1 DEF Reports!vars
    <2>5. CASE Wake \/ DeliverReturns \/ CallbackReturns \/ Pool
      <3>1. UNCHANGED <<lastRun, finishes, open>>
        BY <2>5 DEF Wake, DeliverReturns, CallbackReturns, Pool, Begin, ReportProgress, JobEnds,
                    RunnableEnds, Post
      <3> QED  BY <3>1 DEF Reports!vars
    <2> QED  BY <2>1, <2>2, <2>3, <2>4, <2>5 DEF Next, Owner, Deliveries
  <1>3. IInv => ReportedWereStarted
    <2> SUFFICES ASSUME IInv PROVE ReportedWereStarted
      OBVIOUS
    <2>1. Len(finishes) \in Nat /\ Len(finishes) <= Ended
      BY LenProperties DEF IInv, TypeOK, FinishInv
    <2>2. Ended <= lastRun /\ Ended \in Int /\ lastRun \in Int
      BY DEF IInv, TypeOK, StartInv, Ended, Submitted
    <2> QED  BY <2>1, <2>2 DEF ReportedWereStarted
  <1> QED  BY <1>1, <1>2, <1>3, InvariantHolds, ReportedOnceInOrder, PTL DEF Spec, Reports!Spec, ImplementsRunReports
=============================================================================
