-------------------------- MODULE Indexing_proofs --------------------------
(***************************************************************************)
(* What the runs of Indexing check, proved for every value of its          *)
(* constants: first what an Index is and which jobs run and wait, then     *)
(* what readers were told, then the bytes of the Index beside those of the *)
(* Log File, and last the Encoding that split it.                          *)
(***************************************************************************)
EXTENDS Indexing, SequenceTheorems, TLAPS

\* Bytes written up to a time.
Written(t) == {bytes \in Seq(1..t) : Len(bytes) <= MaxSize}

Prefix(x, y) == Len(x) <= Len(y) /\ \A half \in 1..Len(x) : x[half] = y[half]

-----------------------------------------------------------------------------
(* Bytes: their types, their parts, and one after the other.               *)

LEMMA Halves ==
    \A n \in Nat : n \div 2 \in Nat /\ 2 * (n \div 2) <= n /\ n <= 2 * (n \div 2) + 1
  OBVIOUS

LEMMA Bounds ==
    /\ MaxSize \in Nat /\ MaxChanges \in Nat /\ MaxChosen \in Nat
    /\ MaxStops \in Nat /\ MaxFailures \in Nat /\ MaxReloads \in Nat /\ MaxEvents \in Nat
  BY IndexingAssumption

LEMMA WrittenFacts ==
    ASSUME NEW t \in Nat, NEW x \in Written(t)
    PROVE  /\ x \in Seq(1..t) /\ Len(x) \in 0..MaxSize /\ DOMAIN x = 1..Len(x)
           /\ \A half \in 1..Len(x) : x[half] \in 1..t
           /\ (x = <<>>) <=> (Len(x) = 0)
<1>1. x \in Seq(1..t) /\ Len(x) <= MaxSize
  BY DEF Written
<1>2. Len(x) \in Nat /\ DOMAIN x = 1..Len(x)
  BY <1>1, LenProperties
<1>3. \A half \in 1..Len(x) : x[half] \in 1..t
  BY <1>1, ElementOfSeq
<1>4. (x = <<>>) <=> (Len(x) = 0)
  BY <1>1, EmptySeq
<1> QED
  BY <1>1, <1>2, <1>3, <1>4, Bounds

LEMMA WrittenBytes ==
    ASSUME NEW t \in Nat, NEW x \in Seq(1..t), Len(x) <= MaxSize
    PROVE  x \in Written(t)
  BY DEF Written

LEMMA WrittenEmpty ==
    ASSUME NEW t \in Nat
    PROVE  <<>> \in Written(t) /\ Len(<<>>) = 0
  BY EmptySeq, Bounds DEF Written

LEMMA WrittenLater ==
    ASSUME NEW t \in Nat, NEW x \in Written(t)
    PROVE  x \in Written(t + 1)
<1>1. x \in Seq(1..t) /\ Len(x) <= MaxSize
  BY DEF Written
<1>2. 1..t \subseteq 1..(t + 1)
  OBVIOUS
<1>3. x \in Seq(1..(t + 1))
  BY <1>1, <1>2, SeqMonotonic
<1> QED
  BY <1>1, <1>3 DEF Written

LEMMA WrittenContents ==
    ASSUME NEW t \in Nat, t <= MaxChanges + 1, NEW x \in Written(t)
    PROVE  x \in Contents
<1>1. Len(x) \in 0..MaxSize
  BY WrittenFacts
<1>2. x \in [1..Len(x) -> 1..t]
  BY LenProperties DEF Written
<1>3. 1..t \subseteq Stamps
  BY Bounds DEF Stamps
<1>4. x \in [1..Len(x) -> Stamps]
  BY <1>2, <1>3
<1> QED
  BY <1>1, <1>4 DEF Contents

\* SubSeq of bytes, within them.
LEMMA PartFacts ==
    ASSUME NEW t \in Nat, NEW x \in Written(t), NEW a \in Nat \ {0}, NEW b \in Nat, b <= Len(x)
    PROVE  /\ SubSeq(x, a, b) \in Written(t)
           /\ Len(SubSeq(x, a, b)) = IF a <= b THEN b - a + 1 ELSE 0
           /\ \A half \in 1..(b - a + 1) : SubSeq(x, a, b)[half] = x[a + half - 1]
<1>1. x \in Seq(1..t) /\ Len(x) \in 0..MaxSize /\ \A half \in 1..Len(x) : x[half] \in 1..t
  BY WrittenFacts
<1>2. \A half \in a..b : x[half] \in 1..t
  BY <1>1
<1>3. /\ SubSeq(x, a, b) \in Seq(1..t)
      /\ Len(SubSeq(x, a, b)) = IF a <= b THEN b - a + 1 ELSE 0
      /\ \A half \in 1..(b - a + 1) : SubSeq(x, a, b)[half] = x[a + half - 1]
  <2>1. a \in Int /\ b \in Int
    OBVIOUS
  <2> QED
    BY <1>2, <2>1, SubSeqProperties
<1>4. Len(SubSeq(x, a, b)) <= MaxSize
  BY <1>1, <1>3, Bounds
<1> QED
  BY <1>3, <1>4, WrittenBytes

\* One after the other, as far as they fit.
LEMMA JoinedFacts ==
    ASSUME NEW t \in Nat, NEW x \in Written(t), NEW y \in Written(t), Len(x) + Len(y) <= MaxSize
    PROVE  /\ x \o y \in Written(t) /\ Len(x \o y) = Len(x) + Len(y)
           /\ \A half \in 1..(Len(x) + Len(y)) :
                 (x \o y)[half] = IF half <= Len(x) THEN x[half] ELSE y[half - Len(x)]
<1>1. x \in Seq(1..t) /\ y \in Seq(1..t)
  BY WrittenFacts
<1>2. /\ x \o y \in Seq(1..t) /\ Len(x \o y) = Len(x) + Len(y)
      /\ \A half \in 1..(Len(x) + Len(y)) :
            (x \o y)[half] = IF half <= Len(x) THEN x[half] ELSE y[half - Len(x)]
  BY <1>1, ConcatProperties
<1> QED
  BY <1>2, WrittenBytes

LEMMA SameBytes ==
    ASSUME NEW t \in Nat, NEW x \in Written(t), NEW y \in Written(t),
           Len(x) = Len(y), \A half \in 1..Len(x) : x[half] = y[half]
    PROVE  x = y
  BY WrittenFacts, SeqEqual

\* What begins the Log File and is as long is the Log File.
LEMMA PrefixWhole ==
    ASSUME NEW t \in Nat, NEW x \in Written(t), NEW y \in Written(t), Prefix(x, y), Len(y) <= Len(x)
    PROVE  x = y
<1>1. Len(x) \in Nat /\ Len(y) \in Nat
  BY WrittenFacts
<1>2. Len(x) = Len(y) /\ \A half \in 1..Len(x) : x[half] = y[half]
  BY <1>1 DEF Prefix
<1> QED
  BY <1>2, SameBytes

\* The first bytes of the Log File are a prefix of it.
LEMMA FirstBytes ==
    ASSUME NEW t \in Nat, NEW x \in Written(t), NEW y \in Written(t), Len(x) <= Len(y)
    PROVE  (SubSeq(y, 1, Len(x)) = x) <=> Prefix(x, y)
<1>1. Len(x) \in Nat /\ Len(y) \in Nat
  BY WrittenFacts
<1>2. /\ SubSeq(y, 1, Len(x)) \in Written(t) /\ Len(SubSeq(y, 1, Len(x))) = Len(x)
      /\ \A half \in 1..Len(x) : SubSeq(y, 1, Len(x))[half] = y[half]
  BY <1>1, PartFacts
<1>3. ASSUME Prefix(x, y)
      PROVE  SubSeq(y, 1, Len(x)) = x
  <2>1. \A half \in 1..Len(SubSeq(y, 1, Len(x))) : SubSeq(y, 1, Len(x))[half] = x[half]
    BY <1>2, <1>3 DEF Prefix
  <2> QED
    BY <1>2, <2>1, SameBytes
<1>4. ASSUME SubSeq(y, 1, Len(x)) = x
      PROVE  Prefix(x, y)
  BY <1>2, <1>4 DEF Prefix
<1> QED
  BY <1>3, <1>4

-----------------------------------------------------------------------------
(* An Index, and what an index run makes of it.                            *)

IndexOf(t) == [bytes : Written(t), fake : 0..MaxSize, forced : Known, guess : Known, split : Known,
               recorded : BOOLEAN, full : Written(t), header : Written(t), tail : Written(t),
               built : Written(t), fed : Written(t), modified : Nat]

\* An Index of bytes written up to a time: the digests are of no more than
\* what was indexed, and what was indexed was split by some Encoding.
Sized(ix, t) ==
    /\ ix \in IndexOf(t)
    /\ Len(ix.built) <= Len(ix.bytes) /\ Len(ix.fed) <= Len(ix.bytes)
    /\ Len(ix.header) <= Len(ix.bytes) /\ Len(ix.full) <= Len(ix.bytes)
    /\ ix.bytes # <<>> => ix.split # NoEncoding

LEMMA Encoded == Detected \in Encodings /\ Locale \in Encodings /\ Undisplayed \in Encodings
  BY EncodingsAssumption

LEMMA SizedFields ==
    ASSUME NEW t \in Nat, NEW ix, Sized(ix, t)
    PROVE  /\ ix.bytes \in Written(t) /\ Len(ix.bytes) \in 0..MaxSize
           /\ ix.full \in Written(t) /\ Len(ix.full) \in 0..MaxSize
           /\ ix.header \in Written(t) /\ Len(ix.header) \in 0..MaxSize
           /\ ix.tail \in Written(t) /\ Len(ix.tail) \in 0..MaxSize
           /\ ix.built \in Written(t) /\ Len(ix.built) \in 0..MaxSize
           /\ ix.fed \in Written(t) /\ Len(ix.fed) \in 0..MaxSize
           /\ ix.fake \in 0..MaxSize /\ ix.forced \in Known /\ ix.guess \in Known /\ ix.split \in Known
           /\ ix.recorded \in BOOLEAN /\ ix.modified \in Nat
           /\ Len(ix.built) <= Len(ix.bytes) /\ Len(ix.fed) <= Len(ix.bytes)
           /\ Len(ix.header) <= Len(ix.bytes) /\ Len(ix.full) <= Len(ix.bytes)
           /\ (ix.bytes = <<>>) <=> (Len(ix.bytes) = 0)
<1>1. ix \in IndexOf(t)
  BY DEF Sized
<1>2. /\ ix.bytes \in Written(t) /\ ix.full \in Written(t) /\ ix.header \in Written(t)
      /\ ix.tail \in Written(t) /\ ix.built \in Written(t) /\ ix.fed \in Written(t)
      /\ ix.fake \in 0..MaxSize /\ ix.forced \in Known /\ ix.guess \in Known /\ ix.split \in Known
      /\ ix.recorded \in BOOLEAN /\ ix.modified \in Nat
  BY <1>1 DEF IndexOf
<1>3. \A x \in Written(t) : Len(x) \in 0..MaxSize /\ ((x = <<>>) <=> (Len(x) = 0))
  BY WrittenFacts
<1> QED
  BY <1>2, <1>3 DEF Sized

LEMMA ClearedIsSized ==
    ASSUME NEW t \in Nat
    PROVE  /\ Sized(Cleared, t) /\ Sized(NoEntry, t)
           /\ \A encoding \in Known : Sized([Cleared EXCEPT !.forced = encoding], t)
           /\ \A ix : Sized(Dropped(ix), t)
<1>1. <<>> \in Written(t) /\ Len(<<>>) = 0 /\ 0 \in 0..MaxSize /\ NoEncoding \in Known /\ Locale \in Known
  BY WrittenEmpty, Encoded, Bounds DEF Known
<1>2. Cleared \in IndexOf(t) /\ Cleared.bytes = <<>> /\ Cleared.built = <<>> /\ Cleared.fed = <<>>
      /\ Cleared.header = <<>> /\ Cleared.full = <<>>
  BY <1>1 DEF Cleared, IndexOf
<1>3. \A encoding \in Known : Sized([Cleared EXCEPT !.forced = encoding], t)
  BY <1>1, <1>2 DEF IndexOf, Sized
<1>4. \A ix : Sized(Dropped(ix), t)
  BY <1>1, <1>2 DEF IndexOf, Sized, Dropped
<1> QED
  BY <1>1, <1>2, <1>3, <1>4 DEF Sized, NoEntry

LEMMA SizedLater ==
    ASSUME NEW t \in Nat, NEW ix, Sized(ix, t)
    PROVE  Sized(ix, t + 1)
<1>1. \A x \in Written(t) : x \in Written(t + 1)
  BY WrittenLater
<1>2. ix \in IndexOf(t + 1)
  BY <1>1 DEF Sized, IndexOf
<1> QED
  BY <1>2 DEF Sized

LEMMA SizedIsIndex ==
    ASSUME NEW t \in Nat, t <= MaxChanges + 1, NEW ix, Sized(ix, t)
    PROVE  ix \in Indexes
<1>1. \A x \in Written(t) : x \in Contents
  BY WrittenContents
<1> QED
  BY <1>1 DEF Sized, IndexOf, Indexes

LEMMA AddBlockFacts ==
    ASSUME NEW t \in Nat, NEW ix, Sized(ix, t), NEW block \in Written(t),
           Len(ix.bytes) + Len(block) <= MaxSize
    PROVE  LET n == AddBlock(ix, block)
           IN  /\ Sized(n, t)
               /\ n.bytes = ix.bytes \o block /\ n.fake = 0
               /\ n.built = ix.built \o block /\ n.full = n.built /\ n.fed = ix.fed \o block
               /\ n.forced = ix.forced /\ n.recorded = ix.recorded
               /\ n.header = ix.header /\ n.tail = ix.tail /\ n.modified = ix.modified
               /\ n.guess = (IF ix.guess = NoEncoding THEN Detected ELSE ix.guess)
               /\ n.split = (IF ix.bytes # <<>> THEN ix.split
                             ELSE IF ix.forced # NoEncoding THEN ix.forced ELSE n.guess)
<1>1. PICK guess : guess = IF ix.guess = NoEncoding THEN Detected ELSE ix.guess
  OBVIOUS
<1>2. PICK split : split = IF ix.bytes # <<>> THEN ix.split
                           ELSE IF ix.forced # NoEncoding THEN ix.forced ELSE guess
  OBVIOUS
<1>3. PICK bytes : bytes = ix.bytes \o block
  OBVIOUS
<1>4. PICK built : built = ix.built \o block
  OBVIOUS
<1>5. PICK fed : fed = ix.fed \o block
  OBVIOUS
<1>6. AddBlock(ix, block) = [ix EXCEPT !.bytes = bytes, !.fake = 0, !.guess = guess, !.split = split,
                                       !.built = built, !.full = built, !.fed = fed]
  BY <1>1, <1>2, <1>3, <1>4, <1>5, Zenon DEF AddBlock
<1>7. ix \in IndexOf(t) /\ ix.guess \in Known /\ ix.split \in Known /\ ix.forced \in Known
      /\ ix.bytes \in Written(t) /\ ix.built \in Written(t) /\ ix.fed \in Written(t)
      /\ Len(ix.built) <= Len(ix.bytes) /\ Len(ix.fed) <= Len(ix.bytes)
      /\ Len(ix.bytes) \in Nat /\ Len(ix.built) \in Nat /\ Len(ix.fed) \in Nat /\ Len(block) \in Nat
      /\ Len(ix.header) <= Len(ix.bytes) /\ Len(ix.header) \in Nat
      /\ (ix.bytes # <<>> => ix.split # NoEncoding)
  BY SizedFields, WrittenFacts DEF Sized
<1>8. /\ bytes \in Written(t) /\ Len(bytes) = Len(ix.bytes) + Len(block)
      /\ built \in Written(t) /\ Len(built) = Len(ix.built) + Len(block)
      /\ fed \in Written(t) /\ Len(fed) = Len(ix.fed) + Len(block)
  BY <1>3, <1>4, <1>5, <1>7, JoinedFacts, Bounds
<1>9. guess \in Known /\ split \in Known /\ guess # NoEncoding /\ split # NoEncoding
  BY <1>1, <1>2, <1>7, Encoded, NoEncodingAssumption DEF Known
<1>10. 0 \in 0..MaxSize
  BY Bounds
<1>11. PICK n : n = AddBlock(ix, block)
  OBVIOUS
<1>12. n = [ix EXCEPT !.bytes = bytes, !.fake = 0, !.guess = guess, !.split = split,
                      !.built = built, !.full = built, !.fed = fed]
  BY <1>6, <1>11
<1>13. /\ n \in IndexOf(t)
       /\ n.bytes = bytes /\ n.fake = 0 /\ n.built = built /\ n.full = built /\ n.fed = fed
       /\ n.forced = ix.forced /\ n.recorded = ix.recorded
       /\ n.header = ix.header /\ n.tail = ix.tail /\ n.modified = ix.modified
       /\ n.guess = guess /\ n.split = split
  BY ONLY <1>7, <1>8, <1>9, <1>10, <1>12 DEF IndexOf
<1>14. Sized(n, t)
  BY <1>7, <1>8, <1>9, <1>13, SMTT(60) DEF Sized
<1> QED
  BY <1>1, <1>2, <1>3, <1>4, <1>5, <1>11, <1>13, <1>14

\* tailRange(): the tail of some bytes is some of them.
LEMMA TailFacts ==
    ASSUME NEW n \in Nat
    PROVE  TailOffset(n) \in 0..n /\ (n > 0 => TailOffset(n) < n)
<1> DEFINE h == DigestBlock \div 2
           q == n \div h
<1>1. DigestBlock \in Nat /\ DigestBlock >= 2
  BY DigestBlockAssumption
<1>2. h \in Nat /\ h >= 1 /\ 2 * h <= DigestBlock
  BY <1>1
<1>3. CASE n < DigestBlock
  BY <1>3 DEF TailOffset
<1>4. CASE ~(n < DigestBlock)
  <2>1. TailOffset(n) = (q - 1) * h
    BY <1>4 DEF TailOffset
  <2>2. n >= 2 * h
    BY <1>1, <1>2, <1>4
  <2> HIDE DEF h
  <2>3. q \in Nat /\ q * h <= n /\ n < (q + 1) * h
    BY <1>2
  <2> HIDE DEF q
  <2>4. q >= 1
    BY ONLY <1>2, <2>2, <2>3
  <2>5. q * h = (q - 1) * h + h
    BY ONLY <1>2, <2>3
  <2>6. (q - 1) * h >= 0 /\ (q - 1) * h \in Int
    BY ONLY <1>2, <2>3, <2>4
  <2> QED
    BY <1>2, <2>1, <2>3, <2>5, <2>6
<1> QED
  BY <1>1, <1>3, <1>4

\* recordHeaderAndTail(): what the digests are of then.  The tail is the last
\* of what the running digests were taken of, or read from the Log File; so is
\* a header that was not all there.
LEMMA RecordFacts ==
    ASSUME NEW t \in Nat, NEW ix, Sized(ix, t), NEW log \in Written(t),
           NEW from \in Nat, NEW size \in Nat
    PROVE  LET n == RecordHeaderAndTail(ix, from, size, log)
               end == Len(ix.bytes)
               offset == TailOffset(end)
           IN  /\ Sized(n, t)
               /\ n.bytes = ix.bytes /\ n.fake = ix.fake /\ n.built = ix.built /\ n.full = ix.full
               /\ n.forced = ix.forced /\ n.recorded = ix.recorded /\ n.guess = ix.guess
               /\ n.split = ix.split /\ n.modified = ix.modified
               /\ \/ n.fed = ix.fed
                  \/ n.fed = <<>>
                  \/ /\ Len(log) >= end /\ Len(n.fed) = end - offset
                     /\ \A half \in 1..(end - offset) : n.fed[half] = log[offset + half]
               /\ \/ /\ end - offset <= Len(ix.fed) /\ Len(n.tail) = end - offset
                     /\ \A half \in 1..(end - offset) :
                           n.tail[half] = ix.fed[Len(ix.fed) - (end - offset) + half]
                  \/ /\ Len(log) >= end => Len(n.tail) = end - offset
                     /\ \A half \in 1..Len(n.tail) : n.tail[half] = log[offset + half]
               /\ \/ Len(ix.header) = DigestBlock /\ n.header = ix.header
                  \/ /\ Len(ix.header) # DigestBlock /\ Len(ix.fed) = end /\ n.fed = ix.fed
                     /\ Len(n.header) = Lesser(end, DigestBlock) /\ Prefix(n.header, ix.fed)
                  \/ /\ Len(ix.header) # DigestBlock
                     /\ Len(n.header) = Lesser(Lesser(end, DigestBlock), Len(log)) /\ Prefix(n.header, log)
               /\ Len(n.fed) = end /\ Len(n.header) # DigestBlock => n.header = n.fed
<1>14. PICK end : end = Len(ix.bytes)
  OBVIOUS
<1>15. PICK offset : offset = TailOffset(end)
  OBVIOUS
<1> DEFINE Again(first, last) == SubSeq(log, first, Lesser(last, Len(log)))
           headerEnd == Lesser(end, DigestBlock)
<1>1. PICK covered \in BOOLEAN : covered <=> CoversTail(ix, from, size)
  BY Zenon DEF CoversTail
<1>2. PICK startsOver \in BOOLEAN : startsOver <=> ~covered /\ Len(log) >= end
  BY Zenon
<1>3. PICK fed : fed = IF startsOver THEN Again(offset + 1, end) ELSE ix.fed
  OBVIOUS
<1>4. PICK tail : tail = IF covered THEN SubSeq(fed, Len(fed) - (end - offset) + 1, Len(fed))
                         ELSE Again(offset + 1, end)
  OBVIOUS
<1>5. PICK header : header = IF Len(ix.header) = DigestBlock THEN ix.header
                             ELSE IF Len(fed) = end THEN SubSeq(fed, 1, headerEnd)
                             ELSE Again(1, headerEnd)
  OBVIOUS
<1>6. PICK left : left = IF startsOver /\ offset > 0 /\ TailOffset(size) > offset THEN <<>> ELSE fed
  OBVIOUS
<1>7. PICK n : n = RecordHeaderAndTail(ix, from, size, log)
  OBVIOUS
<1>8. n = [ix EXCEPT !.tail = tail, !.header = header, !.fed = left]
  BY <1>1, <1>2, <1>3, <1>4, <1>5, <1>6, <1>7, <1>14, <1>15, Zenon DEF RecordHeaderAndTail
<1>9. /\ ix \in IndexOf(t) /\ end \in 0..MaxSize /\ Len(log) \in 0..MaxSize /\ DigestBlock \in Nat
      /\ DigestBlock >= 2 /\ ix.fed \in Written(t) /\ Len(ix.fed) \in Nat /\ Len(ix.fed) <= end
      /\ ix.header \in Written(t) /\ Len(ix.header) \in Nat /\ Len(ix.header) <= end /\ MaxSize \in Nat
  <2>1. ix \in IndexOf(t)
    BY DEF Sized
  <2>2. /\ Len(ix.bytes) \in 0..MaxSize /\ ix.fed \in Written(t) /\ Len(ix.fed) \in 0..MaxSize
        /\ ix.header \in Written(t) /\ Len(ix.header) \in 0..MaxSize
        /\ Len(ix.fed) <= Len(ix.bytes) /\ Len(ix.header) <= Len(ix.bytes)
    BY SizedFields
  <2>3. Len(log) \in 0..MaxSize
    BY WrittenFacts
  <2> QED
    BY ONLY <1>14, <2>1, <2>2, <2>3, DigestBlockAssumption, Bounds
<1>10. offset \in 0..end /\ (end > 0 => offset < end)
  BY <1>9, <1>15, TailFacts
<1>11. covered => end - offset <= Len(ix.fed)
  <2>1. covered => FedFrom(ix) <= offset
    BY ONLY <1>1, <1>14, <1>15, Zenon DEF CoversTail
  <2> QED
    BY <1>9, <1>10, <1>14, <2>1 DEF FedFrom
<1>12. CASE startsOver
  <2>1. ~covered /\ Len(log) >= end /\ fed = SubSeq(log, offset + 1, end)
    <3>1. ~covered /\ Len(log) >= end
      BY <1>2, <1>12
    <3>2. Lesser(end, Len(log)) = end
      BY <1>9, <3>1 DEF Lesser
    <3> QED
      BY <1>3, <1>12, <3>1, <3>2
  <2>2. /\ fed \in Written(t) /\ Len(fed) = end - offset
        /\ \A half \in 1..(end - offset) : fed[half] = log[offset + half]
    <3>1. offset + 1 \in Nat \ {0} /\ end \in Nat /\ end <= Len(log)
      BY <1>9, <1>10, <2>1
    <3>2. /\ fed \in Written(t) /\ Len(fed) = IF offset + 1 <= end THEN end - (offset + 1) + 1 ELSE 0
          /\ \A half \in 1..(end - (offset + 1) + 1) : fed[half] = log[(offset + 1) + half - 1]
      BY <2>1, <3>1, PartFacts
    <3> QED
      BY <1>9, <1>10, <3>2
  <2>3. left \in Written(t) /\ (left = fed \/ (left = <<>> /\ offset > 0))
    BY <1>6, <2>2, WrittenEmpty
  <2>4. /\ tail \in Written(t) /\ Len(tail) = end - offset
        /\ \A half \in 1..(end - offset) : tail[half] = log[offset + half]
    <3>1. tail = fed
      BY <1>3, <1>4, <1>12, <2>1
    <3> QED
      BY <2>2, <3>1
  <2>5. CASE Len(ix.header) = DigestBlock
    <3>1. header = ix.header
      BY <1>5, <2>5
    <3>2. Len(left) <= end /\ (Len(left) = end => Len(left) = end)
      BY <1>9, <1>10, <2>2, <2>3, WrittenEmpty
    <3>3. /\ n \in IndexOf(t) /\ n.tail = tail /\ n.header = header /\ n.fed = left
          /\ n.bytes = ix.bytes /\ n.fake = ix.fake /\ n.built = ix.built /\ n.full = ix.full
          /\ n.forced = ix.forced /\ n.recorded = ix.recorded /\ n.guess = ix.guess
          /\ n.split = ix.split /\ n.modified = ix.modified
      BY ONLY <1>8, <1>9, <2>3, <2>4, <3>1 DEF IndexOf
    <3>4. Sized(n, t)
      BY <1>9, <1>14, <3>1, <3>2, <3>3 DEF Sized
    <3> QED
      BY <1>7, <1>14, <1>15, <2>1, <2>2, <2>3, <2>4, <2>5, <3>1, <3>3, <3>4
  <2>6. CASE Len(ix.header) # DigestBlock
    <3>1. headerEnd \in Nat /\ headerEnd <= end /\ headerEnd <= DigestBlock /\ (headerEnd # DigestBlock => headerEnd = end)
      BY <1>9 DEF Lesser
    <3>2. Lesser(headerEnd, Len(log)) = headerEnd
      BY <1>9, <2>1, <3>1 DEF Lesser
    <3>3. /\ header \in Written(t) /\ Len(header) = headerEnd
          /\ \A half \in 1..headerEnd : header[half] = log[half]
      <4>1. CASE Len(fed) = end
        <5>1. offset = 0 \/ end = 0
          BY <1>9, <1>10, <2>2, <4>1
        <5>2. offset = 0
          BY <1>9, <1>10, <5>1
        <5>3. header = SubSeq(fed, 1, headerEnd)
          BY <1>5, <2>6, <4>1
        <5>4. /\ header \in Written(t) /\ Len(header) = headerEnd
              /\ \A half \in 1..headerEnd : header[half] = fed[half]
          BY <2>2, <3>1, <4>1, <5>3, PartFacts
        <5> QED
          BY <1>9, <2>2, <3>1, <5>2, <5>4
      <4>2. CASE Len(fed) # end
        <5>1. header = SubSeq(log, 1, headerEnd)
          BY <1>5, <2>6, <3>2, <4>2
        <5> QED
          BY <1>9, <2>1, <3>1, <5>1, PartFacts
      <4> QED
        BY <4>1, <4>2
    <3>4. Prefix(header, log)
      BY <1>9, <2>1, <3>1, <3>3 DEF Prefix
    <3>5. Len(left) = end /\ Len(header) # DigestBlock => header = left
      <4> SUFFICES ASSUME Len(left) = end, Len(header) # DigestBlock
                   PROVE  header = left
        OBVIOUS
      <4>1. left = fed /\ offset = 0
        BY <1>9, <1>10, <2>2, <2>3, WrittenEmpty
      <4>2. headerEnd = end
        BY <3>1, <3>3
      <4>3. \A half \in 1..Len(header) : header[half] = left[half]
        BY <1>9, <2>2, <3>3, <4>1, <4>2
      <4> QED
        BY <2>2, <3>3, <4>1, <4>2, <4>3, SameBytes
    <3>6. Len(left) <= end
      BY <1>9, <1>10, <2>2, <2>3, WrittenEmpty
    <3>7. Len(header) = Lesser(Lesser(end, DigestBlock), Len(log))
      BY <3>2, <3>3
    <3>8. /\ n \in IndexOf(t) /\ n.tail = tail /\ n.header = header /\ n.fed = left
          /\ n.bytes = ix.bytes /\ n.fake = ix.fake /\ n.built = ix.built /\ n.full = ix.full
          /\ n.forced = ix.forced /\ n.recorded = ix.recorded /\ n.guess = ix.guess
          /\ n.split = ix.split /\ n.modified = ix.modified
      BY ONLY <1>8, <1>9, <2>3, <2>4, <3>3 DEF IndexOf
    <3>9. Sized(n, t)
      BY <1>14, <1>9, <3>1, <3>3, <3>6, <3>8 DEF Sized
    <3> QED
      BY <1>14, <1>15, <1>7, <2>1, <2>2, <2>3, <2>4, <2>6, <3>4, <3>5, <3>7, <3>8, <3>9
  <2> QED
    BY <2>5, <2>6
<1>13. CASE ~startsOver
  <2>1. fed = ix.fed /\ left = ix.fed
    BY <1>3, <1>6, <1>13
  <2>2. /\ tail \in Written(t)
        /\ \/ /\ end - offset <= Len(ix.fed) /\ Len(tail) = end - offset
              /\ \A half \in 1..(end - offset) : tail[half] = ix.fed[Len(ix.fed) - (end - offset) + half]
           \/ /\ Len(log) >= end => Len(tail) = end - offset
              /\ \A half \in 1..Len(tail) : tail[half] = log[offset + half]
    <3>1. CASE covered
      <4>1. tail = SubSeq(ix.fed, Len(ix.fed) - (end - offset) + 1, Len(ix.fed))
        BY <1>4, <2>1, <3>1
      <4>2. Len(ix.fed) - (end - offset) + 1 \in Nat \ {0} /\ Len(ix.fed) \in Nat
        BY <1>9, <1>10, <1>11, <3>1
      <4>3. /\ tail \in Written(t)
            /\ Len(tail) = IF Len(ix.fed) - (end - offset) + 1 <= Len(ix.fed)
                           THEN Len(ix.fed) - (Len(ix.fed) - (end - offset) + 1) + 1 ELSE 0
            /\ \A half \in 1..(Len(ix.fed) - (Len(ix.fed) - (end - offset) + 1) + 1) :
                  tail[half] = ix.fed[(Len(ix.fed) - (end - offset) + 1) + half - 1]
        <5>1. t \in Nat /\ ix.fed \in Written(t) /\ Len(ix.fed) <= Len(ix.fed)
              /\ Len(ix.fed) - (end - offset) + 1 \in Nat \ {0} /\ Len(ix.fed) \in Nat
          BY <1>9, <4>2
        <5>2. LET a == Len(ix.fed) - (end - offset) + 1
                  part == SubSeq(ix.fed, a, Len(ix.fed))
              IN  /\ part \in Written(t)
                  /\ Len(part) = IF a <= Len(ix.fed) THEN Len(ix.fed) - a + 1 ELSE 0
                  /\ \A half \in 1..(Len(ix.fed) - a + 1) : part[half] = ix.fed[a + half - 1]
          BY ONLY <5>1, PartFacts, SMTT(60)
        <5> QED
          BY ONLY <4>1, <5>2
      <4>4. /\ Len(tail) = end - offset
            /\ \A half \in 1..(end - offset) : tail[half] = ix.fed[Len(ix.fed) - (end - offset) + half]
        BY ONLY <1>9, <1>10, <4>3
      <4> QED
        BY <1>11, <3>1, <4>3, <4>4
    <3>2. CASE ~covered
      <4> DEFINE last == Lesser(end, Len(log))
      <4>1. tail = SubSeq(log, offset + 1, last)
        BY <1>4, <3>2
      <4>2. last \in Nat /\ last <= Len(log) /\ (Len(log) >= end => last = end)
        BY <1>9 DEF Lesser
      <4> HIDE DEF last
      <4>3. offset + 1 \in Nat \ {0}
        BY <1>9, <1>10
      <4>4. /\ tail \in Written(t) /\ Len(tail) = IF offset + 1 <= last THEN last - (offset + 1) + 1 ELSE 0
            /\ \A half \in 1..(last - (offset + 1) + 1) : tail[half] = log[(offset + 1) + half - 1]
        BY <4>1, <4>2, <4>3, PartFacts
      <4>5. Len(tail) \in Nat /\ (Len(tail) > 0 => Len(tail) = last - offset)
        BY ONLY <1>9, <1>10, <4>2, <4>4
      <4>6. \A half \in 1..Len(tail) : tail[half] = log[offset + half]
        BY ONLY <1>9, <1>10, <4>2, <4>4, <4>5
      <4>7. Len(log) >= end => Len(tail) = end - offset
        BY ONLY <1>9, <1>10, <4>2, <4>4
      <4> QED
        BY <4>4, <4>6, <4>7
    <3> QED
      BY <3>1, <3>2
  <2>3. headerEnd \in Nat /\ headerEnd <= end /\ headerEnd <= DigestBlock /\ (headerEnd # DigestBlock => headerEnd = end)
    BY <1>9 DEF Lesser
  <2>4. /\ header \in Written(t) /\ Len(header) <= end
        /\ \/ Len(ix.header) = DigestBlock /\ header = ix.header
           \/ /\ Len(ix.header) # DigestBlock /\ Len(ix.fed) = end
              /\ Len(header) = Lesser(end, DigestBlock) /\ Prefix(header, ix.fed)
           \/ /\ Len(ix.header) # DigestBlock
              /\ Len(header) = Lesser(Lesser(end, DigestBlock), Len(log)) /\ Prefix(header, log)
        /\ Len(ix.fed) = end /\ Len(header) # DigestBlock => header = ix.fed
    <3>1. CASE Len(ix.header) = DigestBlock
      BY <1>5, <1>9, <3>1
    <3>2. CASE Len(ix.header) # DigestBlock /\ Len(ix.fed) = end
      <4>1. header = SubSeq(ix.fed, 1, headerEnd)
        BY <1>5, <2>1, <3>2
      <4>2. /\ header \in Written(t) /\ Len(header) = headerEnd
            /\ \A half \in 1..headerEnd : header[half] = ix.fed[half]
        BY <1>9, <2>3, <3>2, <4>1, PartFacts
      <4>3. Prefix(header, ix.fed)
        BY <1>9, <2>3, <3>2, <4>2 DEF Prefix
      <4>4. Len(header) # DigestBlock => header = ix.fed
        BY <1>9, <2>3, <3>2, <4>2, <4>3, PrefixWhole
      <4> QED
        BY <1>9, <2>3, <3>2, <4>2, <4>3, <4>4
    <3>3. CASE Len(ix.header) # DigestBlock /\ Len(ix.fed) # end
      <4> DEFINE last == Lesser(headerEnd, Len(log))
      <4>1. header = SubSeq(log, 1, last)
        BY <1>5, <2>1, <3>3
      <4>2. last \in Nat /\ last <= Len(log) /\ last <= end
        BY <1>9, <2>3 DEF Lesser
      <4>3. /\ header \in Written(t) /\ Len(header) = last
            /\ \A half \in 1..last : header[half] = log[half]
        BY <4>1, <4>2, PartFacts
      <4>4. Prefix(header, log)
        BY <1>9, <4>2, <4>3 DEF Prefix
      <4> QED
        BY <3>3, <4>2, <4>3, <4>4
    <3> QED
      BY <3>1, <3>2, <3>3
  <2>5. /\ n \in IndexOf(t) /\ n.tail = tail /\ n.header = header /\ n.fed = ix.fed
        /\ n.bytes = ix.bytes /\ n.fake = ix.fake /\ n.built = ix.built /\ n.full = ix.full
        /\ n.forced = ix.forced /\ n.recorded = ix.recorded /\ n.guess = ix.guess
        /\ n.split = ix.split /\ n.modified = ix.modified
    <3>1. n = [ix EXCEPT !.tail = tail, !.header = header, !.fed = ix.fed]
      BY <1>8, <2>1
    <3> QED
      BY ONLY <1>9, <2>2, <2>4, <3>1 DEF IndexOf
  <2>6. Sized(n, t)
    BY <1>14, <2>4, <2>5 DEF Sized
  <2> QED
    BY <1>14, <1>15, <1>7, <2>2, <2>4, <2>5, <2>6
<1> QED
  BY <1>12, <1>13

\* The end of doIndex(): the digests, a fake line feed where the Log File
\* ended, and an Encoding.
LEMMA CompletedFacts ==
    ASSUME NEW t \in Nat, NEW ix, Sized(ix, t), NEW log \in Written(t),
           NEW from \in Nat, NEW size \in 0..MaxSize, NEW modified \in Nat
    PROVE  LET n == Completed(ix, from, size, log, modified)
               r == RecordHeaderAndTail(ix, from, size, log)
           IN  /\ Sized(n, t) /\ n.recorded
               /\ n.bytes = ix.bytes /\ n.built = ix.built /\ n.full = ix.full /\ n.forced = ix.forced
               /\ n.header = r.header /\ n.tail = r.tail /\ n.fed = r.fed
               /\ n.guess = (IF ix.guess = NoEncoding THEN Detected ELSE ix.guess)
               /\ n.split = (IF ix.split = NoEncoding THEN Detected ELSE ix.split)
<1>1. PICK r : r = RecordHeaderAndTail(ix, from, size, log)
  OBVIOUS
<1>2. /\ Sized(r, t) /\ r.bytes = ix.bytes /\ r.built = ix.built /\ r.full = ix.full
      /\ r.forced = ix.forced /\ r.guess = ix.guess /\ r.split = ix.split
  BY <1>1, RecordFacts
<1>3. PICK fake : fake = IF size > OpenLine(ix, from) THEN size ELSE r.fake
  OBVIOUS
<1>4. PICK stamp : stamp = IF Len(log) = Len(ix.bytes) THEN modified ELSE 0
  OBVIOUS
<1>5. PICK guess : guess = IF r.guess = NoEncoding THEN Detected ELSE r.guess
  OBVIOUS
<1>6. PICK split : split = IF r.split = NoEncoding THEN Detected ELSE r.split
  OBVIOUS
<1>7. PICK n : n = Completed(ix, from, size, log, modified)
  OBVIOUS
<1>8. n = [r EXCEPT !.fake = fake, !.recorded = TRUE, !.modified = stamp, !.guess = guess, !.split = split]
  BY <1>1, <1>3, <1>4, <1>5, <1>6, <1>7, Zenon DEF Completed
<1>9. /\ r \in IndexOf(t) /\ fake \in 0..MaxSize /\ stamp \in Nat /\ guess \in Known /\ split \in Known
      /\ split # NoEncoding
  BY <1>2, <1>3, <1>4, <1>5, <1>6, SizedFields, Encoded, NoEncodingAssumption DEF Known, Sized
<1>10. /\ n \in IndexOf(t) /\ n.recorded /\ n.guess = guess /\ n.split = split
       /\ n.bytes = r.bytes /\ n.built = r.built /\ n.full = r.full /\ n.forced = r.forced
       /\ n.header = r.header /\ n.tail = r.tail /\ n.fed = r.fed
  BY ONLY <1>8, <1>9 DEF IndexOf
<1>11. Sized(n, t)
  BY <1>2, <1>9, <1>10 DEF Sized
<1> QED
  BY <1>1, <1>2, <1>5, <1>6, <1>7, <1>10, <1>11

-----------------------------------------------------------------------------
(* An entry of the Index Cache.                                            *)

\* trySave()
LEMMA EntryFacts ==
    ASSUME NEW t \in Nat, NEW ix, Sized(ix, t)
    PROVE  LET n == Entry(ix)
           IN  /\ Sized(n, t) /\ n.built = <<>> /\ n.fed = <<>> /\ n.forced = NoEncoding
               /\ n.bytes = ix.bytes /\ n.full = ix.full /\ n.header = ix.header /\ n.tail = ix.tail
               /\ n.guess = ix.guess /\ n.split = ix.split /\ n.recorded = ix.recorded
<1>1. PICK n : n = Entry(ix)
  OBVIOUS
<1>2. n = [ix EXCEPT !.forced = NoEncoding, !.built = <<>>, !.fed = <<>>, !.modified = 0]
  BY <1>1 DEF Entry
<1>3. ix \in IndexOf(t) /\ NoEncoding \in Known /\ <<>> \in Written(t) /\ Len(<<>>) = 0
      /\ Len(ix.bytes) \in Nat
  BY WrittenEmpty, SizedFields DEF Sized, Known
<1>4. /\ n \in IndexOf(t) /\ n.built = <<>> /\ n.fed = <<>> /\ n.forced = NoEncoding
      /\ n.bytes = ix.bytes /\ n.full = ix.full /\ n.header = ix.header /\ n.tail = ix.tail
      /\ n.guess = ix.guess /\ n.split = ix.split /\ n.recorded = ix.recorded
  BY ONLY <1>2, <1>3 DEF IndexOf
<1>5. Sized(n, t)
  BY <1>3, <1>4 DEF Sized
<1> QED
  BY <1>1, <1>4, <1>5

\* loadFromCache()
LEMMA LoadedFacts ==
    ASSUME NEW t \in Nat, NEW ix, Sized(ix, t), NEW forced \in Known
    PROVE  LET n == LoadedFromCache(ix, forced)
           IN  /\ Sized(n, t) /\ n.forced = forced
               /\ n.built = ix.built /\ n.fed = ix.fed
               /\ n.bytes = ix.bytes /\ n.full = ix.full /\ n.header = ix.header /\ n.tail = ix.tail
               /\ n.guess = ix.guess /\ n.split = ix.split /\ n.recorded = ix.recorded
  BY DEF LoadedFromCache, Sized, IndexOf

\* resumeFrom(): within what the entry is of.
LEMMA ResumeFacts ==
    ASSUME NEW t \in Nat, NEW ix, Sized(ix, t)
    PROVE  ResumeOffset(ix) \in 0..Len(ix.bytes)
<1>1. Len(ix.bytes) \in Nat
  BY SizedFields
<1>2. Whole(ix) \in Nat /\ 2 * Whole(ix) <= Len(ix.bytes)
  BY <1>1, Halves DEF Whole
<1>3. LineCount(ix) = Whole(ix) \/ LineCount(ix) = Whole(ix) + 1
  BY <1>2 DEF LineCount
<1> QED
  BY <1>1, <1>2, <1>3 DEF ResumeOffset

LEMMA ResumedFacts ==
    ASSUME NEW t \in Nat, NEW ix, Sized(ix, t), NEW forced \in Known, NEW log \in Written(t),
           ResumeOffset(ix) <= Len(log)
    PROVE  LET n == ResumedFromCache(ix, forced, log)
               offset == ResumeOffset(ix)
           IN  /\ Sized(n, t) /\ n.bytes = SubSeq(ix.bytes, 1, offset) /\ Len(n.bytes) = offset
               /\ n.full = SubSeq(log, 1, offset) /\ n.built = n.full /\ Len(n.full) = offset
               /\ n.fed = <<>> /\ n.header = <<>> /\ n.tail = <<>> /\ ~n.recorded
               /\ n.forced = forced /\ n.guess = ix.guess /\ n.split = ix.split
               /\ \A half \in 1..offset : n.bytes[half] = ix.bytes[half] /\ n.full[half] = log[half]
<1>1. PICK offset : offset = ResumeOffset(ix)
  OBVIOUS
<1>2. offset \in Nat /\ offset <= Len(ix.bytes) /\ offset <= Len(log) /\ Len(ix.bytes) \in Nat
      /\ ix.bytes \in Written(t)
  BY <1>1, ResumeFacts, SizedFields
<1>3. PICK bytes : bytes = SubSeq(ix.bytes, 1, offset)
  OBVIOUS
<1>4. PICK prefix : prefix = SubSeq(log, 1, offset)
  OBVIOUS
<1>5. /\ bytes \in Written(t) /\ Len(bytes) = offset /\ \A half \in 1..offset : bytes[half] = ix.bytes[half]
      /\ prefix \in Written(t) /\ Len(prefix) = offset /\ \A half \in 1..offset : prefix[half] = log[half]
  <2>1. ASSUME NEW x \in Written(t), offset <= Len(x)
        PROVE  /\ SubSeq(x, 1, offset) \in Written(t) /\ Len(SubSeq(x, 1, offset)) = offset
               /\ \A half \in 1..offset : SubSeq(x, 1, offset)[half] = x[half]
    <3>1. /\ SubSeq(x, 1, offset) \in Written(t)
          /\ Len(SubSeq(x, 1, offset)) = IF 1 <= offset THEN offset - 1 + 1 ELSE 0
          /\ \A half \in 1..(offset - 1 + 1) : SubSeq(x, 1, offset)[half] = x[1 + half - 1]
      BY <1>2, <2>1, PartFacts
    <3> QED
      BY <1>2, <3>1
  <2> QED
    BY <1>2, <1>3, <1>4, <2>1
<1>6. PICK n : n = ResumedFromCache(ix, forced, log)
  OBVIOUS
<1>7. n = [Cleared EXCEPT !.bytes = bytes, !.guess = ix.guess, !.forced = forced,
                          !.split = ix.split, !.built = prefix, !.full = prefix]
  BY <1>1, <1>3, <1>4, <1>6, Zenon DEF ResumedFromCache
<1>8. ix.guess \in Known /\ ix.split \in Known /\ <<>> \in Written(t) /\ Len(<<>>) = 0
      /\ 0 \in 0..MaxSize
  BY SizedFields, WrittenEmpty, Bounds
<1>9. Cleared \in IndexOf(t) /\ Cleared.fed = <<>> /\ Cleared.header = <<>> /\ Cleared.tail = <<>>
      /\ Cleared.recorded = FALSE
  BY ClearedIsSized DEF Sized, Cleared
<1>10. /\ n \in IndexOf(t) /\ n.bytes = bytes /\ n.guess = ix.guess /\ n.forced = forced
       /\ n.split = ix.split /\ n.built = prefix /\ n.full = prefix
       /\ n.fed = <<>> /\ n.header = <<>> /\ n.tail = <<>> /\ n.recorded = FALSE
  BY ONLY <1>5, <1>7, <1>8, <1>9, forced \in Known DEF IndexOf
<1>11. bytes # <<>> => ix.bytes # <<>>
  BY <1>2, <1>5, WrittenFacts
<1>12. Sized(n, t)
  BY <1>2, <1>5, <1>8, <1>10, <1>11 DEF Sized
<1> QED
  BY <1>1, <1>3, <1>4, <1>5, <1>6, <1>10, <1>12

-----------------------------------------------------------------------------
(* Log Lines, and what readers are told of them.                           *)

\* A Log Line as it is read.
ReadLines == [bytes : Contents, split : {Splits[encoding] : encoding \in Known}, read : Encodings]

LEMMA FunctionIsSeq ==
    ASSUME NEW S, NEW n \in Nat, NEW f \in [1..n -> S]
    PROVE  f \in Seq(S) /\ Len(f) = n
<1>1. f \in Seq(S)
  BY SeqDef
<1>2. Len(f) \in Nat /\ DOMAIN f = 1..Len(f)
  BY <1>1, LenProperties
<1>3. 1..Len(f) = 1..n
  BY <1>2
<1> QED
  BY <1>1, <1>2, <1>3

LEMMA CountFacts ==
    ASSUME NEW t \in Nat, NEW ix, Sized(ix, t)
    PROVE  /\ Whole(ix) \in Nat /\ 2 * Whole(ix) <= Len(ix.bytes) /\ Len(ix.bytes) <= 2 * Whole(ix) + 1
           /\ LineCount(ix) \in 0..MaxSize /\ Whole(ix) <= LineCount(ix)
           /\ LineCount(ix) <= Whole(ix) + 1
           /\ (LineCount(ix) = 0) <=> (Whole(ix) = 0 /\ ix.fake = 0)
<1>1. Len(ix.bytes) \in Nat /\ Len(ix.bytes) <= MaxSize /\ ix.fake \in Nat /\ ix.fake <= MaxSize
      /\ MaxSize \in Nat
  <2>1. Len(ix.bytes) \in 0..MaxSize /\ ix.fake \in 0..MaxSize
    BY SizedFields
  <2> QED
    BY <2>1, Bounds
<1>2. PICK size : size = Len(ix.bytes)
  OBVIOUS
<1>3. PICK whole : whole = size \div 2
  OBVIOUS
<1>4. Whole(ix) = whole
  BY <1>2, <1>3 DEF Whole
<1>5. size \in Nat /\ size <= MaxSize
  BY <1>1, <1>2
<1>6. whole \in Nat /\ 2 * whole <= size /\ size <= 2 * whole + 1
  BY ONLY <1>3, <1>5, Halves
<1>7. PICK count : count = LineCount(ix)
  OBVIOUS
<1>8. count = whole + IF ix.fake > 0 THEN 1 ELSE 0
  BY <1>4, <1>7 DEF LineCount
<1>9. /\ count \in 0..MaxSize /\ whole <= count /\ count <= whole + 1
      /\ (count = 0) <=> (whole = 0 /\ ix.fake = 0)
  BY ONLY <1>1, <1>5, <1>6, <1>8
<1> QED
  BY <1>2, <1>4, <1>6, <1>7, <1>9

LEMMA LinesFacts ==
    ASSUME NEW t \in Nat, t <= MaxChanges + 1, NEW ix, Sized(ix, t), NEW encoding \in Encodings
    PROVE  /\ LinesOf(ix, encoding) \in Seq(ReadLines) /\ Len(LinesOf(ix, encoding)) = LineCount(ix)
           /\ LinesOf(ix, encoding) \in [1..LineCount(ix) -> ReadLines]
<1>1. /\ Whole(ix) \in Nat /\ 2 * Whole(ix) <= Len(ix.bytes) /\ LineCount(ix) \in Nat
      /\ LineCount(ix) <= Whole(ix) + 1
  BY CountFacts, Bounds
<1>2. ix.bytes \in Written(t) /\ Len(ix.bytes) \in Nat /\ ix.fake \in Nat /\ ix.split \in Known
  BY SizedFields
<1>3. ASSUME NEW line \in 1..LineCount(ix)
      PROVE  LineBytes(ix, line) \in Contents
  <2> DEFINE end == IF line <= Whole(ix) THEN 2 * line ELSE Lesser(ix.fake, Len(ix.bytes))
  <2>1. end \in Nat /\ end <= Len(ix.bytes)
    BY <1>1, <1>2 DEF Lesser
  <2>2. 2 * line - 1 \in Nat \ {0}
    OBVIOUS
  <2>3. LineBytes(ix, line) = SubSeq(ix.bytes, 2 * line - 1, end)
    BY DEF LineBytes
  <2> HIDE DEF end
  <2>4. LineBytes(ix, line) \in Written(t)
    BY <1>2, <2>1, <2>2, <2>3, PartFacts
  <2> QED
    BY <2>4, WrittenContents
<1>4. LinesOf(ix, encoding) \in [1..LineCount(ix) -> ReadLines]
  BY <1>2, <1>3 DEF LinesOf, ReadLines
<1> QED
  BY <1>1, <1>4, FunctionIsSeq

\* logLinesChanged()
LEMMA ToldFacts ==
    ASSUME NEW t \in Nat, t <= MaxChanges + 1, NEW ix, Sized(ix, t), NEW encoding \in Encodings,
           NEW first \in Nat, told \in Seq(ReadLines), Len(told) <= MaxSize
    PROVE  LET kept == Lesser(first, Len(told))
               news == ToldFrom(first, ix, encoding)
           IN  /\ news \in Seq(ReadLines) /\ Len(news) = Greater(LineCount(ix), kept)
               /\ Len(news) <= MaxSize
               /\ (kept <= LineCount(ix) /\ \A line \in 1..kept : told[line] = LinesOf(ix, encoding)[line])
                     => news = LinesOf(ix, encoding)
<1>1. PICK kept : kept = Lesser(first, Len(told))
  OBVIOUS
<1>2. Len(told) \in Nat /\ \A line \in 1..Len(told) : told[line] \in ReadLines
  BY ElementOfSeq, LenProperties
<1>3. kept \in Nat /\ kept <= Len(told)
  BY <1>1, <1>2 DEF Lesser
<1>4. LineCount(ix) \in Nat /\ LineCount(ix) <= MaxSize /\ MaxSize \in Nat
  BY CountFacts, Bounds
<1>5. LinesOf(ix, encoding) \in [1..LineCount(ix) -> ReadLines]
  BY LinesFacts
<1>6. PICK count : count = Greater(LineCount(ix), kept)
  OBVIOUS
<1>7. count \in Nat /\ count <= MaxSize /\ (kept <= LineCount(ix) => count = LineCount(ix))
      /\ \A line \in 1..count : line <= kept \/ line \in 1..LineCount(ix)
  BY <1>3, <1>4, <1>6 DEF Greater
<1>8. PICK news : news = ToldFrom(first, ix, encoding)
  OBVIOUS
<1>9. news = [line \in 1..count |-> IF line <= kept THEN told[line] ELSE LinesOf(ix, encoding)[line]]
  BY <1>1, <1>6, <1>8, Zenon DEF ToldFrom
<1>10. news \in [1..count -> ReadLines]
  BY ONLY <1>2, <1>3, <1>5, <1>7, <1>9
<1>11. news \in Seq(ReadLines) /\ Len(news) = count
  BY <1>7, <1>10, FunctionIsSeq
<1>12. ASSUME kept <= LineCount(ix), \A line \in 1..kept : told[line] = LinesOf(ix, encoding)[line]
       PROVE  news = LinesOf(ix, encoding)
  <2>1. count = LineCount(ix)
    BY <1>7, <1>12
  <2>2. \A line \in 1..count : news[line] = LinesOf(ix, encoding)[line]
    BY <1>3, <1>7, <1>9, <1>12
  <2> QED
    <3>1. LinesOf(ix, encoding) \in Seq(ReadLines) /\ Len(LinesOf(ix, encoding)) = LineCount(ix)
      BY LinesFacts
    <3>2. Len(news) = Len(LinesOf(ix, encoding)) /\ Len(news) = count
      BY <1>11, <2>1, <3>1
    <3> QED
      BY <1>11, <2>2, <3>1, <3>2, SeqEqual
<1> QED
  BY <1>1, <1>6, <1>7, <1>8, <1>11, <1>12

LEMMA ToldAllFacts ==
    ASSUME NEW t \in Nat, t <= MaxChanges + 1, NEW ix, Sized(ix, t), NEW encoding \in Encodings,
           told \in Seq(ReadLines), Len(told) <= MaxSize
    PROVE  ToldAll(ix, encoding) = LinesOf(ix, encoding)
<1>1. Len(told) \in Nat
  BY LenProperties
<1>2. Lesser(0, Len(told)) = 0
  BY <1>1 DEF Lesser
<1>3. LineCount(ix) \in Nat
  BY CountFacts
<1>4. ToldFrom(0, ix, encoding) = LinesOf(ix, encoding)
  <2>1. 0 \in Nat /\ Lesser(0, Len(told)) <= LineCount(ix)
        /\ \A line \in 1..Lesser(0, Len(told)) : told[line] = LinesOf(ix, encoding)[line]
    BY ONLY <1>2, <1>3
  <2>2. told \in Seq(ReadLines) /\ Len(told) <= MaxSize /\ t \in Nat /\ t <= MaxChanges + 1
        /\ Sized(ix, t) /\ encoding \in Encodings
    OBVIOUS
  <2> QED
    BY ONLY <2>1, <2>2, ToldFacts, SMTT(60)
<1> QED
  BY <1>4 DEF ToldAll

-----------------------------------------------------------------------------
(* The jobs.                                                               *)

Runs == [at : {"off", "queued", "resuming", "reading", "ended", "told"}, superseded : BOOLEAN,
         from : 0..MaxSize, size : 0..MaxSize, outcome : {"None"} \cup Loaded \cup Checked,
         done : BOOLEAN, short : BOOLEAN]

LEMMA RunsAre ==
    /\ NoRun \in Runs /\ NoRun.at = "off" /\ NoRun.outcome = "None" /\ ~NoRun.superseded
    /\ Queued \in Runs /\ Queued.at = "queued" /\ Queued.outcome = "None" /\ ~Queued.superseded
    /\ ~NoRun.short /\ ~Queued.short /\ ~NoRun.done /\ ~Queued.done
<1>1. 0 \in 0..MaxSize
  BY Bounds
<1>2. NoRun \in Runs
  BY <1>1 DEF NoRun, Runs
<1>3. NoRun.at = "off" /\ NoRun.outcome = "None" /\ NoRun.superseded = FALSE /\ NoRun.short = FALSE
      /\ NoRun.done = FALSE
  BY DEF NoRun
<1>4. Queued = [NoRun EXCEPT !.at = "queued"]
  BY DEF Queued
<1>5. /\ Queued \in Runs /\ Queued.at = "queued" /\ Queued.outcome = NoRun.outcome
      /\ Queued.superseded = NoRun.superseded /\ Queued.short = NoRun.short /\ Queued.done = NoRun.done
  BY ONLY <1>2, <1>4 DEF Runs
<1> QED
  BY <1>2, <1>3, <1>5

\* Only a full job forces an Encoding.
Job(job) == job \in Jobs /\ (job.kind \notin {"Explicit", "Attach"} => job.encoding = NoEncoding)

JobsTyped ==
    /\ queue \in [running : Jobs, waiting : Jobs] /\ Job(queue.running) /\ Job(queue.waiting)
    /\ queue.waiting.kind # "Attach"
    /\ run \in Runs
    /\ (run.at = "off") <=> (queue.running = NoJob)
    /\ queue.running = NoJob => queue.waiting = NoJob

\* Jobs are told apart by their kind, those that force no Encoding.
LEMMA JobKinds ==
    ASSUME NEW job, Job(job)
    PROVE  /\ (job = NoJob) <=> (job.kind = "None")
           /\ (job = Check) <=> (job.kind = "Check")
           /\ (job = Partial) <=> (job.kind = "Partial")
           /\ (job = Automatic) <=> (job.kind = "Automatic")
           /\ job.kind \in {"None", "Check", "Partial", "Automatic", "Explicit", "Attach"}
           /\ job.encoding \in Known
  BY DEF Job, Jobs, NoJob, Check, Partial, Automatic, IndexKinds, FullKinds, Known

LEMMA JobsAre ==
    /\ Job(NoJob) /\ Job(Check) /\ Job(Partial) /\ Job(Automatic)
    /\ \A encoding \in Known : Job(Explicit(encoding)) /\ Job(Attach(encoding))
    /\ NoJob.kind = "None" /\ Check.kind = "Check" /\ Partial.kind = "Partial"
    /\ Automatic.kind = "Automatic" /\ Automatic.encoding = NoEncoding
    /\ \A encoding : /\ Explicit(encoding).kind = "Explicit" /\ Explicit(encoding).encoding = encoding
                     /\ Attach(encoding).kind = "Attach" /\ Attach(encoding).encoding = encoding
  BY DEF Job, Jobs, NoJob, Check, Partial, Automatic, Explicit, Attach, IndexKinds, FullKinds, Known

\* waitingIndexJob(): the stronger job, the arriving one of two as strong.
LEMMA WaitingFacts ==
    ASSUME NEW waiting, NEW job, Job(waiting), Job(job), waiting.kind # "Attach", job.kind # "Attach"
    PROVE  WaitingIndexJob(waiting, job) =
              IF Strength[job.kind] >= Strength[waiting.kind] THEN job ELSE waiting
  BY DEF WaitingIndexJob, WithEncodingOf

LEMMA EnqueueFacts ==
    ASSUME JobsTyped, NEW job, Job(job), job.kind \in {"Check", "Partial", "Automatic", "Explicit"}
    PROVE  LET q == Enqueue(queue, job)
           IN  /\ q \in [running : Jobs, waiting : Jobs]
               /\ queue.running = NoJob => q.running = job /\ q.waiting = NoJob
               /\ queue.running # NoJob =>
                     /\ q.running = queue.running
                     /\ q.waiting = IF Strength[job.kind] >= Strength[queue.waiting.kind]
                                    THEN job ELSE queue.waiting
<1>1. PICK met : met = WaitingIndexJob(queue.waiting, job)
  OBVIOUS
<1>2. /\ queue \in [running : Jobs, waiting : Jobs] /\ Job(queue.waiting) /\ queue.waiting.kind # "Attach"
      /\ queue.running = NoJob => queue.waiting = NoJob
  BY DEF JobsTyped
<1>3. met = IF Strength[job.kind] >= Strength[queue.waiting.kind] THEN job ELSE queue.waiting
  BY <1>1, <1>2, WaitingFacts
<1>4. met \in Jobs /\ NoJob \in Jobs
  BY <1>2, <1>3, JobsAre DEF Job
<1>5. queue.waiting = NoJob => met = job
  <2>1. Strength[job.kind] >= Strength["None"]
    BY DEF Strength
  <2> QED
    BY <1>3, <2>1, JobsAre
<1>6. PICK q : q = Enqueue(queue, job)
  OBVIOUS
<1>7. CASE queue.running = NoJob
  <2>1. q = [running |-> [queue EXCEPT !.waiting = met].waiting, waiting |-> NoJob]
    BY <1>1, <1>6, <1>7, Zenon DEF Enqueue, StartWaiting
  <2>2. [queue EXCEPT !.waiting = met].waiting = met
    BY ONLY <1>2, <1>4
  <2>3. q = [running |-> job, waiting |-> NoJob]
    BY <1>2, <1>5, <1>7, <2>1, <2>2
  <2> QED
    BY <1>4, <1>6, <1>7, <2>3 DEF Job
<1>8. CASE queue.running # NoJob
  <2>1. q = [queue EXCEPT !.waiting = met]
    BY <1>1, <1>6, <1>8, Zenon DEF Enqueue
  <2> QED
    BY ONLY <1>2, <1>3, <1>4, <1>6, <1>8, <2>1
<1> QED
  BY <1>7, <1>8

\* enqueueJob(): the job runs where none ran, and meets the one that waits
\* else.
LEMMA EnqueuedFacts ==
    ASSUME JobsTyped, NEW job, Job(job), job.kind \in {"Check", "Partial", "Automatic", "Explicit"},
           NEW r \in Runs, (r.at = "off") <=> (queue.running = NoJob), Enqueued(job, r)
    PROVE  /\ JobsTyped'
           /\ \/ /\ queue.running = NoJob /\ queue'.running = job /\ queue'.waiting = NoJob
                 /\ run' = Queued
              \/ /\ queue.running # NoJob /\ queue'.running = queue.running /\ run' = r
                 /\ queue'.waiting = IF Strength[job.kind] >= Strength[queue.waiting.kind]
                                     THEN job ELSE queue.waiting
<1>1. /\ queue' \in [running : Jobs, waiting : Jobs]
      /\ queue.running = NoJob => queue'.running = job /\ queue'.waiting = NoJob
      /\ queue.running # NoJob =>
            /\ queue'.running = queue.running
            /\ queue'.waiting = IF Strength[job.kind] >= Strength[queue.waiting.kind]
                                THEN job ELSE queue.waiting
  BY EnqueueFacts DEF Enqueued
<1>2. run' = IF queue.running = NoJob /\ queue'.running # NoJob THEN Queued ELSE r
  BY DEF Enqueued
<1>3. job # NoJob
  BY JobsAre
<1>4. Queued \in Runs /\ Queued.at = "queued"
  BY RunsAre
<1>5. Job(NoJob) /\ NoJob.kind = "None"
  BY JobsAre
<1> QED
  BY <1>1, <1>2, <1>3, <1>4, <1>5 DEF JobsTyped

\* interrupt()
LEMMA InterruptedFacts ==
    ASSUME NEW r \in Runs
    PROVE  /\ Interrupted(r) \in Runs /\ Interrupted(r).at = r.at /\ Interrupted(r).outcome = r.outcome
           /\ Interrupted(r).short = r.short /\ Interrupted(r).done = r.done
           /\ r.superseded => Interrupted(r).superseded
           /\ Interrupted(r).superseded \/ Interrupted(r) = r
           /\ r.at \in {"queued", "resuming", "reading"} => Interrupted(r).superseded
           /\ r.at \notin {"queued", "resuming", "reading"} => Interrupted(r) = r
  BY DEF Interrupted, Runs

-----------------------------------------------------------------------------
(* Types, of every reachable state.                                        *)

\* What is on disk was written up to now.
DiskTyped ==
    /\ counts \in [changes : 0..MaxChanges, reloads : Nat, chosen : Nat, stops : Nat, failures : Nat]
    /\ logFile \in Written(ModificationTime)
    /\ unreported \in BOOLEAN /\ watched \in BOOLEAN /\ rewritten \in BOOLEAN

\* So was what is indexed, and cached.
IndexTyped ==
    /\ Sized(index, ModificationTime) /\ Sized(cache, ModificationTime)
    /\ linesBefore \in 0..MaxSize

ToldTyped ==
    /\ told \in Seq(ReadLines) /\ Len(told) <= MaxSize
    /\ display \in Encodings /\ chosen \in Known /\ settled \in Known
    /\ process \in {"up", "closed", "crashed"}
    /\ lost \in {"Nothing", "Everything", "Added", "Rest"} /\ unsettled \in BOOLEAN

TypeInv == DiskTyped /\ IndexTyped /\ JobsTyped /\ ToldTyped

LEMMA TimeFacts ==
    ASSUME DiskTyped
    PROVE  ModificationTime \in Nat /\ ModificationTime = counts.changes + 1
           /\ ModificationTime <= MaxChanges + 1 /\ counts.changes \in Nat
  BY Bounds DEF DiskTyped, ModificationTime

LEMMA TypeInvFacts ==
    ASSUME TypeInv
    PROVE  TypeOK
<1>1. ModificationTime \in Nat /\ ModificationTime <= MaxChanges + 1
  BY TimeFacts DEF TypeInv
<1>2. logFile \in Contents /\ index \in Indexes /\ cache \in Indexes
  BY <1>1, WrittenContents, SizedIsIndex DEF TypeInv, DiskTyped, IndexTyped
<1>3. Len(told) \in Nat /\ DOMAIN told = 1..Len(told)
  BY LenProperties DEF TypeInv, ToldTyped
<1>4. DOMAIN told \subseteq 1..MaxSize
  BY <1>3, Bounds DEF TypeInv, ToldTyped
<1> QED
  BY <1>2, <1>4, Zenon DEF TypeInv, DiskTyped, IndexTyped, JobsTyped, ToldTyped, TypeOK, Runs

\* Something happening once more.
LEMMA OnceFacts ==
    ASSUME DiskTyped, NEW name \in {"reloads", "chosen", "stops", "failures"}, Once(name)
    PROVE  /\ counts' \in [changes : 0..MaxChanges, reloads : Nat, chosen : Nat, stops : Nat, failures : Nat]
           /\ counts'.changes = counts.changes /\ ModificationTime' = ModificationTime
  BY DEF DiskTyped, Once, ModificationTime

\* A step of the worker changes the Index, its entry in the cache and the run
\* in flight only; when the Log File is read anew, that it was rewritten before;
\* and when a cached Index is taken, gone on from or left, whether it is split
\* otherwise than asked for.
OwnersUnchanged ==
    UNCHANGED <<logFile, unreported, watched, queue, linesBefore, display, chosen, settled, process, told, lost>>

LEMMA WorkerFrame ==
    ASSUME Worker
    PROVE  /\ process = "up" /\ OwnersUnchanged
           /\ BeginFull \/ UNCHANGED rewritten
           /\ \/ UNCHANGED unsettled
              \/ unsettled' = (unsettled \/ CachedOtherwise) \/ unsettled' = (unsettled \/ ~FullWaits)
           /\ ReadFails \/ FailIndex \/ FailCheck \/ UNCHANGED counts
<1> USE DEF workerUnchanged, cachedUnchanged, diskVars, encodingVars, OwnersUnchanged
<1>1. CASE BeginFull
  BY <1>1 DEF BeginFull
<1>2. CASE TakeCached \/ CheckCached \/ ResumeCached \/ BeginPartial \/ OpenMissing \/ IndexBlock
           \/ StopReading \/ EndIndex \/ RunCheck
  BY <1>2 DEF TakeCached, CheckCached, ResumeCached, LeaveIndex, BeginPartial, OpenMissing, IndexBlock,
     StopReading, EndIndex, RunCheck
<1>3. CASE ReadFails \/ FailIndex \/ FailCheck
  BY <1>3 DEF ReadFails, FailIndex, FailCheck
<1> QED
  BY <1>1, <1>2, <1>3 DEF Worker

LEMMA WorkerTyped ==
    ASSUME TypeInv, OwnersUnchanged, ModificationTime' = ModificationTime,
           counts' \in [changes : 0..MaxChanges, reloads : Nat, chosen : Nat, stops : Nat, failures : Nat],
           Sized(index', ModificationTime), Sized(cache', ModificationTime), rewritten' \in BOOLEAN,
           unsettled' \in BOOLEAN,
           run' \in Runs, run.at # "off", run'.at # "off"
    PROVE  TypeInv'
<1>1. DiskTyped'
  BY DEF TypeInv, DiskTyped, OwnersUnchanged
<1>2. IndexTyped'
  BY DEF TypeInv, IndexTyped, OwnersUnchanged
<1>3. JobsTyped'
  BY DEF TypeInv, JobsTyped, OwnersUnchanged
<1>4. ToldTyped'
  BY DEF TypeInv, ToldTyped, OwnersUnchanged
<1> QED
  BY <1>1, <1>2, <1>3, <1>4 DEF TypeInv

\* The run in flight ends.
LEMMA EndRunFacts ==
    ASSUME run \in Runs, NEW outcome \in Loaded \cup Checked, EndRun(outcome)
    PROVE  /\ run' \in Runs /\ run'.at = "ended" /\ run'.outcome = outcome
           /\ run'.short = run.short /\ run'.superseded = run.superseded
  BY DEF EndRun, Runs

\* No block is read any more: the Index stays as it is until the run ends.
LEMMA StopFacts ==
    ASSUME run \in Runs, StopReading \/ ReadFails
    PROVE  /\ run' \in Runs /\ run.at = "reading" /\ run'.at = "reading" /\ run'.outcome = run.outcome
           /\ run'.superseded = run.superseded /\ run'.done
           /\ UNCHANGED <<index, cache, rewritten>>
           /\ StopReading => /\ run'.short = run.short
                             /\ run.superseded \/ Len(index.bytes) >= Len(logFile)
           /\ ReadFails => run'.short
<1>1. CASE StopReading
  <2>1. run.at = "reading" /\ run' = [run EXCEPT !.done = TRUE]
        /\ (run.superseded \/ Len(index.bytes) >= Len(logFile))
        /\ UNCHANGED <<index, cache, rewritten>> /\ ~run.done
    BY <1>1 DEF StopReading, workerUnchanged, cachedUnchanged
  <2>2. run' \in Runs /\ run'.at = run.at /\ run'.outcome = run.outcome /\ run'.superseded = run.superseded
        /\ run'.done = TRUE /\ run'.short = run.short
    BY ONLY <2>1, run \in Runs DEF Runs
  <2>3. ~ReadFails \/ run'.short
    <3>1. ReadFails => run' = [run EXCEPT !.done = TRUE, !.short = TRUE]
      BY DEF ReadFails
    <3> QED
      BY ONLY <3>1, run \in Runs DEF Runs
  <2> QED
    BY <2>1, <2>2, <2>3
<1>2. CASE ReadFails
  <2>1. run.at = "reading" /\ run' = [run EXCEPT !.done = TRUE, !.short = TRUE]
        /\ UNCHANGED <<index, cache, rewritten>>
    BY <1>2 DEF ReadFails, workerUnchanged, cachedUnchanged
  <2>2. run' \in Runs /\ run'.at = run.at /\ run'.outcome = run.outcome /\ run'.superseded = run.superseded
        /\ run'.done = TRUE /\ run'.short = TRUE
    BY ONLY <2>1, run \in Runs DEF Runs
  <2>3. StopReading => run'.short = run.short /\ (run.superseded \/ Len(index.bytes) >= Len(logFile))
    <3>1. StopReading => /\ run' = [run EXCEPT !.done = TRUE]
                         /\ run.superseded \/ Len(index.bytes) >= Len(logFile)
      BY DEF StopReading
    <3>2. run' = [run EXCEPT !.done = TRUE] => run'.short = run.short
      BY ONLY run \in Runs DEF Runs
    <3> QED
      BY <3>1, <3>2
  <2> QED
    BY <2>1, <2>2, <2>3
<1> QED
  BY <1>1, <1>2

\* A run ends as it did with the Index, whatever it was told at first.
LEMMA EndFacts ==
    ASSUME EndIndex
    PROVE  /\ run.at = "reading" /\ run.done /\ UNCHANGED rewritten
           /\ \/ index' = Dropped(index) /\ EndRun("Interrupted") /\ UNCHANGED cache
              \/ /\ index' = Completed(index, run.from, run.size, logFile, ModificationTime)
                 /\ EndRun("Successful") /\ Save /\ ~run.superseded
  BY DEF EndIndex, Outcome, workerUnchanged, cachedUnchanged

LEMMA BeginFacts ==
    ASSUME TypeInv, BeginAnew
    PROVE  /\ Sized(index', ModificationTime)
           /\ index' = [Cleared EXCEPT !.forced = queue.running.encoding]
           /\ run' \in Runs /\ run'.at = "reading" /\ run'.from = 0 /\ run'.size = Len(logFile)
           /\ run'.superseded = run.superseded /\ run'.short = run.short /\ run'.done = run.done
<1>1. ModificationTime \in Nat /\ Len(logFile) \in 0..MaxSize /\ 0 \in 0..MaxSize
  BY TimeFacts, WrittenFacts, Bounds DEF TypeInv, DiskTyped
<1>2. queue.running.encoding \in Known
  BY JobKinds DEF TypeInv, JobsTyped
<1>3. run \in Runs
  BY DEF TypeInv, JobsTyped
<1>4. index' = [Cleared EXCEPT !.forced = queue.running.encoding]
      /\ run' = [run EXCEPT !.at = "reading", !.from = 0, !.size = Len(logFile)]
  BY DEF BeginAnew
<1>5. run' \in Runs /\ run'.at = "reading" /\ run'.from = 0 /\ run'.size = Len(logFile)
      /\ run'.superseded = run.superseded /\ run'.short = run.short /\ run'.done = run.done
  BY ONLY <1>1, <1>3, <1>4 DEF Runs
<1> QED
  BY <1>1, <1>2, <1>4, <1>5, ClearedIsSized

\* trySave(): what is in the cache then.
LEMMA SaveFacts ==
    ASSUME NEW t \in Nat, Sized(index', t), Sized(cache, t), Save
    PROVE  /\ Sized(cache', t)
           /\ cache' = cache \/ (UseIndexCache /\ IsFull /\ cache' = Entry(index'))
<1>1. cache' = cache \/ (UseIndexCache /\ IsFull /\ cache' = Entry(index'))
  BY DEF Save, SavedEntries
<1> QED
  BY <1>1, EntryFacts

\* indexFit() gives a status of a Check.
LEMMA FitFacts ==
    ASSUME NEW ix, NEW log, NEW everyByte
    PROVE  IndexFit(ix, log, everyByte) \in Checked
  BY DEF IndexFit, Checked

\* The bytes of the Log File that an index run goes on with.
LEMMA BlockFacts ==
    ASSUME TypeInv, IndexBlock
    PROVE  \E block \in Written(ModificationTime) :
              /\ index' = AddBlock(index, block)
              /\ Len(block) > 0 /\ Len(index.bytes) + Len(block) <= Len(logFile)
              /\ \A half \in 1..Len(block) : block[half] = logFile[Len(index.bytes) + half]
<1>1. ModificationTime \in Nat /\ logFile \in Written(ModificationTime) /\ Len(index.bytes) \in Nat
      /\ Len(logFile) \in Nat
  BY TimeFacts, SizedFields, WrittenFacts DEF TypeInv, DiskTyped, IndexTyped
<1>2. PICK end \in (Len(index.bytes) + 1)..Len(logFile) :
           index' = AddBlock(index, SubSeq(logFile, Len(index.bytes) + 1, end))
  BY DEF IndexBlock
<1>3. PICK first : first = Len(index.bytes) + 1
  OBVIOUS
<1>4. PICK block : block = SubSeq(logFile, first, end)
  OBVIOUS
<1>5. first \in Nat \ {0} /\ end \in Nat /\ end <= Len(logFile) /\ first <= end
  BY <1>1, <1>2, <1>3
<1>6. /\ block \in Written(ModificationTime) /\ Len(block) = end - first + 1
      /\ \A half \in 1..(end - first + 1) : block[half] = logFile[first + half - 1]
  BY ONLY <1>1, <1>4, <1>5, PartFacts, SMTT(60)
<1>7. /\ Len(block) > 0 /\ Len(index.bytes) + Len(block) <= Len(logFile)
      /\ \A half \in 1..Len(block) : block[half] = logFile[Len(index.bytes) + half]
  BY <1>1, <1>3, <1>5, <1>6
<1> QED
  BY <1>2, <1>3, <1>4, <1>6, <1>7

\* What a step of the worker makes of the Index, of its entry in the cache and
\* of the run in flight is well-formed.
LEMMA WorkerSized ==
    ASSUME TypeInv, Worker
    PROVE  /\ Sized(index', ModificationTime) /\ Sized(cache', ModificationTime)
           /\ run' \in Runs /\ run.at # "off" /\ run'.at # "off"
<1>1. /\ ModificationTime \in Nat
      /\ logFile \in Written(ModificationTime)
      /\ Sized(index, ModificationTime)
      /\ Sized(cache, ModificationTime)
      /\ run \in Runs
      /\ Len(logFile) \in 0..MaxSize /\ queue.running.encoding \in Known
      /\ Len(index.bytes) \in 0..MaxSize /\ run.from \in Nat /\ run.size \in 0..MaxSize
  BY TimeFacts, WrittenFacts, SizedFields, JobKinds, Bounds DEF TypeInv, DiskTyped, IndexTyped,
     JobsTyped, Runs
<1>2. /\ Sized(NoEntry, ModificationTime)
      /\ Sized(Cleared, ModificationTime)
      /\ Sized(Dropped(Cleared), ModificationTime)
      /\ Sized(Dropped(index), ModificationTime)
  BY <1>1, ClearedIsSized
<1>3. {"Successful", "Interrupted", "Failed"} \subseteq Loaded \cup Checked /\ Checked \subseteq Loaded \cup Checked
      /\ "Truncated" \in Checked
  BY DEF Loaded, Checked
<1>4. CASE BeginFull
  BY <1>1, <1>2, <1>4, BeginFacts DEF BeginFull
<1>5. CASE TakeCached
  BY <1>1, <1>3, <1>5, LoadedFacts, EndRunFacts DEF TakeCached
<1>6. CASE CheckCached
  <2>1. run.at = "queued" /\ UNCHANGED cache
    BY <1>6 DEF CheckCached, LeaveIndex
  <2>2. CASE UNCHANGED index /\ run' = [run EXCEPT !.at = "resuming"]
    BY <1>1, <2>1, <2>2 DEF Runs
  <2>3. CASE UNCHANGED index /\ EndRun("Interrupted")
    BY <1>1, <1>3, <2>1, <2>3, EndRunFacts
  <2>4. CASE BeginAnew
    BY <1>1, <2>1, <2>4, BeginFacts
  <2> QED
    BY <1>6, <2>2, <2>3, <2>4 DEF CheckCached, LeaveIndex
<1>7. CASE ResumeCached
  <2>1. run.at = "resuming" /\ UNCHANGED cache
    BY <1>7 DEF ResumeCached, LeaveIndex
  <2>2. CASE UNCHANGED index /\ EndRun("Interrupted")
    BY <1>1, <1>3, <2>1, <2>2, EndRunFacts
  <2>3. CASE BeginAnew
    BY <1>1, <2>1, <2>3, BeginFacts
  <2>4. ASSUME ResumeOffset(cache) <= Len(logFile),
               index' = ResumedFromCache(cache, queue.running.encoding, logFile),
               run' = [run EXCEPT !.at = "reading", !.from = ResumeOffset(cache), !.size = Len(logFile)]
        PROVE  /\ Sized(index', ModificationTime) /\ Sized(cache', ModificationTime)
               /\ run' \in Runs /\ run'.at # "off"
    <3>1. ResumeOffset(cache) \in 0..MaxSize
      <4>1. Len(cache.bytes) \in 0..MaxSize
        BY <1>1, SizedFields
      <4>2. ResumeOffset(cache) \in 0..Len(cache.bytes)
        BY <1>1, ResumeFacts
      <4> QED
        BY ONLY <4>1, <4>2, Bounds
    <3>2. run' \in Runs /\ run'.at = "reading"
      BY <1>1, <2>4, <3>1 DEF Runs
    <3>3. Sized(index', ModificationTime)
      BY <1>1, <2>4, ResumedFacts
    <3> QED
      BY <1>1, <2>1, <3>2, <3>3
  <2>5. ~(ResumeOffset(cache) > 0) => ResumeOffset(cache) <= Len(logFile)
    BY <1>1, ResumeFacts, SizedFields, Bounds
  <2> QED
    BY <1>1, <1>7, <2>2, <2>3, <2>4, <2>5 DEF ResumeCached, LeaveIndex
<1>8. CASE BeginPartial
  BY <1>1, <1>8 DEF BeginPartial, Runs
<1>9. CASE OpenMissing
  <2>1. run.at = "queued" /\ index' = Dropped(Cleared) /\ (cache' = NoEntry \/ cache' = cache)
        /\ (EndRun("Interrupted") \/ EndRun("Successful"))
    BY <1>9 DEF OpenMissing
  <2> QED
    BY <1>1, <1>2, <1>3, <2>1, EndRunFacts
<1>10. CASE IndexBlock
  <2>1. PICK block \in Written(ModificationTime) : index' = AddBlock(index, block) /\ Len(index.bytes) + Len(block) <= Len(logFile)
    BY <1>10, BlockFacts
  <2>2. Len(block) \in Nat /\ Len(index.bytes) + Len(block) <= MaxSize
    BY <1>1, <2>1, WrittenFacts, Bounds
  <2>3. Sized(index', ModificationTime)
    BY <1>1, <2>1, <2>2, AddBlockFacts
  <2> QED
    BY <1>1, <1>10, <2>3 DEF IndexBlock
<1>11. ASSUME index' = Completed(index, run.from, run.size, logFile, ModificationTime), Save
       PROVE  Sized(index', ModificationTime) /\ Sized(cache', ModificationTime)
  <2>1. Sized(index', ModificationTime)
    BY <1>1, <1>11, CompletedFacts
  <2> QED
    BY <1>1, <1>11, <2>1, SaveFacts
<1>12. CASE EndIndex
  <2>1. run.at = "reading"
    BY <1>12, EndFacts
  <2>2. CASE index' = Dropped(index) /\ EndRun("Interrupted") /\ UNCHANGED cache
    BY <1>1, <1>2, <1>3, <2>1, <2>2, EndRunFacts
  <2>3. CASE index' = Completed(index, run.from, run.size, logFile, ModificationTime) /\ Save /\ EndRun("Successful")
    BY <1>1, <1>3, <1>11, <2>1, <2>3, EndRunFacts
  <2> QED
    BY <1>12, <2>2, <2>3, EndFacts
<1>13. CASE StopReading \/ ReadFails
  BY <1>1, <1>13, StopFacts
<1>14. CASE FailIndex
  BY <1>1, <1>2, <1>3, <1>14, EndRunFacts DEF FailIndex, workerUnchanged, cachedUnchanged
<1>15. CASE RunCheck
  <2>1. PICK fit \in Checked : EndRun(fit) /\ (index' = index \/ index' = [index EXCEPT !.modified = ModificationTime])
    BY <1>15, FitFacts, Zenon DEF RunCheck
  <2>2. Sized(index', ModificationTime)
    BY <1>1, <2>1 DEF Sized, IndexOf
  <2> QED
    BY <1>1, <1>3, <1>15, <2>1, <2>2, EndRunFacts DEF RunCheck, workerUnchanged, cachedUnchanged
<1>16. CASE FailCheck
  BY <1>1, <1>3, <1>16, EndRunFacts DEF FailCheck, workerUnchanged, cachedUnchanged
<1> QED
  BY <1>4, <1>5, <1>6, <1>7, <1>8, <1>9, <1>10, <1>12, <1>13, <1>14, <1>15, <1>16 DEF Worker

LEMMA WorkerKeepsTypes ==
    ASSUME TypeInv, Worker
    PROVE  /\ TypeInv' /\ OwnersUnchanged /\ ModificationTime' = ModificationTime
           /\ counts'.changes = counts.changes
<1>1. OwnersUnchanged /\ (BeginFull \/ UNCHANGED rewritten)
      /\ (UNCHANGED unsettled \/ unsettled' = (unsettled \/ CachedOtherwise)
                               \/ unsettled' = (unsettled \/ ~FullWaits))
      /\ (ReadFails \/ FailIndex \/ FailCheck \/ UNCHANGED counts)
  BY WorkerFrame
<1>2. rewritten' \in BOOLEAN
  BY <1>1 DEF BeginFull, TypeInv, DiskTyped
<1>3. /\ counts' \in [changes : 0..MaxChanges, reloads : Nat, chosen : Nat, stops : Nat, failures : Nat]
      /\ ModificationTime' = ModificationTime
      /\ counts'.changes = counts.changes
  <2>1. CASE UNCHANGED counts
    BY <2>1 DEF TypeInv, DiskTyped, ModificationTime
  <2>2. CASE ReadFails \/ FailIndex \/ FailCheck
    <3>1. Once("failures")
      BY <2>2 DEF ReadFails, FailIndex, FailCheck
    <3> QED
      BY <3>1, OnceFacts DEF TypeInv
  <2> QED
    BY <1>1, <2>1, <2>2
<1>4. unsettled' \in BOOLEAN
  <2>1. unsettled \in BOOLEAN
    BY DEF TypeInv, ToldTyped
  <2>2. (unsettled \/ CachedOtherwise) \in BOOLEAN /\ (unsettled \/ ~FullWaits) \in BOOLEAN
    BY Zenon
  <2> QED
    BY <1>1, <2>1, <2>2, Zenon
<1>5. TypeInv'
  BY <1>1, <1>2, <1>3, <1>4, WorkerSized, WorkerTyped
<1> QED
  BY <1>1, <1>3, <1>5

\* The Log File changed: cut, and appended to with what is written now.
LEMMA ChangeFacts ==
    ASSUME TypeInv, Change
    PROVE  /\ ModificationTime' = ModificationTime + 1 /\ ModificationTime \in Nat
           /\ logFile' \in Written(ModificationTime + 1)
           /\ counts' \in [changes : 0..MaxChanges, reloads : Nat, chosen : Nat, stops : Nat, failures : Nat]
          
           /\ unreported' = (unreported \/ watched)
           /\ \E keep \in 0..Len(logFile) :
                 /\ keep <= Len(logFile')
                 /\ \A half \in 1..keep : logFile'[half] = logFile[half]
                 /\ \A half \in (keep + 1)..Len(logFile') : logFile'[half] = ModificationTime + 1
                 /\ rewritten' = (rewritten \/ (queue.running # NoJob /\ keep < Len(logFile)))
<1>1. /\ counts \in [changes : 0..MaxChanges, reloads : Nat, chosen : Nat, stops : Nat, failures : Nat]
      /\ counts.changes \in Nat /\ counts.changes < MaxChanges /\ MaxChanges \in Nat
      /\ counts' = [counts EXCEPT !["changes"] = @ + 1]
  <2>1. May("changes", MaxChanges) /\ Once("changes")
    BY Zenon DEF Change
  <2>2. counts \in [changes : 0..MaxChanges, reloads : Nat, chosen : Nat, stops : Nat, failures : Nat]
    BY DEF TypeInv, DiskTyped
  <2>3. counts["changes"] < MaxChanges /\ counts' = [counts EXCEPT !["changes"] = @ + 1]
    BY <2>1, Zenon DEF May, Once
  <2> QED
    BY <2>2, <2>3, Bounds
<1>2. counts' \in [changes : 0..MaxChanges, reloads : Nat, chosen : Nat, stops : Nat, failures : Nat]
      /\ counts'.changes = counts.changes + 1
  BY ONLY <1>1
<1>3. ModificationTime = counts.changes + 1 /\ ModificationTime \in Nat
      /\ ModificationTime' = ModificationTime + 1
  BY <1>1, <1>2 DEF ModificationTime
<1>17. PICK keep \in 0..Len(logFile) : \E added \in 0..(MaxSize - keep) :
          /\ logFile' = SubSeq(logFile, 1, keep) \o [half \in 1..added |-> counts.changes + 2]
          /\ rewritten' = (rewritten \/ (queue.running # NoJob /\ keep < Len(logFile)))
  BY DEF Change
<1>4. PICK added \in 0..(MaxSize - keep) :
          /\ logFile' = SubSeq(logFile, 1, keep) \o [half \in 1..added |-> counts.changes + 2]
          /\ rewritten' = (rewritten \/ (queue.running # NoJob /\ keep < Len(logFile)))
  BY <1>17
<1>5. PICK kept : kept = SubSeq(logFile, 1, keep)
  OBVIOUS
<1>6. PICK new : new = [half \in 1..added |-> counts.changes + 2]
  OBVIOUS
<1>7. logFile \in Written(ModificationTime) /\ Len(logFile) \in 0..MaxSize /\ MaxSize \in Nat
  BY <1>3, WrittenFacts, Bounds DEF TypeInv, DiskTyped
<1>8. kept \in Written(ModificationTime) /\ Len(kept) = keep /\ \A half \in 1..keep : kept[half] = logFile[half]
  <2>1. keep \in Nat /\ keep <= Len(logFile) /\ 1 \in Nat \ {0}
    BY <1>4, <1>7
  <2>2. /\ kept \in Written(ModificationTime) /\ Len(kept) = IF 1 <= keep THEN keep - 1 + 1 ELSE 0
        /\ \A half \in 1..(keep - 1 + 1) : kept[half] = logFile[1 + half - 1]
    <3>1. ModificationTime \in Nat /\ logFile \in Written(ModificationTime)
          /\ 1 \in Nat \ {0} /\ keep \in Nat /\ keep <= Len(logFile)
      BY ONLY <1>3, <1>7, <2>1
    <3>2. LET part == SubSeq(logFile, 1, keep)
          IN  /\ part \in Written(ModificationTime)
              /\ Len(part) = IF 1 <= keep THEN keep - 1 + 1 ELSE 0
              /\ \A half \in 1..(keep - 1 + 1) : part[half] = logFile[1 + half - 1]
      BY ONLY <3>1, PartFacts
    <3> QED
      BY ONLY <1>5, <3>2
  <2> QED
    BY ONLY <2>1, <2>2
<1>9. kept \in Written(ModificationTime + 1)
  BY <1>3, <1>8, WrittenLater
<1>10. new \in Written(ModificationTime + 1) /\ Len(new) = added
       /\ \A half \in 1..added : new[half] = ModificationTime + 1
  <2>1. added \in Nat /\ counts.changes + 2 = ModificationTime + 1
        /\ counts.changes + 2 \in 1..(ModificationTime + 1) /\ added <= MaxSize
    <3>1. keep \in Nat /\ added \in 0..(MaxSize - keep)
      BY <1>4, <1>7, <1>17
    <3>2. added \in Nat /\ added <= MaxSize
      BY <1>7, <3>1
    <3>3. counts.changes \in Nat /\ ModificationTime = counts.changes + 1
      BY <1>1, <1>3
    <3> QED
      BY ONLY <3>2, <3>3, SMTT(60)
  <2>2. new \in [1..added -> 1..(ModificationTime + 1)] /\ \A half \in 1..added : new[half] = counts.changes + 2
    BY <1>6, <2>1
  <2>3. new \in Seq(1..(ModificationTime + 1)) /\ Len(new) = added
    BY <2>1, <2>2, FunctionIsSeq
  <2> QED
    BY <2>1, <2>2, <2>3 DEF Written
<1>11. keep + added <= MaxSize /\ keep \in Nat /\ added \in Nat
  BY <1>4, <1>7, <1>17
<1>12. /\ logFile' \in Written(ModificationTime + 1) /\ Len(logFile') = keep + added
       /\ \A half \in 1..(keep + added) : logFile'[half] = IF half <= keep THEN kept[half] ELSE new[half - keep]
  <2>1. logFile' = kept \o new
    BY <1>4, <1>5, <1>6
  <2>2. ModificationTime + 1 \in Nat /\ Len(kept) + Len(new) <= MaxSize
    BY <1>3, <1>8, <1>10, <1>11
  <2> QED
    <3>1. /\ kept \in Written(ModificationTime + 1) /\ Len(kept) = keep
          /\ new \in Written(ModificationTime + 1) /\ Len(new) = added
      BY <1>8, <1>9, <1>10
    <3>2. /\ kept \o new \in Written(ModificationTime + 1) /\ Len(kept \o new) = Len(kept) + Len(new)
          /\ \A half \in 1..(Len(kept) + Len(new)) :
                (kept \o new)[half] = IF half <= Len(kept) THEN kept[half] ELSE new[half - Len(kept)]
      BY ONLY <2>2, <3>1, JoinedFacts, ZenonT(60)
    <3> QED
      BY ONLY <2>1, <3>1, <3>2
<1>13. \A half \in 1..keep : logFile'[half] = logFile[half]
  BY <1>8, <1>11, <1>12
<1>14. \A half \in (keep + 1)..Len(logFile') : logFile'[half] = ModificationTime + 1
  BY <1>10, <1>11, <1>12
<1>15. unreported' = (unreported \/ watched)
  BY DEF Change
<1>16. keep <= Len(logFile')
  BY <1>11, <1>12
<1> QED
  BY <1>2, <1>3, <1>4, <1>12, <1>13, <1>14, <1>15, <1>16

\* An entry of the Index Cache from before.
LEMMA FormerFacts ==
    ASSUME logFile \in Written(1), NEW entry \in FormerEntries
    PROVE  /\ Sized(entry, 1) /\ entry.bytes # <<>> /\ Len(entry.bytes) <= Len(logFile)
           /\ entry.full = entry.bytes /\ entry.built = <<>> /\ entry.fed = <<>>
           /\ entry.recorded
           /\ Len(entry.tail) = Len(entry.bytes) - TailOffset(Len(entry.bytes))
<1>16. PICK t : t = 1
  OBVIOUS
<1>17. t \in Nat /\ logFile \in Written(t)
  BY <1>16
<1>1. PICK size \in 1..Len(logFile), guess \in Encodings :
          entry = Entry([Completed(AddBlock(Cleared, SubSeq(logFile, 1, size)), 0, size,
                                   SubSeq(logFile, 1, size), 0) EXCEPT !.guess = guess, !.split = guess])
  <2>1. Len(logFile) \in Nat
    BY <1>17, WrittenFacts
  <2>2. \A size \in 1..Lesser(DigestBlock - 1, Len(logFile)) : size \in 1..Len(logFile)
    BY <2>1, DigestBlockAssumption DEF Lesser
  <2> QED
    <3>1. \E n \in 1..Len(logFile), guess \in Encodings : entry = Former(n, guess)
      BY <2>2, Encoded DEF FormerEntries
    <3> QED
      BY <3>1, Zenon DEF Former
<1>2. size \in Nat /\ size > 0 /\ size <= Len(logFile) /\ Len(logFile) \in 0..MaxSize /\ MaxSize \in Nat
      /\ size \in 0..MaxSize
  BY <1>17, WrittenFacts, Bounds
<1>3. PICK logged : logged = SubSeq(logFile, 1, size)
  OBVIOUS
<1>4. logged \in Written(t) /\ Len(logged) = size
  <2>1. 1 \in Nat \ {0} /\ 1 \in Nat
    OBVIOUS
  <2>2. logged \in Written(t) /\ Len(logged) = IF 1 <= size THEN size - 1 + 1 ELSE 0
    BY <1>2, <1>3, <1>17, <2>1, PartFacts
  <2> QED
    BY <1>2, <2>2
<1>5. PICK added : added = AddBlock(Cleared, logged)
  OBVIOUS
<1>6. Sized(Cleared, t) /\ Cleared.bytes = <<>> /\ Cleared.built = <<>> /\ Cleared.fed = <<>>
  BY <1>17, ClearedIsSized DEF Cleared
<1>7. /\ Sized(added, t) /\ added.bytes = <<>> \o logged /\ added.full = <<>> \o logged
  <2>1. Len(<<>>) + Len(logged) <= MaxSize
    BY <1>2, <1>4, <1>17, WrittenEmpty
  <2>2. Sized(added, t) /\ added.bytes = Cleared.bytes \o logged /\ added.built = Cleared.built \o logged
        /\ added.full = added.built
    <3>1. Len(Cleared.bytes) + Len(logged) <= MaxSize
      BY <1>6, <2>1
    <3>2. Sized(Cleared, t) /\ logged \in Written(t)
      BY <1>4, <1>6
    <3> QED
      BY ONLY <1>5, <1>17, <3>1, <3>2, AddBlockFacts
  <2> QED
    BY <1>6, <2>2
<1>8. added.bytes = logged /\ added.full = logged
  BY <1>4, <1>7, <1>17, ConcatEmptySeq DEF Written
<1>9. PICK done : done = Completed(added, 0, size, logged, 0)
  OBVIOUS
<1>10. /\ Sized(done, t) /\ done.recorded /\ done.bytes = logged /\ done.full = logged
       /\ done.tail = RecordHeaderAndTail(added, 0, size, logged).tail
  <2>1. Sized(added, t) /\ logged \in Written(t) /\ size \in 0..MaxSize /\ 0 \in Nat
    BY <1>2, <1>4, <1>7
  <2>2. /\ Sized(done, t) /\ done.recorded /\ done.bytes = added.bytes /\ done.full = added.full
        /\ done.tail = RecordHeaderAndTail(added, 0, size, logged).tail
    BY ONLY <1>9, <1>17, <2>1, CompletedFacts
  <2> QED
    BY <1>8, <2>2
<1>11. Len(done.tail) = size - TailOffset(size)
  BY <1>2, <1>4, <1>7, <1>8, <1>10, <1>17, RecordFacts
<1>12. PICK named : named = [done EXCEPT !.guess = guess, !.split = guess]
  OBVIOUS
<1>13. /\ Sized(named, t) /\ named.recorded /\ named.bytes = logged /\ named.full = logged
       /\ named.tail = done.tail
  <2>1. done \in IndexOf(t) /\ guess \in Known /\ guess # NoEncoding
    BY <1>10, NoEncodingAssumption DEF Sized, Known
  <2>2. /\ named \in IndexOf(t) /\ named.split = guess /\ named.recorded = done.recorded
        /\ named.bytes = done.bytes /\ named.full = done.full /\ named.tail = done.tail
        /\ named.built = done.built /\ named.fed = done.fed /\ named.header = done.header
    BY ONLY <1>12, <2>1 DEF IndexOf
  <2> QED
    BY <1>10, <2>1, <2>2 DEF Sized
<1>14. entry = Entry(named)
  BY <1>1, <1>3, <1>5, <1>9, <1>12
<1>15. logged # <<>>
  BY <1>2, <1>4, <1>17, WrittenEmpty
<1> QED
  BY <1>2, <1>4, <1>11, <1>13, <1>14, <1>15, <1>16, <1>17, EntryFacts

LEMMA TypeInit ==
    ASSUME Init
    PROVE  TypeInv /\ ModificationTime = 1
<1>1. ModificationTime = 1
  BY DEF Init, ModificationTime
<1>2. PICK n \in FirstSizes : logFile = [half \in 1..n |-> 1]
  BY DEF Init
<1>3. n \in 0..MaxSize /\ n \in Nat /\ n <= MaxSize
  BY IndexingAssumption, Bounds
<1>4. logFile \in Written(1)
  <2>1. logFile \in [1..n -> 1..1]
    BY <1>2
  <2> QED
    BY <1>3, <2>1, FunctionIsSeq DEF Written
<1>5. DiskTyped
  <2>1. logFile \in Written(ModificationTime)
    BY <1>1, <1>4
  <2>2. counts \in [changes : 0..MaxChanges, reloads : Nat, chosen : Nat, stops : Nat, failures : Nat]
    BY Bounds DEF Init
  <2> QED
    BY <2>1, <2>2 DEF Init, DiskTyped
<1>6. IndexTyped
  BY <1>1, <1>4, ClearedIsSized, FormerFacts, Bounds DEF Init, IndexTyped
<1>7. chosen \in Known
  BY DEF Init, Known
<1>8. JobsTyped
  BY <1>7, JobsAre, RunsAre DEF Init, JobsTyped, Job
<1>9. ToldTyped
  <2>1. told \in Seq(ReadLines) /\ Len(told) <= MaxSize
    BY EmptySeq, Bounds DEF Init
  <2>2. display \in Encodings /\ settled \in Known
    BY <1>7, Encoded DEF Init, Known
  <2> QED
    BY <1>7, <2>1, <2>2 DEF Init, ToldTyped
<1> QED
  BY <1>1, <1>5, <1>6, <1>8, <1>9 DEF TypeInv

\* encoding(): always one of those known.
LEMMA EncodingFacts ==
    ASSUME TypeInv, NEW choice \in Known
    PROVE  EncodingOf(choice) \in Encodings
<1>1. index.guess \in Known
  BY TimeFacts, SizedFields DEF TypeInv, IndexTyped
<1> QED
  BY <1>1, Encoded DEF EncodingOf, Known

\* settleEncoding(): the Encoding is as it was; or the Log Lines only decode
\* differently; or the Log File is indexed again; or there is none guessed to
\* compare with.
LEMMA SettleFacts ==
    ASSUME TypeInv, NEW choice \in Known, NEW r \in Runs, (r.at = "off") <=> (queue.running = NoJob),
           NEW news, SettleEncoding(choice, r, news)
    PROVE  LET encoding == EncodingOf(choice)
               forced == IF encoding = index.guess THEN NoEncoding ELSE encoding
           IN  \/ /\ settled = encoding /\ told' = news /\ run' = r
                  /\ unsettled' = (unsettled \/ Outdated(choice, r))
                  /\ UNCHANGED <<display, settled, queue, process>>
               \/ /\ settled # encoding /\ display' = encoding /\ settled' = encoding
                  /\ ~SplitsOtherwise(encoding)
                  /\ told' = LinesOf(index, encoding) /\ run' = Interrupted(r)
                  /\ unsettled' = (unsettled \/ Outdated(choice, r))
                  /\ UNCHANGED <<queue, process>>
               \/ /\ settled # encoding /\ display' = encoding /\ settled' = encoding
                  /\ process' = "crashed" /\ index.guess = NoEncoding /\ SplitsOtherwise(encoding)
                  /\ UNCHANGED <<told, run, queue, unsettled>>
               \/ /\ settled # encoding /\ display' = encoding /\ settled' = encoding
                  /\ SplitsOtherwise(encoding) /\ index.guess # NoEncoding
                  /\ told' = LinesOf(index, encoding)
                  /\ forced \in Known /\ Enqueued(Explicit(forced), Interrupted(r))
                  /\ unsettled' = (Splits[FinalEncoding(forced)] # Splits[encoding]) /\ UNCHANGED process
<1>1. PICK encoding : encoding = EncodingOf(choice)
  OBVIOUS
<1>2. encoding \in Encodings
  BY <1>1, EncodingFacts
<1>3. ToldAll(index, encoding) = LinesOf(index, encoding)
  BY <1>2, TimeFacts, ToldAllFacts DEF TypeInv, IndexTyped, ToldTyped
<1>4. CASE settled = encoding
  BY <1>1, <1>4, Zenon DEF SettleEncoding
<1>5. CASE settled # encoding /\ ~SplitsOtherwise(encoding)
  BY <1>1, <1>3, <1>5, Zenon DEF SettleEncoding
<1>6. CASE settled # encoding /\ SplitsOtherwise(encoding) /\ index.guess = NoEncoding
  BY <1>1, <1>6, Zenon DEF SettleEncoding
<1>7. CASE settled # encoding /\ SplitsOtherwise(encoding) /\ index.guess # NoEncoding
  <2>1. PICK forced : forced = IF encoding = index.guess THEN NoEncoding ELSE encoding
    OBVIOUS
  <2>2. forced \in Known
    BY <1>2, <2>1 DEF Known
  <2>3. /\ display' = encoding /\ settled' = encoding /\ told' = ToldAll(index, encoding)
        /\ Enqueued(Explicit(forced), Interrupted(r)) /\ UNCHANGED process
        /\ unsettled' = (Splits[FinalEncoding(forced)] # Splits[encoding])
    BY <1>1, <1>7, <2>1, Zenon DEF SettleEncoding, ReadAgain
  <2> QED
    BY <1>1, <1>3, <1>7, <2>1, <2>2, <2>3, Zenon
<1> QED
  BY <1>4, <1>5, <1>6, <1>7

\* What it leaves is well-formed.
LEMMA SettleTyped ==
    ASSUME TypeInv, NEW choice \in Known, NEW r \in Runs, (r.at = "off") <=> (queue.running = NoJob),
           NEW news \in Seq(ReadLines), Len(news) <= MaxSize, SettleEncoding(choice, r, news)
    PROVE  /\ JobsTyped' /\ told' \in Seq(ReadLines) /\ Len(told') <= MaxSize
           /\ display' \in Encodings /\ settled' \in Known
           /\ process' \in {"up", "closed", "crashed"} /\ unsettled' \in BOOLEAN
<1>1. PICK encoding : encoding = EncodingOf(choice)
  OBVIOUS
<1>2. encoding \in Encodings /\ encoding \in Known
  BY <1>1, EncodingFacts DEF Known
<1>3. LinesOf(index, encoding) \in Seq(ReadLines) /\ Len(LinesOf(index, encoding)) <= MaxSize
  BY <1>2, TimeFacts, LinesFacts, CountFacts, Bounds DEF TypeInv, IndexTyped
<1>4. Interrupted(r) \in Runs /\ Interrupted(r).at = r.at
  BY InterruptedFacts
<1>5. JobsTyped /\ ToldTyped
  BY DEF TypeInv
<1> DEFINE Typed == /\ JobsTyped' /\ told' \in Seq(ReadLines) /\ Len(told') <= MaxSize
                    /\ display' \in Encodings /\ settled' \in Known
                    /\ process' \in {"up", "closed", "crashed"}
<1>6. ASSUME told' = news /\ run' = r /\ UNCHANGED <<display, settled, queue, process>>
      PROVE  Typed
  BY <1>5, <1>6 DEF JobsTyped, ToldTyped
<1>7. ASSUME display' = encoding, settled' = encoding, told' = LinesOf(index, encoding),
             run' = Interrupted(r), UNCHANGED <<queue, process>>
      PROVE  Typed
  BY <1>2, <1>3, <1>4, <1>5, <1>7 DEF JobsTyped, ToldTyped
<1>8. ASSUME display' = encoding, settled' = encoding, process' = "crashed", UNCHANGED <<told, run, queue>>
      PROVE  Typed
  BY <1>2, <1>5, <1>8 DEF JobsTyped, ToldTyped
<1>9. ASSUME NEW forced \in Known, Enqueued(Explicit(forced), Interrupted(r)),
             display' = encoding, settled' = encoding, told' = LinesOf(index, encoding), UNCHANGED process
      PROVE  Typed
  <2>1. JobsTyped'
    BY <1>4, <1>5, <1>9, JobsAre, EnqueuedFacts
  <2> QED
    BY <1>2, <1>3, <1>5, <1>9, <2>1 DEF ToldTyped
<1>10. unsettled' \in BOOLEAN
  <2>1. unsettled \in BOOLEAN
    BY <1>5 DEF ToldTyped
  <2>2. \/ UNCHANGED unsettled
        \/ unsettled' = (unsettled \/ Outdated(choice, r))
        \/ \E forced : unsettled' = (Splits[FinalEncoding(forced)] # Splits[encoding])
    BY <1>1, SettleFacts, Zenon
  <2>3. (unsettled \/ Outdated(choice, r)) \in BOOLEAN
        /\ \A forced : (Splits[FinalEncoding(forced)] # Splits[encoding]) \in BOOLEAN
    BY Zenon
  <2> QED
    BY <2>1, <2>2, <2>3, Zenon
<1>11. Typed
  BY <1>1, <1>6, <1>7, <1>8, <1>9, SettleFacts
<1> QED
  BY <1>10, <1>11

\* The owner thread does nothing to the Log File, the Index and the cache but
\* where the Log Data is destroyed.
LEMMA OwnerTyped ==
    ASSUME TypeInv, UNCHANGED <<logFile, index, cache, rewritten>>, ModificationTime' = ModificationTime,
           counts' \in [changes : 0..MaxChanges, reloads : Nat, chosen : Nat, stops : Nat, failures : Nat],
           watched' \in BOOLEAN, unreported' \in BOOLEAN, linesBefore' \in 0..MaxSize,
           JobsTyped', ToldTyped'
    PROVE  TypeInv'
<1>1. DiskTyped'
  BY DEF TypeInv, DiskTyped
<1>2. IndexTyped'
  BY DEF TypeInv, IndexTyped
<1> QED
  BY <1>1, <1>2 DEF TypeInv

LEMMA HandledFacts ==
    ASSUME run \in Runs
    PROVE  /\ Handled \in Runs /\ Handled.at = "told" /\ Handled.outcome = run.outcome
           /\ Handled.superseded = run.superseded /\ Handled.short = run.short
           /\ Handled.done = run.done
           /\ Interrupted(Handled) = Handled
  BY DEF Handled, Runs, Interrupted

LEMMA OwnerKeepsTypes ==
    ASSUME TypeInv,
           SetEncoding \/ Reload \/ StopLoading \/ FileChangedOnDisk \/ IndexingFinished
              \/ CheckFileChangesFinished \/ FinishJobAndStartNext
    PROVE  /\ TypeInv' /\ ModificationTime' = ModificationTime
           /\ UNCHANGED <<logFile, index, cache, rewritten>>
<1> DEFINE Counted == /\ counts' \in [changes : 0..MaxChanges, reloads : Nat, chosen : Nat, stops : Nat,
                                      failures : Nat]
                      /\ ModificationTime' = ModificationTime
<1>1. /\ JobsTyped /\ ToldTyped /\ DiskTyped /\ run \in Runs /\ ((run.at = "off") <=> (queue.running = NoJob))
      /\ watched \in BOOLEAN /\ unreported \in BOOLEAN /\ linesBefore \in 0..MaxSize
      /\ chosen \in Known /\ display \in Encodings
      /\ told \in Seq(ReadLines) /\ Len(told) <= MaxSize
      /\ ModificationTime \in Nat /\ ModificationTime <= MaxChanges + 1 /\ Sized(index, ModificationTime)
  BY TimeFacts DEF TypeInv, JobsTyped, ToldTyped, DiskTyped, IndexTyped
<1>2. UNCHANGED counts => Counted
  BY <1>1 DEF DiskTyped, ModificationTime
<1>3. \A name \in {"reloads", "chosen", "stops"} : Once(name) => Counted
  BY <1>1, OnceFacts
<1> HIDE DEF Counted
<1>4. Interrupted(run) \in Runs /\ Interrupted(run).at = run.at
  BY <1>1, InterruptedFacts
<1>5. Handled \in Runs /\ Handled.at = "told"
  BY <1>1, HandledFacts
<1>6. /\ LinesOf(index, display) \in Seq(ReadLines) /\ Len(LinesOf(index, display)) <= MaxSize
      /\ ToldAll(index, display) = LinesOf(index, display)
      /\ LineCount(index) \in 0..MaxSize
  BY <1>1, LinesFacts, CountFacts, ToldAllFacts, Bounds
<1>7. CASE SetEncoding
  <2>1. PICK choice \in Known : chosen' = choice /\ SettleEncoding(choice, run, told)
    BY <1>7 DEF SetEncoding
  <2>2. /\ UNCHANGED <<logFile, unreported, watched, index, cache, rewritten, linesBefore, lost>>
        /\ Once("chosen")
    BY <1>7 DEF SetEncoding, diskVars
  <2>3. ToldTyped' /\ JobsTyped'
    BY <1>1, <2>1, <2>2, SettleTyped DEF ToldTyped
  <2>4. Counted
    BY <1>3, <2>2
  <2> QED
    BY <1>1, <2>2, <2>3, <2>4, OwnerTyped DEF Counted
<1>8. CASE Reload
  <2>1. /\ told' = ToldAll(index, display) /\ Enqueued(Explicit(NoEncoding), Interrupted(run))
        /\ unsettled' = TRUE /\ Once("reloads")
        /\ UNCHANGED <<logFile, unreported, watched, index, cache, rewritten, linesBefore, display, chosen,
                       settled, process, lost>>
    BY <1>8 DEF Reload, ReadAgain, diskVars, encodingVars
  <2>2. NoEncoding \in Known
    BY DEF Known
  <2>3. JobsTyped'
    BY <1>1, <1>4, <2>1, <2>2, JobsAre, EnqueuedFacts
  <2>4. ToldTyped'
    BY <1>1, <1>6, <2>1 DEF ToldTyped
  <2>5. Counted
    BY <1>3, <2>1
  <2> QED
    BY <1>1, <2>1, <2>3, <2>4, <2>5, OwnerTyped DEF Counted
<1>9. CASE StopLoading
  <2>1. /\ run' = Interrupted(run) /\ Once("stops")
        /\ UNCHANGED <<logFile, unreported, watched, index, cache, rewritten, queue, linesBefore, display, chosen,
                       settled, process, told, lost, unsettled>>
    BY <1>9 DEF StopLoading, diskVars, encodingVars
  <2>2. JobsTyped' /\ ToldTyped'
    BY <1>1, <1>4, <2>1 DEF JobsTyped, ToldTyped
  <2>3. Counted
    BY <1>3, <2>1
  <2> QED
    BY <1>1, <2>1, <2>2, <2>3, OwnerTyped DEF Counted
<1>10. CASE FileChangedOnDisk
  <2>1. /\ Enqueued(Check, run) /\ unreported' = FALSE
        /\ UNCHANGED <<logFile, watched, index, cache, rewritten, linesBefore, display, chosen,
                       settled, process, told, lost, unsettled, counts>>
    BY <1>10 DEF FileChangedOnDisk, encodingVars
  <2>2. JobsTyped'
    BY <1>1, <2>1, JobsAre, EnqueuedFacts
  <2>3. ToldTyped'
    BY <1>1, <2>1 DEF ToldTyped
  <2>4. Counted
    BY <1>2, <2>1
  <2> QED
    BY <1>1, <2>1, <2>2, <2>3, <2>4, OwnerTyped DEF Counted
<1>11. CASE IndexingFinished
  <2>1. /\ Watching
        /\ SettleEncoding(chosen, Handled, ToldFrom(FirstChanged(queue.running.kind), index, display))
        /\ UNCHANGED <<logFile, index, cache, rewritten, linesBefore, chosen, counts>>
        /\ run.at = "ended"
    BY <1>11 DEF IndexingFinished
  <2>2. lost' \in {"Nothing", "Everything", "Added", "Rest"}
    BY <1>11 DEF IndexingFinished
  <2>3. watched' \in BOOLEAN /\ unreported' \in BOOLEAN
    BY <1>1, <2>1 DEF Watching
  <2>4. FirstChanged(queue.running.kind) \in Nat
    BY <1>1, Bounds DEF FirstChanged
  <2>5. PICK news : news = ToldFrom(FirstChanged(queue.running.kind), index, display)
    OBVIOUS
  <2>6. news \in Seq(ReadLines) /\ Len(news) <= MaxSize
    BY <1>1, <2>4, <2>5, ToldFacts
  <2>7. (Handled.at = "off") <=> (queue.running = NoJob)
    BY <1>1, <1>5, <2>1
  <2>8. SettleEncoding(chosen, Handled, news)
    BY <2>1, <2>5
  <2>9. /\ JobsTyped' /\ told' \in Seq(ReadLines) /\ Len(told') <= MaxSize
        /\ display' \in Encodings /\ settled' \in Known
        /\ process' \in {"up", "closed", "crashed"} /\ unsettled' \in BOOLEAN
    BY <1>1, <1>5, <2>6, <2>7, <2>8, SettleTyped
  <2>10. ToldTyped'
    BY <1>1, <2>1, <2>2, <2>9 DEF ToldTyped
  <2>11. Counted
    BY <1>2, <2>1
  <2> QED
    BY <1>1, <2>1, <2>3, <2>9, <2>10, <2>11, OwnerTyped DEF Counted
<1>12. CASE CheckFileChangesFinished
  <2>1. /\ UNCHANGED <<logFile, unreported, watched, index, cache, rewritten, display, chosen, settled, process,
                       counts>>
        /\ run.at = "ended" /\ lost' = "Nothing"
    BY <1>12 DEF CheckFileChangesFinished, diskVars, encodingVars
  <2>2. (Handled.at = "off") <=> (queue.running = NoJob)
    BY <1>1, <1>5, <2>1
  <2>3. CASE run' = Handled /\ UNCHANGED <<queue, linesBefore, told, unsettled>>
    <3>1. JobsTyped' /\ ToldTyped' /\ linesBefore' \in 0..MaxSize
      BY <1>1, <1>5, <2>1, <2>2, <2>3 DEF JobsTyped, ToldTyped
    <3> QED
      BY <1>1, <1>2, <2>1, <3>1, OwnerTyped DEF Counted
  <2>4. CASE linesBefore' = LineCount(index) /\ Enqueued(Partial, Handled) /\ UNCHANGED <<told, unsettled>>
    <3>1. JobsTyped'
      BY <1>1, <1>5, <2>2, <2>4, JobsAre, EnqueuedFacts
    <3>2. ToldTyped' /\ linesBefore' \in 0..MaxSize
      BY <1>1, <1>6, <2>1, <2>4 DEF ToldTyped
    <3> QED
      BY <1>1, <1>2, <2>1, <3>1, <3>2, OwnerTyped DEF Counted
  <2>5. CASE /\ told' = ToldAll(index, display) /\ Enqueued(Automatic, Handled) /\ unsettled' = TRUE
             /\ UNCHANGED linesBefore
    <3>1. JobsTyped'
      BY <1>1, <1>5, <2>2, <2>5, JobsAre, EnqueuedFacts
    <3>2. ToldTyped' /\ linesBefore' \in 0..MaxSize
      BY <1>1, <1>6, <2>1, <2>5 DEF ToldTyped
    <3> QED
      BY <1>1, <1>2, <2>1, <3>1, <3>2, OwnerTyped DEF Counted
  <2> QED
    BY <1>12, <2>3, <2>4, <2>5 DEF CheckFileChangesFinished
<1>13. CASE FinishJobAndStartNext
  <2>1. /\ queue' = [running |-> queue.waiting, waiting |-> NoJob] /\ run.at = "told"
        /\ run' = IF queue'.running = NoJob THEN NoRun ELSE Queued
        /\ UNCHANGED <<logFile, unreported, watched, index, cache, rewritten, linesBefore, display, chosen,
                       settled, process, told, lost, unsettled, counts>>
    BY <1>13 DEF FinishJobAndStartNext, StartWaiting, diskVars, encodingVars
  <2>2. JobsTyped'
    BY <1>1, <2>1, RunsAre, JobsAre DEF JobsTyped, Job
  <2>3. ToldTyped'
    BY <1>1, <2>1 DEF ToldTyped
  <2> QED
    BY <1>1, <1>2, <2>1, <2>2, <2>3, OwnerTyped DEF Counted
<1> QED
  BY <1>7, <1>8, <1>9, <1>10, <1>11, <1>12, <1>13

LEMMA TypeNext ==
    ASSUME TypeInv, [Next]_vars
    PROVE  TypeInv'
<1>1. CASE UNCHANGED vars
  BY <1>1 DEF vars, diskVars, encodingVars, TypeInv, DiskTyped, IndexTyped, JobsTyped, ToldTyped,
     ModificationTime
<1>2. CASE Change
  <2>1. /\ ModificationTime' = ModificationTime + 1 /\ ModificationTime \in Nat
        /\ logFile' \in Written(ModificationTime + 1)
        /\ counts' \in [changes : 0..MaxChanges, reloads : Nat, chosen : Nat, stops : Nat, failures : Nat]
        /\ unreported' = (unreported \/ watched)
        /\ rewritten' \in BOOLEAN
    <3>1. rewritten' \in BOOLEAN
      BY <1>2, ChangeFacts DEF TypeInv, DiskTyped
    <3> QED
      BY <1>2, <3>1, ChangeFacts
  <2>2. UNCHANGED <<watched, index, cache, queue, run, linesBefore, display, chosen, settled, process, told, lost,
                    unsettled>>
    BY <1>2 DEF Change, encodingVars
  <2>3. DiskTyped'
    BY <2>1, <2>2 DEF TypeInv, DiskTyped
  <2>4. IndexTyped'
    BY <2>1, <2>2, SizedLater DEF TypeInv, IndexTyped
  <2>5. JobsTyped' /\ ToldTyped'
    BY <2>2 DEF TypeInv, JobsTyped, ToldTyped
  <2> QED
    BY <2>3, <2>4, <2>5 DEF TypeInv
<1>3. CASE Shutdown
  <2>1. /\ process' = "closed" /\ queue' = NoJobs /\ run' = NoRun /\ index' = Cleared /\ linesBefore' = 0
        /\ told' = <<>>
        /\ UNCHANGED <<logFile, unreported, watched, cache, rewritten, display, chosen, settled, lost, unsettled, counts>>
    BY <1>3 DEF Shutdown, diskVars, encodingVars
  <2>2. DiskTyped'
    BY <2>1 DEF TypeInv, DiskTyped, ModificationTime
  <2>3. ModificationTime' = ModificationTime /\ ModificationTime \in Nat
    BY <2>1, TimeFacts DEF ModificationTime, TypeInv
  <2>4. IndexTyped'
    BY <2>1, <2>3, ClearedIsSized, Bounds DEF TypeInv, IndexTyped
  <2>5. JobsTyped'
    BY <2>1, RunsAre, JobsAre DEF JobsTyped, NoJobs, Job
  <2>6. ToldTyped'
    BY <2>1, EmptySeq, Bounds DEF TypeInv, ToldTyped
  <2> QED
    BY <2>2, <2>4, <2>5, <2>6 DEF TypeInv
<1> QED
  BY <1>1, <1>2, <1>3, WorkerKeepsTypes, OwnerKeepsTypes DEF Next, Delivery

\* Every variable of Indexing has its type: the Index and its entry in the
\* Index Cache are of bytes written before, and the run in flight is that of a
\* job (IndexingData, OperationQueue).
THEOREM TypeCorrect == Spec => []TypeOK
<1>1. Init => TypeInv
  BY TypeInit
<1>2. TypeInv /\ [Next]_vars => TypeInv'
  BY TypeNext
<1>3. TypeInv => TypeOK
  BY TypeInvFacts
<1> QED
  BY <1>1, <1>2, <1>3, PTL DEF Spec

-----------------------------------------------------------------------------
(* Which run is in flight, and what it may have left of the Index.         *)

RunInv ==
    /\ run.at = "resuming" => IsFull
    /\ run.at = "reading" => queue.running.kind \in IndexKinds
    /\ run.at \in {"ended", "told"} =>
          /\ run.outcome # "None"
          /\ (run.outcome \in Checked) <=> (queue.running.kind = "Check")
    /\ queue.waiting.kind = "Partial" =>
          /\ queue.running.kind = "Check" /\ run.at = "told"
          /\ index.recorded /\ linesBefore = LineCount(index)
    /\ run.at = "ended" /\ run.outcome \in {"Interrupted", "Failed"} /\ queue.running.kind = "Partial"
          => ~index.recorded
    /\ run.at = "ended" /\ run.outcome \in {"Unchanged", "DataAdded"} => index.recorded
    /\ run.at \in {"queued", "resuming"} => ~run.done
    /\ queue.running.kind = "Partial" /\ run.at \in {"queued", "reading"} => index.recorded

LEMMA KindsApart ==
    /\ \A kind \in FullKinds \cup {"Attach"} : kind \in IndexKinds /\ kind # "Partial" /\ kind # "Check" /\ kind # "None"
    /\ "Partial" \in IndexKinds /\ "Check" \notin IndexKinds /\ "None" \notin IndexKinds
    /\ "Attach" \notin FullKinds /\ "Explicit" \in FullKinds /\ "Automatic" \in FullKinds
    /\ Loaded \cap Checked = {} /\ Loaded = {"Successful", "Interrupted", "Failed"}
    /\ Checked = {"Unchanged", "DataAdded", "Truncated"}
  BY DEF IndexKinds, FullKinds, Loaded, Checked

\* What is not an entry was not recorded.
LEMMA NotRecorded ==
    /\ Cleared.recorded = FALSE /\ Cleared.bytes = <<>>
    /\ \A encoding : [Cleared EXCEPT !.forced = encoding].recorded = FALSE
    /\ \A ix : Dropped(ix).recorded = FALSE /\ Dropped(ix).bytes = <<>>
  BY DEF Cleared, Dropped

\* indexFit() of an Index that was not recorded.
LEMMA FitRecorded ==
    ASSUME NEW ix, NEW log, NEW everyByte, IndexFit(ix, log, everyByte) # "Truncated"
    PROVE  ix.recorded /\ log # <<>>
  BY DEF IndexFit

\* A Check notes when every byte was compared, and leaves the Index as it is.
LEMMA CheckFacts ==
    ASSUME TypeInv, RunCheck
    PROVE  LET everyByte == index.modified # ModificationTime
           IN  /\ run' \in Runs /\ run'.at = "ended" /\ run'.outcome = IndexFit(index, logFile, everyByte)
               /\ run'.superseded = run.superseded /\ run'.short = run.short
               /\ index' = index \/ index' = [index EXCEPT !.modified = ModificationTime]
               /\ index'.bytes = index.bytes /\ index'.fake = index.fake /\ index'.split = index.split
               /\ index'.recorded = index.recorded /\ index'.guess = index.guess /\ index'.forced = index.forced
               /\ index'.full = index.full /\ index'.header = index.header /\ index'.tail = index.tail
               /\ index'.built = index.built /\ index'.fed = index.fed
               /\ run.at = "queued" /\ queue.running.kind = "Check"
<1>1. PICK everyByte \in BOOLEAN : everyByte <=> (index.modified # ModificationTime)
  BY Zenon
<1>2. PICK fit : fit = IndexFit(index, logFile, index.modified # ModificationTime)
  OBVIOUS
<1>3. fit \in Checked
  BY <1>2, FitFacts
<1>4. EndRun(fit) /\ (index' = index \/ index' = [index EXCEPT !.modified = ModificationTime])
  BY <1>2, Zenon DEF RunCheck
<1>5. run \in Runs /\ index \in IndexOf(ModificationTime)
  BY DEF TypeInv, JobsTyped, IndexTyped, Sized
<1>6. run' \in Runs /\ run'.at = "ended" /\ run'.outcome = fit
      /\ run'.superseded = run.superseded /\ run'.short = run.short
  BY <1>3, <1>4, <1>5, EndRunFacts
<1>7. /\ index'.bytes = index.bytes /\ index'.fake = index.fake /\ index'.split = index.split
      /\ index'.recorded = index.recorded /\ index'.guess = index.guess /\ index'.forced = index.forced
      /\ index'.full = index.full /\ index'.header = index.header /\ index'.tail = index.tail
      /\ index'.built = index.built /\ index'.fed = index.fed
  BY ONLY <1>4, <1>5 DEF IndexOf
<1>8. run.at = "queued" /\ queue.running.kind = "Check"
  BY JobsAre DEF RunCheck
<1> QED
  BY <1>2, <1>4, <1>6, <1>7, <1>8, Zenon

\* What the run in flight is after a step of the worker, by the action.
LEMMA WorkerRuns ==
    ASSUME TypeInv, RunInv, Worker
    PROVE  /\ run.at \in {"queued", "resuming", "reading"}
           /\ run'.at \in {"resuming", "reading", "ended"}
           /\ queue.running.kind \in IndexKinds <=> ~(RunCheck \/ FailCheck)
           /\ (RunCheck \/ FailCheck) => queue.running.kind = "Check" /\ run'.at = "ended" /\ run'.outcome \in Checked
           /\ run'.at = "resuming" => IsFull
           /\ run'.at = "ended" /\ ~(RunCheck \/ FailCheck) => run'.outcome \in Loaded
           /\ run'.at = "ended" /\ run'.outcome \in {"Interrupted", "Failed"} /\ queue.running.kind = "Partial"
                 => ~index'.recorded
           /\ run'.at = "ended" /\ run'.outcome \in {"Unchanged", "DataAdded"} => index'.recorded
           /\ run'.at = "resuming" => ~run'.done
           /\ queue.running.kind = "Partial" /\ run'.at = "reading" => index'.recorded
<1>1. /\ run \in Runs /\ Job(queue.running) /\ ModificationTime \in Nat /\ Sized(index, ModificationTime)
      /\ (run.at = "off") <=> (queue.running = NoJob)
  BY TimeFacts DEF TypeInv, JobsTyped, IndexTyped
<1>2. /\ queue.running.kind \in IndexKinds => queue.running.kind # "Check"
      /\ IsFull => queue.running.kind \in IndexKinds /\ queue.running.kind # "Partial"
      /\ run.at = "resuming" => IsFull
      /\ run.at = "reading" => queue.running.kind \in IndexKinds
      /\ queue.running.kind = "Partial" /\ run.at \in {"queued", "reading"} => index.recorded
      /\ Check.kind = "Check"
  BY KindsApart, JobsAre DEF RunInv, IsFull
<1>3. "Successful" \in Loaded /\ "Interrupted" \in Loaded /\ "Failed" \in Loaded /\ "Truncated" \in Checked
      /\ Loaded \subseteq Loaded \cup Checked /\ Checked \subseteq Loaded \cup Checked
      /\ "DataAdded" \notin Loaded /\ "Unchanged" \notin Loaded
  BY KindsApart
<1>4. ASSUME NEW outcome \in {"Successful", "Interrupted", "Failed", "Truncated"}, EndRun(outcome)
      PROVE  run'.at = "ended" /\ run'.outcome = outcome
  BY <1>1, <1>3, <1>4, EndRunFacts
<1>5. CASE RunCheck
  <2>1. run'.at = "ended" /\ run'.outcome \in Checked /\ queue.running.kind = "Check" /\ run.at = "queued"
        /\ (run'.outcome \in {"Unchanged", "DataAdded"} => index'.recorded)
    BY <1>5, CheckFacts, FitFacts, FitRecorded
  <2> QED
    BY <1>2, <1>5, <2>1, KindsApart
<1>6. CASE FailCheck
  <2>1. run.at = "queued" /\ queue.running.kind = "Check" /\ EndRun("Truncated")
    BY <1>2, <1>6 DEF FailCheck
  <2> QED
    BY <1>2, <1>3, <1>4, <1>6, <2>1, KindsApart
<1>7. ASSUME queue.running.kind \in IndexKinds
      PROVE  ~(RunCheck \/ FailCheck)
  BY <1>2, <1>7 DEF RunCheck, FailCheck
<1>8. CASE BeginFull
  <2>1. run.at = "queued" /\ IsFull /\ run'.at = "reading"
    BY <1>8, BeginFacts DEF BeginFull
  <2> QED
    BY <1>2, <1>7, <2>1
<1>9. CASE TakeCached
  <2>1. run.at = "queued" /\ IsFull /\ EndRun("Successful")
    BY <1>9 DEF TakeCached
  <2> QED
    BY <1>2, <1>3, <1>4, <1>7, <2>1
<1>10. CASE CheckCached
  <2>1. run.at = "queued" /\ IsFull
        /\ (run' = [run EXCEPT !.at = "resuming"] \/ EndRun("Interrupted") \/ BeginAnew)
    BY <1>10 DEF CheckCached, LeaveIndex
  <2>2. \/ run'.at = "resuming" /\ run'.done = run.done
        \/ run'.at = "ended" /\ run'.outcome = "Interrupted"
        \/ run'.at = "reading"
    BY <1>1, <1>4, <2>1, BeginFacts DEF Runs
  <2>3. ~run.done
    BY <2>1 DEF RunInv
  <2> QED
    BY <1>2, <1>3, <1>7, <2>1, <2>2, <2>3
<1>11. CASE ResumeCached
  <2>1. run.at = "resuming" /\ IsFull
    BY <1>2, <1>11 DEF ResumeCached, LeaveIndex
  <2>2. \/ EndRun("Interrupted") \/ BeginAnew
        \/ run' = [run EXCEPT !.at = "reading", !.from = ResumeOffset(cache), !.size = Len(logFile)]
    BY <1>11 DEF ResumeCached, LeaveIndex
  <2>3. (run'.at = "ended" /\ run'.outcome = "Interrupted") \/ run'.at = "reading"
    BY <1>1, <1>4, <2>2, BeginFacts DEF Runs
  <2> QED
    BY <1>2, <1>3, <1>7, <2>1, <2>3
<1>12. CASE BeginPartial
  <2>1. run.at = "queued" /\ queue.running.kind = "Partial" /\ run'.at = "reading" /\ index' = index
    BY <1>1, <1>12 DEF BeginPartial, Runs
  <2> QED
    BY <1>2, <1>7, <2>1, KindsApart
<1>13. CASE OpenMissing
  <2>1. run.at = "queued" /\ queue.running.kind \in IndexKinds /\ ~index'.recorded
        /\ (EndRun("Interrupted") \/ EndRun("Successful"))
    BY <1>13, NotRecorded DEF OpenMissing
  <2> QED
    BY <1>2, <1>3, <1>4, <1>7, <2>1
<1>14. CASE IndexBlock
  <2>1. run.at = "reading" /\ run' = run
    BY <1>14 DEF IndexBlock
  <2>2. index'.recorded = index.recorded
    BY <1>14 DEF IndexBlock, AddBlock, TypeInv, IndexTyped, Sized, IndexOf
  <2> QED
    BY <1>2, <1>7, <2>1, <2>2
<1>15. CASE EndIndex
  <2>1. run.at = "reading" /\ queue.running.kind \in IndexKinds
    BY <1>2, <1>15, EndFacts
  <2>2. (EndRun("Interrupted") /\ ~index'.recorded) \/ EndRun("Successful")
    BY <1>15, EndFacts, NotRecorded
  <2> QED
    BY <1>2, <1>3, <1>4, <1>7, <2>1, <2>2
<1>16. CASE StopReading \/ ReadFails
  <2>1. run.at = "reading" /\ run'.at = "reading" /\ index' = index
    BY <1>1, <1>16, StopFacts
  <2> QED
    BY <1>2, <1>7, <2>1
<1>17. CASE FailIndex
  <2>1. run.at \in {"resuming", "reading"} /\ EndRun("Failed") /\ index' = Cleared
    BY <1>17 DEF FailIndex
  <2>2. queue.running.kind \in IndexKinds /\ ~index'.recorded
    BY <1>2, <2>1, NotRecorded
  <2> QED
    BY <1>2, <1>3, <1>4, <1>7, <2>1, <2>2
<1> QED
  BY <1>5, <1>6, <1>8, <1>9, <1>10, <1>11, <1>12, <1>13, <1>14, <1>15, <1>16, <1>17 DEF Worker

\* Asking for a job while a run is in flight, or is handled: r is that run.
LEMMA EnqueuedRuns ==
    ASSUME JobsTyped, RunInv, UNCHANGED <<index, linesBefore>>, NEW r \in Runs,
           r.outcome = run.outcome, r.done = run.done,
           (r.at = run.at /\ run.at # "told") \/ (r.at = "told" /\ run.at = "ended"),
           \/ UNCHANGED queue /\ run' = r
           \/ \E job : Job(job) /\ job.kind \in {"Check", "Automatic", "Explicit"} /\ Enqueued(job, r)
    PROVE  RunInv'
<1>1. queue.waiting.kind # "Partial"
  BY DEF RunInv
<1>2. (r.at = "off") <=> (queue.running = NoJob)
  BY DEF JobsTyped
<1>3. CASE UNCHANGED queue /\ run' = r
  BY <1>1, <1>3 DEF RunInv, IsFull
<1>4. ASSUME NEW job, Job(job), job.kind \in {"Check", "Automatic", "Explicit"}, Enqueued(job, r)
      PROVE  RunInv'
  <2>1. \/ /\ queue.running = NoJob /\ queue'.running = job /\ queue'.waiting = NoJob
           /\ run' = Queued
        \/ /\ queue.running # NoJob /\ queue'.running = queue.running /\ run' = r
           /\ queue'.waiting = IF Strength[job.kind] >= Strength[queue.waiting.kind]
                               THEN job ELSE queue.waiting
    BY <1>2, <1>4, EnqueuedFacts
  <2>2. queue'.waiting.kind # "Partial"
    BY <1>1, <1>4, <2>1, JobsAre
  <2>3. CASE queue.running = NoJob /\ queue'.running = job /\ run' = Queued
    BY <1>4, <2>2, <2>3, RunsAre DEF RunInv
  <2>4. CASE queue'.running = queue.running /\ run' = r
    BY <2>2, <2>4 DEF RunInv, IsFull
  <2> QED
    BY <2>1, <2>3, <2>4
<1> QED
  BY <1>3, <1>4

LEMMA RunInit ==
    ASSUME Init
    PROVE  RunInv
<1>1. queue = [running |-> Attach(chosen), waiting |-> NoJob] /\ run = Queued
  BY DEF Init
<1>2. queue.running.kind = "Attach" /\ queue.waiting.kind = "None" /\ run.at = "queued"
  BY <1>1, RunsAre DEF Attach, NoJob
<1> QED
  BY <1>1, <1>2, RunsAre DEF RunInv

LEMMA RunNext ==
    ASSUME TypeInv, RunInv, [Next]_vars
    PROVE  RunInv'
<1>1. /\ JobsTyped /\ run \in Runs /\ NoEncoding \in Known /\ chosen \in Known
      /\ (run.at = "off") <=> (queue.running = NoJob)
  BY DEF TypeInv, JobsTyped, ToldTyped, Known
<1>2. CASE UNCHANGED <<index, queue, run, linesBefore>>
  BY <1>2 DEF RunInv, IsFull
<1>3. CASE Worker
  <2>1. UNCHANGED <<queue, linesBefore>>
    BY <1>3, WorkerFrame DEF OwnersUnchanged
  <2>2. run.at # "told"
    BY <1>3, WorkerRuns
  <2>3. queue.waiting.kind # "Partial"
    BY <2>2 DEF RunInv
  <2>4. /\ run'.at \in {"resuming", "reading", "ended"}
        /\ queue.running.kind \in IndexKinds <=> ~(RunCheck \/ FailCheck)
        /\ (RunCheck \/ FailCheck) =>
              queue.running.kind = "Check" /\ run'.at = "ended" /\ run'.outcome \in Checked
        /\ run'.at = "resuming" => IsFull
        /\ run'.at = "ended" /\ ~(RunCheck \/ FailCheck) => run'.outcome \in Loaded
        /\ run'.at = "ended" /\ run'.outcome \in {"Interrupted", "Failed"} /\ queue.running.kind = "Partial"
              => ~index'.recorded
        /\ run'.at = "ended" /\ run'.outcome \in {"Unchanged", "DataAdded"} => index'.recorded
        /\ run'.at = "resuming" => ~run'.done
        /\ queue.running.kind = "Partial" /\ run'.at = "reading" => index'.recorded
    BY <1>3, WorkerRuns
  <2>5. queue.running.kind \in IndexKinds => queue.running.kind # "Check"
    BY KindsApart
  <2>6. run'.at = "reading" => queue.running.kind \in IndexKinds
    BY <2>4
  <2>7. run'.at = "ended" => run'.outcome # "None" /\ ((run'.outcome \in Checked) <=> (queue.running.kind = "Check"))
    BY <2>4, <2>5, KindsApart
  <2> QED
    BY <2>1, <2>3, <2>4, <2>6, <2>7 DEF RunInv, IsFull
<1>4. CASE Shutdown
  <2>1. run'.at = "off" /\ queue'.running.kind = "None" /\ queue'.waiting.kind = "None"
    BY <1>4, RunsAre DEF Shutdown, NoJobs, NoJob
  <2> QED
    BY <2>1 DEF RunInv
<1>5. CASE FinishJobAndStartNext
  <2>1. /\ queue' = [running |-> queue.waiting, waiting |-> NoJob] /\ run.at = "told"
        /\ run' = (IF queue'.running = NoJob THEN NoRun ELSE Queued) /\ UNCHANGED <<index, linesBefore>>
    BY <1>5 DEF FinishJobAndStartNext, StartWaiting
  <2>2. queue'.running = queue.waiting /\ queue'.waiting.kind = "None" /\ run'.at \in {"off", "queued"} /\ ~run'.done
    BY <2>1, RunsAre, JobsAre
  <2> QED
    BY <2>1, <2>2 DEF RunInv
<1>6. \A r \in Runs : /\ Interrupted(r) \in Runs /\ Interrupted(r).at = r.at
                       /\ Interrupted(r).outcome = r.outcome /\ Interrupted(r).done = r.done
  BY InterruptedFacts
<1>7. CASE Reload
  <2>1. Job(Explicit(NoEncoding)) /\ Explicit(NoEncoding).kind = "Explicit" /\ run.at # "told"
        /\ Enqueued(Explicit(NoEncoding), Interrupted(run)) /\ UNCHANGED <<index, linesBefore>>
    BY <1>1, <1>7, JobsAre DEF Reload, ReadAgain, InEventLoop
  <2> QED
    BY <1>1, <1>6, <2>1, EnqueuedRuns
<1>8. CASE FileChangedOnDisk
  <2>1. Job(Check) /\ Check.kind = "Check" /\ run.at # "told" /\ Enqueued(Check, run)
        /\ UNCHANGED <<index, linesBefore>>
    BY <1>8, JobsAre DEF FileChangedOnDisk, InEventLoop
  <2> QED
    BY <1>1, <2>1, EnqueuedRuns
<1>9. CASE StopLoading
  <2>1. run' = Interrupted(run) /\ run.at # "told" /\ UNCHANGED <<index, linesBefore, queue>>
    BY <1>9 DEF StopLoading, InEventLoop
  <2> QED
    BY <1>1, <1>6, <2>1, EnqueuedRuns
<1>10. ASSUME NEW choice \in Known, NEW r \in Runs, NEW news, SettleEncoding(choice, r, news),
              (r.at = "off") <=> (queue.running = NoJob),
              r.outcome = run.outcome, r.done = run.done, UNCHANGED <<index, linesBefore>>,
              (r.at = run.at /\ run.at # "told") \/ (r.at = "told" /\ run.at = "ended")
       PROVE  RunInv'
  <2>1. \/ UNCHANGED queue /\ run' = r
        \/ UNCHANGED queue /\ run' = Interrupted(r)
        \/ UNCHANGED <<queue, run>>
        \/ \E forced \in Known : Enqueued(Explicit(forced), Interrupted(r))
    BY <1>10, SettleFacts
  <2>2. CASE UNCHANGED queue /\ run' = r
    BY <1>1, <1>10, <2>2, EnqueuedRuns
  <2>3. PICK i \in Runs : i = Interrupted(r) /\ i.at = r.at /\ i.outcome = r.outcome /\ i.done = r.done
    BY <1>6
  <2>4. CASE UNCHANGED queue /\ run' = i
    BY <1>1, <1>10, <2>3, <2>4, EnqueuedRuns
  <2>5. ASSUME NEW forced \in Known, Enqueued(Explicit(forced), i)
        PROVE  RunInv'
    <3>1. Job(Explicit(forced)) /\ Explicit(forced).kind = "Explicit"
      BY JobsAre
    <3> QED
      BY <1>1, <1>10, <2>3, <2>5, <3>1, EnqueuedRuns
  <2> QED
    BY <1>2, <1>10, <2>1, <2>2, <2>3, <2>4, <2>5
<1>11. CASE SetEncoding
  <2>1. PICK choice \in Known : SettleEncoding(choice, run, told)
    BY <1>11 DEF SetEncoding
  <2>2. run.at # "told" /\ UNCHANGED <<index, linesBefore>>
    BY <1>11 DEF SetEncoding, InEventLoop
  <2> QED
    BY <1>1, <1>10, <2>1, <2>2
<1>12. /\ Handled \in Runs /\ Handled.at = "told" /\ Handled.outcome = run.outcome /\ Handled.done = run.done
  BY <1>1, HandledFacts
<1>13. CASE IndexingFinished
  <2>1. SettleEncoding(chosen, Handled, ToldFrom(FirstChanged(queue.running.kind), index, display))
        /\ run.at = "ended" /\ UNCHANGED <<index, linesBefore>>
    BY <1>13 DEF IndexingFinished
  <2> QED
    BY <1>1, <1>10, <1>12, <2>1
<1>14. CASE CheckFileChangesFinished
  <2>1. run.at = "ended" /\ run.outcome \in Checked /\ UNCHANGED index
    BY <1>14 DEF CheckFileChangesFinished
  <2>2. CASE run' = Handled /\ UNCHANGED <<queue, linesBefore>>
    BY <1>1, <1>12, <2>1, <2>2, EnqueuedRuns
  <2>3. CASE run.outcome = "DataAdded" /\ linesBefore' = LineCount(index) /\ Enqueued(Partial, Handled)
    <3>1. queue.running.kind = "Check" /\ index.recorded
      BY <2>1, <2>3 DEF RunInv
    <3>2. queue.running # NoJob /\ (Handled.at = "off" <=> queue.running = NoJob)
      BY <1>1, <1>12, <2>1, <3>1
    <3>3. queue'.running = queue.running /\ run' = Handled
      BY <1>1, <1>12, <2>3, <3>2, EnqueuedFacts, JobsAre
    <3>4. LineCount(index') = LineCount(index) /\ linesBefore' = LineCount(index) /\ index' = index
      BY <2>1, <2>3
    <3> QED
      BY <1>12, <2>1, <3>1, <3>3, <3>4 DEF RunInv, IsFull
  <2>4. CASE Enqueued(Automatic, Handled) /\ UNCHANGED linesBefore
    BY <1>1, <1>12, <2>1, <2>4, EnqueuedRuns, JobsAre
  <2> QED
    BY <1>14, <2>2, <2>3, <2>4 DEF CheckFileChangesFinished
<1>15. Change \/ UNCHANGED vars => UNCHANGED <<index, queue, run, linesBefore>>
  BY DEF Change, vars
<1> QED
  BY <1>2, <1>3, <1>4, <1>5, <1>7, <1>8, <1>9, <1>11, <1>13, <1>14, <1>15 DEF Next, Delivery

-----------------------------------------------------------------------------
(* What readers were told.                                                 *)

\* The Log Lines of two Indexes are compared one by one.
LEMMA LineIs ==
    ASSUME NEW ix, NEW encoding, NEW line \in 1..LineCount(ix)
    PROVE  LinesOf(ix, encoding)[line]
              = [bytes |-> LineBytes(ix, line), split |-> Splits[ix.split], read |-> encoding]
  BY DEF LinesOf

LEMMA LinesSame ==
    ASSUME NEW t \in Nat, t <= MaxChanges + 1, NEW ix, NEW n, Sized(ix, t), Sized(n, t),
           n.bytes = ix.bytes, n.fake = ix.fake, n.split = ix.split, NEW encoding \in Encodings
    PROVE  LinesOf(n, encoding) = LinesOf(ix, encoding) /\ LineCount(n) = LineCount(ix)
<1>1. LineCount(n) = LineCount(ix)
  BY DEF LineCount, Whole
<1>2. \A line : LineBytes(n, line) = LineBytes(ix, line)
  BY DEF LineBytes, Whole
<1>3. ASSUME NEW line \in 1..LineCount(ix)
      PROVE  LinesOf(n, encoding)[line] = LinesOf(ix, encoding)[line]
  <2>1. LinesOf(ix, encoding)[line] = [bytes |-> LineBytes(ix, line), split |-> Splits[ix.split], read |-> encoding]
    BY LineIs
  <2>2. line \in 1..LineCount(n)
    BY <1>1
  <2>3. LinesOf(n, encoding)[line] = [bytes |-> LineBytes(n, line), split |-> Splits[n.split], read |-> encoding]
    BY <2>2, LineIs
  <2> QED
    BY <1>2, <2>1, <2>3
<1>4. /\ LinesOf(n, encoding) \in Seq(ReadLines) /\ LinesOf(ix, encoding) \in Seq(ReadLines)
      /\ Len(LinesOf(n, encoding)) = Len(LinesOf(ix, encoding))
      /\ Len(LinesOf(ix, encoding)) = LineCount(ix)
  BY <1>1, LinesFacts
<1>5. LinesOf(n, encoding) = LinesOf(ix, encoding)
  BY <1>3, <1>4, SeqEqual
<1> QED
  BY <1>1, <1>5

\* The Log Lines that had their line feed stay what they are while bytes are
\* added.
LEMMA KeptLines ==
    ASSUME NEW t \in Nat, t <= MaxChanges + 1, NEW ix, NEW n, Sized(ix, t), Sized(n, t),
           Prefix(ix.bytes, n.bytes), ix.bytes # <<>> => n.split = ix.split, NEW encoding \in Encodings
    PROVE  /\ Whole(ix) <= Whole(n)
           /\ \A line \in 1..Whole(ix) : LinesOf(n, encoding)[line] = LinesOf(ix, encoding)[line]
<1>1. /\ ix.bytes \in Written(t) /\ n.bytes \in Written(t)
      /\ Len(ix.bytes) \in 0..MaxSize /\ Len(n.bytes) \in 0..MaxSize
      /\ (ix.bytes = <<>>) <=> (Len(ix.bytes) = 0)
  BY SizedFields
<1>2. /\ Whole(ix) \in Nat /\ 2 * Whole(ix) <= Len(ix.bytes) /\ Whole(n) \in Nat
      /\ Len(n.bytes) <= 2 * Whole(n) + 1 /\ Whole(ix) <= LineCount(ix) /\ Whole(n) <= LineCount(n)
      /\ LineCount(ix) \in Nat /\ LineCount(n) \in Nat
  BY CountFacts, Bounds
<1>3. Len(ix.bytes) <= Len(n.bytes) /\ \A half \in 1..Len(ix.bytes) : ix.bytes[half] = n.bytes[half]
  BY DEF Prefix
<1>4. Whole(ix) <= Whole(n)
  BY <1>1, <1>2, <1>3, Bounds
<1>5. ASSUME NEW line \in 1..Whole(ix)
      PROVE  LinesOf(n, encoding)[line] = LinesOf(ix, encoding)[line]
  <2>1. line \in Nat \ {0} /\ line \in 1..LineCount(ix) /\ line \in 1..LineCount(n)
        /\ line <= Whole(ix) /\ line <= Whole(n)
    BY <1>2, <1>4
  <2>2. PICK first : first = 2 * line - 1
    OBVIOUS
  <2>3. PICK last : last = 2 * line
    OBVIOUS
  <2>4. /\ first \in Nat \ {0} /\ last \in Nat /\ last <= Len(ix.bytes) /\ last <= Len(n.bytes)
        /\ first + 1 = last
    <3>1. line \in Nat /\ 1 <= line /\ line <= Whole(ix) /\ Len(n.bytes) \in Nat /\ Len(ix.bytes) \in Nat
      BY <1>1, <2>1, Bounds
    <3> QED
      BY ONLY <1>2, <1>3, <2>2, <2>3, <3>1
  <2>5. /\ LineBytes(ix, line) = SubSeq(ix.bytes, first, last)
        /\ LineBytes(n, line) = SubSeq(n.bytes, first, last)
    BY <2>1, <2>2, <2>3 DEF LineBytes
  <2>6. PICK x : x = SubSeq(ix.bytes, first, last)
    OBVIOUS
  <2>7. PICK y : y = SubSeq(n.bytes, first, last)
    OBVIOUS
  <2>8. /\ x \in Written(t) /\ Len(x) = 2 /\ \A half \in 1..2 : x[half] = ix.bytes[first + half - 1]
    <3>1. /\ SubSeq(ix.bytes, first, last) \in Written(t)
          /\ Len(SubSeq(ix.bytes, first, last)) = (IF first <= last THEN last - first + 1 ELSE 0)
          /\ \A half \in 1..(last - first + 1) : SubSeq(ix.bytes, first, last)[half] = ix.bytes[first + half - 1]
      BY ONLY t \in Nat, <1>1, <2>4, PartFacts
    <3>2. first <= last /\ last - first + 1 = 2
      BY <2>4
    <3> QED
      BY ONLY <2>6, <3>1, <3>2
  <2>9. /\ y \in Written(t) /\ Len(y) = 2 /\ \A half \in 1..2 : y[half] = n.bytes[first + half - 1]
    <3>1. /\ SubSeq(n.bytes, first, last) \in Written(t)
          /\ Len(SubSeq(n.bytes, first, last)) = (IF first <= last THEN last - first + 1 ELSE 0)
          /\ \A half \in 1..(last - first + 1) : SubSeq(n.bytes, first, last)[half] = n.bytes[first + half - 1]
      BY ONLY t \in Nat, <1>1, <2>4, PartFacts
    <3>2. first <= last /\ last - first + 1 = 2
      BY <2>4
    <3> QED
      BY ONLY <2>7, <3>1, <3>2
  <2>10. \A half \in 1..2 : first + half - 1 \in 1..Len(ix.bytes)
    BY <1>1, <2>4, Bounds
  <2>11. \A half \in 1..Len(x) : x[half] = y[half]
    BY <1>3, <2>8, <2>9, <2>10
  <2>12. x = y
    BY <2>8, <2>9, <2>11, SameBytes
  <2>13. LineBytes(ix, line) = LineBytes(n, line)
    BY <2>5, <2>6, <2>7, <2>12
  <2>14. n.split = ix.split
    BY <1>1, <2>4
  <2>15. LinesOf(ix, encoding)[line] = [bytes |-> LineBytes(ix, line), split |-> Splits[ix.split], read |-> encoding]
    BY <2>1, LineIs
  <2>16. LinesOf(n, encoding)[line] = [bytes |-> LineBytes(n, line), split |-> Splits[n.split], read |-> encoding]
    BY <2>1, LineIs
  <2> QED
    BY <2>13, <2>14, <2>15, <2>16
<1> QED
  BY <1>4, <1>5

\* No run changes the Index: what readers were told of the Log Lines is due.
Steady == queue.running.kind \notin IndexKinds \/ run.at = "told"

\* A Partial leaves the Log Lines alone that readers keep of what they were
\* told, unless it is cut short, and then the Index is not recorded.
FollowInv ==
    process = "up" =>
        /\ Steady /\ lost # "Added" => told = LinesOf(index, display)
        /\ Steady /\ lost = "Added" => ~index.recorded
        /\ queue.running.kind = "Partial" /\ run.at # "told" /\ index.recorded =>
              /\ FirstChanged("Partial") <= Whole(index)
              /\ \A line \in 1..Lesser(FirstChanged("Partial"), Len(told)) :
                    told[line] = LinesOf(index, display)[line]

\* A Partial only adds to the Index, unless it loses it.
LEMMA PartialKeeps ==
    ASSUME TypeInv, RunInv, Worker, queue.running.kind = "Partial", index'.recorded
    PROVE  /\ index.recorded /\ Prefix(index.bytes, index'.bytes)
           /\ index.bytes # <<>> => index'.split = index.split
<1>1. /\ ModificationTime \in Nat /\ Sized(index, ModificationTime) /\ run \in Runs
      /\ logFile \in Written(ModificationTime)
      /\ index.bytes \in Written(ModificationTime) /\ Len(index.bytes) \in 0..MaxSize
      /\ index.bytes # <<>> => index.split # NoEncoding
  BY TimeFacts, SizedFields DEF TypeInv, IndexTyped, JobsTyped, DiskTyped, Sized
<1>2. ~IsFull /\ ~RunCheck /\ ~FailCheck
  BY JobsAre, KindsApart DEF IsFull, RunCheck, FailCheck
<1>3. Prefix(index.bytes, index.bytes)
  BY <1>1, Bounds DEF Prefix
<1>4. run.at # "resuming"
  BY <1>2 DEF RunInv
<1>5. CASE BeginPartial
  <2>1. index' = index
    BY <1>5 DEF BeginPartial
  <2> QED
    BY <1>3, <2>1
<1>6. CASE IndexBlock
  <2>1. PICK block \in Written(ModificationTime) :
           /\ index' = AddBlock(index, block)
           /\ Len(block) > 0 /\ Len(index.bytes) + Len(block) <= Len(logFile)
           /\ \A half \in 1..Len(block) : block[half] = logFile[Len(index.bytes) + half]
    BY <1>6, BlockFacts
  <2>2. Len(index.bytes) + Len(block) <= MaxSize
    BY <1>1, <2>1, WrittenFacts, Bounds
  <2>3. /\ index'.bytes = index.bytes \o block /\ index'.recorded = index.recorded
        /\ index.bytes # <<>> => index'.split = index.split
    <3>1. PICK n : n = AddBlock(index, block)
      OBVIOUS
    <3>2. /\ n.bytes = index.bytes \o block /\ n.recorded = index.recorded
          /\ n.split = (IF index.bytes # <<>> THEN index.split
                        ELSE IF index.forced # NoEncoding THEN index.forced ELSE n.guess)
      BY ONLY <1>1, <2>2, <3>1, AddBlockFacts
    <3> QED
      BY ONLY <2>1, <3>1, <3>2
  <2>4. /\ Len(index.bytes \o block) = Len(index.bytes) + Len(block)
        /\ \A half \in 1..(Len(index.bytes) + Len(block)) :
              (index.bytes \o block)[half]
                  = IF half <= Len(index.bytes) THEN index.bytes[half] ELSE block[half - Len(index.bytes)]
    BY <1>1, <2>2, JoinedFacts
  <2>5. Len(block) \in Nat
    BY WrittenFacts, <1>1
  <2>6. Prefix(index.bytes, index.bytes \o block)
    BY <1>1, <2>4, <2>5, Bounds DEF Prefix
  <2> QED
    BY <2>3, <2>6
<1>7. ASSUME index' = Completed(index, run.from, run.size, logFile, ModificationTime), RunInv, run.at = "reading"
      PROVE  /\ index.recorded /\ Prefix(index.bytes, index'.bytes)
             /\ index.bytes # <<>> => index'.split = index.split
  <2>1. run.from \in Nat /\ run.size \in 0..MaxSize
    BY <1>1, Bounds DEF Runs
  <2>2. /\ index'.bytes = index.bytes
        /\ index'.split = (IF index.split = NoEncoding THEN Detected ELSE index.split)
    BY <1>1, <1>7, <2>1, CompletedFacts, SMTT(60)
  <2>3. index.recorded
    BY <1>7 DEF RunInv
  <2> QED
    BY <1>1, <1>3, <2>2, <2>3
<1>8. CASE EndIndex
  <2>1. index' = Dropped(index) \/ index' = Completed(index, run.from, run.size, logFile, ModificationTime)
    BY <1>8, EndFacts
  <2>2. run.at = "reading"
    BY <1>8, EndFacts
  <2> QED
    BY <1>7, <2>1, <2>2, NotRecorded
<1>9. CASE StopReading \/ ReadFails
  <2>1. index' = index
    BY <1>1, <1>9, StopFacts
  <2> QED
    BY <1>3, <2>1
<1>10. ~OpenMissing /\ ~FailIndex
  BY NotRecorded DEF OpenMissing, FailIndex
<1>11. ~BeginFull /\ ~TakeCached /\ ~CheckCached /\ ~ResumeCached
  BY <1>2, <1>4 DEF BeginFull, TakeCached, CheckCached, ResumeCached, LeaveIndex
<1> QED
  BY <1>2, <1>5, <1>6, <1>8, <1>9, <1>10, <1>11 DEF Worker

LEMMA FirstChangedFacts ==
    ASSUME linesBefore \in 0..MaxSize
    PROVE  /\ FirstChanged("Partial") \in Nat
           /\ \A n : FirstChanged("Partial") <= n /\ n \in Nat => FirstChanged("Partial") \in 0..n
           /\ \A n \in Nat : linesBefore = n => FirstChanged("Partial") = IF n > 0 THEN n - 1 ELSE 0
  BY Bounds DEF FirstChanged

LEMMA FollowWorker ==
    ASSUME TypeInv, RunInv, FollowInv, Worker, TypeInv'
    PROVE  FollowInv'
<1>1. /\ ModificationTime \in Nat /\ ModificationTime <= MaxChanges + 1
      /\ Sized(index, ModificationTime) /\ display \in Encodings
      /\ linesBefore \in 0..MaxSize /\ Len(told) \in Nat
  BY TimeFacts, Bounds DEF TypeInv, IndexTyped, ToldTyped
<1>2. /\ process = "up" /\ UNCHANGED <<queue, linesBefore, display, process, told, lost>>
      /\ run.at # "told" /\ run'.at # "told"
      /\ queue.running.kind \in IndexKinds <=> ~(RunCheck \/ FailCheck)
      /\ (RunCheck \/ FailCheck) => queue.running.kind = "Check"
  BY WorkerFrame, WorkerRuns DEF OwnersUnchanged
<1>3. Sized(index', ModificationTime)
  BY WorkerSized
<1>4. CASE queue.running.kind \in IndexKinds /\ queue.running.kind # "Partial"
  BY <1>2, <1>4 DEF FollowInv, Steady
<1>5. CASE queue.running.kind = "Partial"
  <2>1. CASE ~index'.recorded
    BY <1>2, <1>5, <2>1, KindsApart DEF FollowInv, Steady
  <2>2. CASE index'.recorded
    <3>1. /\ index.recorded /\ Prefix(index.bytes, index'.bytes)
          /\ index.bytes # <<>> => index'.split = index.split
      BY <1>5, <2>2, PartialKeeps
    <3>2. /\ Whole(index) <= Whole(index')
          /\ \A line \in 1..Whole(index) : LinesOf(index', display)[line] = LinesOf(index, display)[line]
      BY <1>1, <1>3, <3>1, KeptLines
    <3>3. /\ FirstChanged("Partial") <= Whole(index)
          /\ \A line \in 1..Lesser(FirstChanged("Partial"), Len(told)) :
                told[line] = LinesOf(index, display)[line]
      BY <1>2, <1>5, <3>1 DEF FollowInv
    <3>4. Whole(index) \in Nat /\ Whole(index') \in Nat /\ FirstChanged("Partial") \in Nat
      BY <1>1, <1>3, CountFacts, FirstChangedFacts
    <3>5. /\ FirstChanged("Partial")' = FirstChanged("Partial")
          /\ LinesOf(index, display)' = LinesOf(index', display)
      BY <1>2 DEF FirstChanged
    <3>6. Lesser(FirstChanged("Partial"), Len(told)) \in 0..Whole(index)
      BY <1>1, <3>3, <3>4 DEF Lesser
    <3>7. FirstChanged("Partial")' <= Whole(index')
      BY <3>2, <3>3, <3>4, <3>5
    <3>8. \A line \in 1..Lesser(FirstChanged("Partial"), Len(told)) :
                told[line] = LinesOf(index', display)[line]
      BY <3>2, <3>3, <3>4, <3>6
    <3>9. \A line \in 1..Lesser(FirstChanged("Partial"), Len(told))' :
                told'[line] = LinesOf(index', display')[line]
      BY <1>2, <3>5, <3>8
    <3> QED
      BY <1>2, <1>5, <3>7, <3>9, KindsApart DEF FollowInv, Steady
  <2> QED
    BY <2>1, <2>2
<1>6. CASE RunCheck \/ FailCheck
  <2>1. /\ index'.bytes = index.bytes /\ index'.fake = index.fake /\ index'.split = index.split
        /\ index'.recorded = index.recorded
    BY <1>6, CheckFacts DEF FailCheck
  <2>2. LinesOf(index', display) = LinesOf(index, display)
    BY <1>1, <1>3, <2>1, LinesSame
  <2>3. queue.running.kind = "Check"
    BY <1>2, <1>6
  <2>4. Steady /\ Steady'
    BY <1>2, <2>3, KindsApart DEF Steady
  <2> QED
    BY <1>2, <2>1, <2>2, <2>3, <2>4 DEF FollowInv
<1> QED
  BY <1>2, <1>4, <1>5, <1>6

\* A job is asked for while r is the run in flight, and readers are told what
\* the Log Lines are, or nothing.
LEMMA FollowEnqueued ==
    ASSUME JobsTyped, FollowInv, process = "up", NEW r \in Runs, linesBefore \in 0..MaxSize,
           UNCHANGED index,
           \/ UNCHANGED lost
           \/ /\ queue.running.kind = "Check" /\ lost' # "Added"
              /\ (lost # "Added" /\ UNCHANGED <<told, display>>) \/ told' = LinesOf(index, display'),
           (r.at = run.at /\ run.at # "told" /\ UNCHANGED linesBefore)
              \/ (r.at = "told" /\ run.at = "ended" /\ queue.running.kind = "Check"),
           \/ UNCHANGED queue /\ run' = r
           \/ \E job : Job(job) /\ Enqueued(job, r)
                       /\ \/ job.kind \in {"Check", "Automatic", "Explicit"}
                          \/ job.kind = "Partial" /\ queue.running.kind = "Check",
           UNCHANGED <<told, display>> \/ told' = LinesOf(index, display')
    PROVE  FollowInv'
<1>1. (r.at = "off") <=> (queue.running = NoJob)
  BY DEF JobsTyped
<1>2. FirstChanged("Partial") \in Nat
  BY FirstChangedFacts
<1>3. ASSUME queue'.running = queue.running, run' = r
      PROVE  FollowInv'
  <2>1. CASE queue.running.kind = "Check"
    <3>1. Steady /\ Steady'
      BY <1>3, <2>1, KindsApart DEF Steady
    <3> QED
      BY <1>3, <2>1, <3>1 DEF FollowInv
  <2>2. CASE r.at = run.at /\ run.at # "told" /\ UNCHANGED <<linesBefore, lost>>
    <3>1. Steady <=> Steady'
      BY <1>3, <2>2 DEF Steady
    <3>2. FirstChanged("Partial")' = FirstChanged("Partial")
      BY <2>2 DEF FirstChanged
    <3>3. CASE UNCHANGED <<told, display>>
      BY <1>3, <2>2, <3>1, <3>2, <3>3 DEF FollowInv
    <3>4. CASE told' = LinesOf(index, display')
      BY <1>3, <2>2, <3>1, <3>2, <3>4 DEF FollowInv
    <3> QED
      BY <3>3, <3>4
  <2> QED
    BY <2>1, <2>2
<1>4. ASSUME queue.running = NoJob, queue'.running.kind \in {"Check", "Automatic", "Explicit"}, run' = Queued
      PROVE  FollowInv'
  <2>1. queue.running.kind = "None" /\ run'.at = "queued"
    BY <1>4, JobsAre, RunsAre
  <2>2. Steady /\ UNCHANGED lost
    BY <2>1, KindsApart DEF Steady
  <2> QED
    BY <1>4, <2>1, <2>2 DEF FollowInv, Steady
<1>5. ASSUME NEW job, Job(job), Enqueued(job, r),
             \/ job.kind \in {"Check", "Automatic", "Explicit"}
             \/ job.kind = "Partial" /\ queue.running.kind = "Check"
      PROVE  FollowInv'
  <2>1. \/ /\ queue.running = NoJob /\ queue'.running = job /\ run' = Queued
        \/ /\ queue.running # NoJob /\ queue'.running = queue.running /\ run' = r
    BY <1>1, <1>5, EnqueuedFacts
  <2>2. queue.running = NoJob => job.kind \in {"Check", "Automatic", "Explicit"}
    BY <1>5, JobsAre
  <2> QED
    BY <1>3, <1>4, <2>1, <2>2
<1> QED
  BY <1>3, <1>5

LEMMA FollowSettle ==
    ASSUME TypeInv, FollowInv, process = "up", NEW choice \in Known, UNCHANGED <<index, linesBefore, lost>>,
           run.at # "told", SettleEncoding(choice, run, told)
    PROVE  FollowInv'
<1>1. /\ JobsTyped /\ run \in Runs /\ linesBefore \in 0..MaxSize /\ display \in Encodings
      /\ (run.at = "off") <=> (queue.running = NoJob)
  BY DEF TypeInv, JobsTyped, ToldTyped, IndexTyped
<1>2. PICK i \in Runs : i = Interrupted(run) /\ i.at = run.at
  BY <1>1, InterruptedFacts
<1>3. \/ UNCHANGED <<told, display, queue>> /\ run' = run
      \/ told' = LinesOf(index, display') /\ UNCHANGED queue /\ run' = i
      \/ process' = "crashed"
      \/ /\ told' = LinesOf(index, display')
         /\ \E forced \in Known : Enqueued(Explicit(forced), i)
  BY <1>1, <1>2, SettleFacts
<1>4. CASE UNCHANGED <<told, display, queue>> /\ run' = run
  BY <1>1, <1>4, FollowEnqueued
<1>5. CASE told' = LinesOf(index, display') /\ UNCHANGED queue /\ run' = i
  BY <1>1, <1>2, <1>5, FollowEnqueued
<1>6. CASE process' = "crashed"
  BY <1>6 DEF FollowInv
<1>7. ASSUME told' = LinesOf(index, display'), NEW forced \in Known, Enqueued(Explicit(forced), i)
      PROVE  FollowInv'
  <2>1. Job(Explicit(forced)) /\ Explicit(forced).kind = "Explicit"
    BY JobsAre
  <2> QED
    BY <1>1, <1>2, <1>7, <2>1, FollowEnqueued
<1> QED
  BY <1>3, <1>4, <1>5, <1>6, <1>7

\* After a Partial readers keep what they were told up to the last Log Line
\* indexed before data was added, and nothing after any other index run.
LEMMA FollowFinished ==
    ASSUME TypeInv, RunInv, FollowInv, IndexingFinished
    PROVE  FollowInv'
<1>1. /\ JobsTyped /\ run \in Runs /\ linesBefore \in 0..MaxSize /\ display \in Encodings /\ chosen \in Known
      /\ (run.at = "off") <=> (queue.running = NoJob)
      /\ ModificationTime \in Nat /\ ModificationTime <= MaxChanges + 1
      /\ Sized(index, ModificationTime) /\ told \in Seq(ReadLines) /\ Len(told) <= MaxSize /\ Len(told) \in Nat
      /\ Job(queue.running)
  BY TimeFacts, Bounds DEF TypeInv, JobsTyped, ToldTyped, IndexTyped
<1>2. /\ process = "up" /\ run.at = "ended" /\ run.outcome \in Loaded
      /\ lost' = (IF run.outcome = "Successful" /\ (index.recorded \/ queue.running # Partial)
                  THEN IF run.short THEN "Rest" ELSE "Nothing"
                  ELSE IF queue.running = Partial THEN "Added" ELSE "Everything")
      /\ UNCHANGED <<index, linesBefore>>
  BY DEF IndexingFinished
<1>3. PICK news : news = ToldFrom(FirstChanged(queue.running.kind), index, display)
  OBVIOUS
<1>4. SettleEncoding(chosen, Handled, news)
  BY <1>3 DEF IndexingFinished
<1>5. Handled \in Runs /\ Handled.at = "told" /\ Interrupted(Handled) = Handled
  BY <1>1, HandledFacts
<1>6. \/ told' = news /\ UNCHANGED <<display, queue>> /\ run' = Handled
      \/ told' = LinesOf(index, display') /\ UNCHANGED queue /\ run' = Handled
      \/ process' = "crashed"
      \/ /\ told' = LinesOf(index, display')
         /\ \E forced \in Known : Enqueued(Explicit(forced), Handled)
  BY <1>1, <1>2, <1>4, <1>5, SettleFacts
<1>7. process' = "up" => run'.at = "told"
  <2>1. ASSUME NEW forced \in Known, Enqueued(Explicit(forced), Handled)
        PROVE  run' = Handled
    <3>1. Job(Explicit(forced)) /\ Explicit(forced).kind = "Explicit"
      BY JobsAre
    <3> QED
      BY <1>1, <1>2, <1>5, <2>1, <3>1, EnqueuedFacts
  <2> QED
    BY <1>5, <1>6, <2>1
<1>8. lost' # "Added" => told' = LinesOf(index, display') \/ process' = "crashed"
  <2>1. SUFFICES ASSUME lost' # "Added", told' = news, UNCHANGED display
                 PROVE  news = LinesOf(index, display)
    BY <1>6
  <2>2. PICK first : first = FirstChanged(queue.running.kind)
    OBVIOUS
  <2>3. LineCount(index) \in Nat /\ Whole(index) \in Nat /\ Whole(index) <= LineCount(index)
    BY <1>1, CountFacts, Bounds
  <2>4. /\ first \in Nat
        /\ Lesser(first, Len(told)) <= LineCount(index)
        /\ \A line \in 1..Lesser(first, Len(told)) : told[line] = LinesOf(index, display)[line]
    <3>1. CASE queue.running.kind = "Partial"
      <4>1. index.recorded
        BY <1>1, <1>2, <2>1, <3>1, JobKinds, JobsAre
      <4>2. first \in Nat /\ first <= Whole(index)
        BY <1>1, <1>2, <2>2, <3>1, <4>1, FirstChangedFacts DEF FollowInv
      <4>3. \A line \in 1..Lesser(first, Len(told)) : told[line] = LinesOf(index, display)[line]
        BY <1>2, <2>2, <3>1, <4>1 DEF FollowInv
      <4>4. Lesser(first, Len(told)) <= first
        BY <1>1, <4>2 DEF Lesser
      <4> QED
        BY <2>3, <4>2, <4>3, <4>4, <1>1 DEF Lesser
    <3>2. CASE queue.running.kind # "Partial"
      <4>1. first = 0
        BY <2>2, <3>2 DEF FirstChanged
      <4>2. Lesser(first, Len(told)) = 0
        BY <1>1, <4>1 DEF Lesser
      <4> QED
        BY <2>3, <4>1, <4>2
    <3> QED
      BY <3>1, <3>2
  <2>5. ToldFrom(first, index, display) = LinesOf(index, display)
    BY <1>1, <2>4, ToldFacts
  <2> QED
    BY <1>3, <2>2, <2>5
<1>9. lost' = "Added" => ~index.recorded
  BY <1>1, <1>2, JobKinds DEF RunInv, Loaded
<1> QED
  BY <1>2, <1>7, <1>8, <1>9 DEF FollowInv, Steady

LEMMA FollowNext ==
    ASSUME TypeInv, RunInv, FollowInv, [Next]_vars, TypeInv'
    PROVE  FollowInv'
<1>1. /\ JobsTyped /\ run \in Runs /\ linesBefore \in 0..MaxSize /\ display \in Encodings
      /\ ModificationTime \in Nat /\ ModificationTime <= MaxChanges + 1
      /\ Sized(index, ModificationTime) /\ told \in Seq(ReadLines) /\ Len(told) <= MaxSize
  BY TimeFacts DEF TypeInv, JobsTyped, ToldTyped, IndexTyped
<1>2. CASE UNCHANGED <<index, queue, run, linesBefore, display, process, told, lost>>
  BY <1>2 DEF FollowInv, Steady, FirstChanged
<1>3. CASE Shutdown
  BY <1>3 DEF Shutdown, FollowInv
<1>4. CASE FinishJobAndStartNext
  <2>1. /\ queue' = [running |-> queue.waiting, waiting |-> NoJob] /\ run.at = "told" /\ process = "up"
        /\ run' = (IF queue'.running = NoJob THEN NoRun ELSE Queued)
        /\ UNCHANGED <<index, linesBefore, display, told, lost>>
    BY <1>4 DEF FinishJobAndStartNext, StartWaiting, encodingVars
  <2>2. queue'.running = queue.waiting /\ run'.at \in {"off", "queued"} /\ Steady
    BY <2>1, RunsAre DEF Steady
  <2>3. (lost # "Added" => told = LinesOf(index, display)) /\ (lost = "Added" => ~index.recorded)
    BY <2>1, <2>2 DEF FollowInv
  <2>4. queue'.running.kind = "Partial" =>
           /\ FirstChanged("Partial") <= Whole(index)
           /\ told = LinesOf(index, display)
    <3>1. SUFFICES ASSUME queue'.running.kind = "Partial"
                   PROVE  FirstChanged("Partial") <= Whole(index) /\ told = LinesOf(index, display)
      OBVIOUS
    <3>2. index.recorded /\ linesBefore = LineCount(index)
      BY <2>2, <3>1 DEF RunInv
    <3>3. LineCount(index) \in Nat /\ Whole(index) \in Nat /\ LineCount(index) <= Whole(index) + 1
      BY <1>1, CountFacts, Bounds
    <3> QED
      BY <1>1, <2>3, <3>2, <3>3, FirstChangedFacts
  <2>5. FirstChanged("Partial")' = FirstChanged("Partial")
    BY <2>1 DEF FirstChanged
  <2> QED
    BY <2>1, <2>2, <2>3, <2>4, <2>5 DEF FollowInv
<1>5. CASE Reload
  <2>1. /\ told' = ToldAll(index, display) /\ Enqueued(Explicit(NoEncoding), Interrupted(run))
        /\ UNCHANGED <<index, linesBefore, display, lost>> /\ process = "up" /\ run.at # "told"
    BY <1>5 DEF Reload, ReadAgain, InEventLoop, encodingVars
  <2>2. told' = LinesOf(index, display')
    BY <1>1, <2>1, ToldAllFacts
  <2>3. Job(Explicit(NoEncoding)) /\ Explicit(NoEncoding).kind = "Explicit"
    BY JobsAre DEF Known
  <2>4. Interrupted(run) \in Runs /\ Interrupted(run).at = run.at
    BY <1>1, InterruptedFacts
  <2> QED
    BY <1>1, <2>1, <2>2, <2>3, <2>4, FollowEnqueued
<1>6. CASE FileChangedOnDisk
  <2>1. /\ Enqueued(Check, run) /\ UNCHANGED <<index, linesBefore, display, told, lost>>
        /\ process = "up" /\ run.at # "told" /\ Job(Check) /\ Check.kind = "Check"
    BY <1>6, JobsAre DEF FileChangedOnDisk, InEventLoop, encodingVars
  <2> QED
    BY <1>1, <2>1, FollowEnqueued
<1>7. CASE StopLoading
  <2>1. /\ run' = Interrupted(run) /\ UNCHANGED <<index, queue, linesBefore, display, told, lost>>
        /\ process = "up" /\ run.at # "told"
    BY <1>7 DEF StopLoading, InEventLoop, encodingVars
  <2>2. Interrupted(run) \in Runs /\ Interrupted(run).at = run.at
    BY <1>1, InterruptedFacts
  <2> QED
    BY <1>1, <2>1, <2>2, FollowEnqueued
<1>8. CASE SetEncoding
  <2>1. PICK choice \in Known : SettleEncoding(choice, run, told)
    BY <1>8 DEF SetEncoding
  <2>2. /\ process = "up" /\ run.at # "told" /\ UNCHANGED <<index, linesBefore, lost>>
    BY <1>8 DEF SetEncoding, InEventLoop
  <2> QED
    BY <2>1, <2>2, FollowSettle
<1>9. CASE CheckFileChangesFinished
  <2>1. /\ run.at = "ended" /\ run.outcome \in Checked /\ UNCHANGED <<index, display>> /\ process = "up"
        /\ lost' = "Nothing"
    BY <1>9 DEF CheckFileChangesFinished, encodingVars
  <2>2. queue.running.kind = "Check"
    BY <2>1 DEF RunInv
  <2>7. run.outcome \in {"Unchanged", "DataAdded"} => lost # "Added"
    BY <2>1, <2>2, KindsApart DEF RunInv, FollowInv, Steady
  <2>3. Handled \in Runs /\ Handled.at = "told"
    BY <1>1, HandledFacts
  <2>4. CASE run' = Handled /\ UNCHANGED <<queue, told>> /\ run.outcome = "Unchanged"
    BY <1>1, <2>1, <2>2, <2>3, <2>4, <2>7, FollowEnqueued
  <2>5. CASE Enqueued(Partial, Handled) /\ UNCHANGED told /\ run.outcome = "DataAdded"
    <3>1. Job(Partial) /\ Partial.kind = "Partial"
      BY JobsAre
    <3> QED
      BY <1>1, <2>1, <2>2, <2>3, <2>5, <2>7, <3>1, FollowEnqueued
  <2>6. CASE Enqueued(Automatic, Handled) /\ told' = ToldAll(index, display)
    <3>1. Job(Automatic) /\ Automatic.kind = "Automatic"
      BY JobsAre
    <3>2. told' = LinesOf(index, display')
      BY <1>1, <2>1, <2>6, ToldAllFacts
    <3> QED
      BY <1>1, <2>1, <2>2, <2>3, <2>6, <3>1, <3>2, FollowEnqueued
  <2> QED
    BY <1>9, <2>4, <2>5, <2>6 DEF CheckFileChangesFinished
<1>10. Change \/ UNCHANGED vars => UNCHANGED <<index, queue, run, linesBefore, display, process, told, lost>>
  BY DEF Change, vars, encodingVars
<1> QED
  BY <1>2, <1>3, <1>4, <1>5, <1>6, <1>7, <1>8, <1>9, <1>10, FollowWorker, FollowFinished
     DEF Next, Delivery

\* While no run changes the Index, readers were told of every Log Line as it
\* is, split and decoded as it is now, whatever jobs met, whatever was
\* superseded and however the Log File changed, except after a Partial that was
\* cut short (LogData::logLinesChanged(), LogData::indexingFinished()).
THEOREM ReadersFollowed == Spec => []ReadersFollow
<1>1. Init => TypeInv /\ RunInv /\ FollowInv
  <2>1. Init => queue.running.kind = "Attach" /\ run.at = "queued"
    BY RunsAre DEF Init, Attach
  <2>2. Init => FollowInv
    BY <2>1, KindsApart DEF FollowInv, Steady
  <2> QED
    BY <2>2, TypeInit, RunInit
<1>2. TypeInv /\ RunInv /\ FollowInv /\ [Next]_vars => (TypeInv /\ RunInv /\ FollowInv)'
  BY TypeNext, RunNext, FollowNext
<1>3. TypeInv /\ RunInv /\ FollowInv => ReadersFollow
  BY DEF FollowInv, Steady, ReadersFollow
<1> QED
  BY <1>1, <1>2, <1>3, PTL DEF Spec

-----------------------------------------------------------------------------
(* What is indexed of a Log File that changes: as every change writes bytes  *)
(* of its own, bytes that are where they were have those before them.        *)

\* Bytes read of the Log File before are in it up to where it was cut.
HistoryOf(x, log) ==
    \A half \in 1..Len(x) : half <= Len(log) /\ log[half] = x[half] =>
        \A before \in 1..half : log[before] = x[before]

\* Bytes read of the Log File before were not written after those in it.
ReadBefore(x, y) == \A half \in 1..Len(x) : half <= Len(y) => x[half] <= y[half]

\* The Index is of one Log File, with the digests that were taken of it.
Coherent(ix, log) ==
    /\ HistoryOf(ix.bytes, log)
    /\ Len(ix.full) = Len(ix.bytes) => ix.full = ix.bytes
    /\ Len(ix.built) = Len(ix.bytes) => ix.built = ix.bytes
    /\ ix.fed # <<>> => ix.fed[Len(ix.fed)] = ix.bytes[Len(ix.bytes)]

\* The tail recorded is of all the last bytes.
TailKept(ix) ==
    ix.recorded /\ ix.bytes # <<>> =>
        /\ ix.tail # <<>> /\ TailOffset(Len(ix.bytes)) + Len(ix.tail) = Len(ix.bytes)
        /\ ix.tail[Len(ix.tail)] = ix.bytes[Len(ix.bytes)]

\* The digests were read one after the other, whatever the Log File became
\* between.
HeaderOf(ix, log) ==
    /\ Len(ix.full) = Len(ix.bytes) => ReadBefore(ix.full, log) /\ ReadBefore(ix.full, ix.header)
    /\ Len(ix.built) = Len(ix.bytes) => ix.full = ix.built
    /\ ReadBefore(ix.header, log)
    /\ Len(ix.fed) = Len(ix.bytes) =>
          ReadBefore(ix.fed, log) /\ (Len(ix.full) = Len(ix.bytes) => ReadBefore(ix.full, ix.fed))

\* The header is of the bytes fed to the digests while those are all there are.
HeaderFed(ix) ==
    ix.recorded /\ Len(ix.fed) = Len(ix.bytes) /\ Len(ix.header) # DigestBlock => ix.header = ix.fed

\* The header, and what it will be taken of, are of the Log File.
HeaderFits(ix, log) ==
    /\ Prefix(ix.header, log)
    /\ Len(ix.fed) = Len(ix.bytes) /\ Len(ix.header) # DigestBlock => Prefix(ix.fed, log)

\* A change of the Log File: it is as it was up to where it was cut.
ChangedAt(log, changed, keep, t) ==
    /\ keep \in 0..Len(log) /\ keep <= Len(changed)
    /\ \A half \in 1..keep : changed[half] = log[half]
    /\ \A half \in (keep + 1)..Len(changed) : changed[half] = t + 1

LEMMA HistoryLater ==
    ASSUME NEW t \in Nat, NEW x \in Written(t), NEW log \in Written(t), NEW changed \in Written(t + 1),
           NEW keep, ChangedAt(log, changed, keep, t), HistoryOf(x, log)
    PROVE  HistoryOf(x, changed)
<1>1. /\ Len(x) \in Nat /\ Len(log) \in Nat /\ Len(changed) \in Nat /\ keep \in Nat
      /\ \A half \in 1..Len(x) : x[half] \in 1..t
  <2>1. /\ Len(x) \in 0..MaxSize /\ Len(log) \in 0..MaxSize /\ Len(changed) \in 0..MaxSize
        /\ \A half \in 1..Len(x) : x[half] \in 1..t
    BY WrittenFacts
  <2> QED
    BY <2>1, Bounds DEF ChangedAt
<1>2. SUFFICES ASSUME NEW half \in 1..Len(x), half <= Len(changed), changed[half] = x[half],
                      NEW before \in 1..half
               PROVE  changed[before] = x[before]
  BY DEF HistoryOf
<1>3. half \in Nat /\ before \in Nat /\ 1 <= before /\ before <= half /\ 1 <= half /\ half <= Len(x)
  BY <1>1
<1>4. half <= keep
  BY <1>1, <1>2, <1>3 DEF ChangedAt
<1>5. half <= Len(log) /\ log[half] = x[half] /\ changed[before] = log[before]
  BY <1>1, <1>2, <1>3, <1>4 DEF ChangedAt
<1> QED
  BY <1>2, <1>5 DEF HistoryOf

LEMMA ReadBeforeLater ==
    ASSUME NEW t \in Nat, NEW x \in Written(t), NEW log \in Written(t), NEW changed \in Written(t + 1),
           NEW keep, ChangedAt(log, changed, keep, t), ReadBefore(x, log)
    PROVE  ReadBefore(x, changed)
<1>1. /\ Len(x) \in Nat /\ Len(log) \in Nat /\ Len(changed) \in Nat /\ keep \in Nat
      /\ \A half \in 1..Len(x) : x[half] \in 1..t
  <2>1. /\ Len(x) \in 0..MaxSize /\ Len(log) \in 0..MaxSize /\ Len(changed) \in 0..MaxSize
        /\ \A half \in 1..Len(x) : x[half] \in 1..t
    BY WrittenFacts
  <2> QED
    BY <2>1, Bounds DEF ChangedAt
<1> QED
  BY <1>1 DEF ReadBefore, ChangedAt

LEMMA PrefixLater ==
    ASSUME NEW t \in Nat, NEW x \in Written(t), NEW log \in Written(t), NEW changed \in Written(t + 1),
           ChangedAt(log, changed, Len(log), t), Prefix(x, log)
    PROVE  Prefix(x, changed)
<1>1. Len(x) \in 0..MaxSize /\ Len(log) \in 0..MaxSize /\ Len(changed) \in 0..MaxSize
  BY WrittenFacts
<1> QED
  BY <1>1, Bounds DEF Prefix, ChangedAt

\* What is as long as the Log File was, or shorter, and ends alike is of it.
LEMMA LastMatches ==
    ASSUME NEW t \in Nat, NEW x \in Written(t), NEW log \in Written(t), HistoryOf(x, log),
           Len(x) <= Len(log), x # <<>> => log[Len(x)] = x[Len(x)]
    PROVE  Prefix(x, log)
<1>1. Len(x) \in Nat /\ Len(log) \in Nat /\ ((x = <<>>) <=> (Len(x) = 0))
  <2>1. Len(x) \in 0..MaxSize /\ Len(log) \in 0..MaxSize /\ ((x = <<>>) <=> (Len(x) = 0))
    BY WrittenFacts
  <2> QED
    BY <2>1, Bounds
<1>2. CASE x = <<>>
  BY <1>1, <1>2 DEF Prefix
<1>3. CASE x # <<>>
  <2>1. Len(x) \in 1..Len(x) /\ log[Len(x)] = x[Len(x)]
    BY <1>1, <1>3
  <2> QED
    BY <2>1 DEF HistoryOf, Prefix
<1> QED
  BY <1>2, <1>3

\* recordedBytesMatch() of the tail: the last byte indexed is where it was.
LEMMA TailMatches ==
    ASSUME NEW t \in Nat, NEW ix, Sized(ix, t), NEW log \in Written(t), TailKept(ix), ix.recorded,
           Len(ix.bytes) <= Len(log), HeaderAndTailMatch(ix, log), ix.bytes # <<>>
    PROVE  log[Len(ix.bytes)] = ix.bytes[Len(ix.bytes)]
<1>1. /\ Len(ix.bytes) \in Nat /\ Len(ix.tail) \in Nat /\ ((ix.tail = <<>>) <=> (Len(ix.tail) = 0))
      /\ Len(log) \in Nat
  <2>1. /\ Len(ix.bytes) \in 0..MaxSize /\ Len(ix.tail) \in 0..MaxSize /\ ix.tail \in Written(t)
        /\ Len(log) \in 0..MaxSize
    BY SizedFields, WrittenFacts
  <2> QED
    BY <2>1, Bounds, WrittenFacts
<1>2. PICK offset : offset = TailOffset(Len(ix.bytes))
  OBVIOUS
<1>3. offset \in Nat
  BY <1>1, <1>2, TailFacts
<1>4. /\ ix.tail # <<>> /\ offset + Len(ix.tail) = Len(ix.bytes)
      /\ ix.tail[Len(ix.tail)] = ix.bytes[Len(ix.bytes)]
  BY <1>2 DEF TailKept
<1>5. SubSeq(log, offset + 1, offset + Len(ix.tail)) = ix.tail
  BY <1>2 DEF HeaderAndTailMatch
<1>6. PICK first : first = offset + 1
  OBVIOUS
<1>7. PICK last : last = offset + Len(ix.tail)
  OBVIOUS
<1>8. first \in Nat \ {0} /\ last \in Nat /\ last <= Len(log) /\ Len(ix.tail) \in 1..(last - first + 1)
  BY <1>1, <1>3, <1>4, <1>6, <1>7
<1>9. \A half \in 1..(last - first + 1) : SubSeq(log, first, last)[half] = log[first + half - 1]
  BY ONLY t \in Nat, log \in Written(t), <1>8, PartFacts
<1>10. ix.tail[Len(ix.tail)] = log[first + Len(ix.tail) - 1]
  BY <1>5, <1>6, <1>7, <1>8, <1>9
<1>11. first + Len(ix.tail) - 1 = Len(ix.bytes)
  <2>1. PICK size \in Nat : size = Len(ix.tail)
    BY <1>1
  <2>2. PICK end \in Nat : end = Len(ix.bytes)
    BY <1>1
  <2>3. first \in Nat /\ offset + size = end
    BY <1>4, <1>8, <2>1, <2>2
  <2>4. first + size - 1 = end
    BY ONLY <1>3, <1>6, <2>3
  <2> QED
    BY <2>1, <2>2, <2>4
<1> QED
  BY <1>4, <1>10, <1>11

LEMMA FitLength ==
    ASSUME NEW t \in Nat, NEW ix, Sized(ix, t), NEW log \in Written(t), NEW everyByte \in BOOLEAN,
           IndexFit(ix, log, everyByte) # "Truncated"
    PROVE  /\ ix.recorded /\ Len(ix.bytes) <= Len(log)
           /\ IndexFit(ix, log, everyByte) \in {"Unchanged", "DataAdded"}
           /\ IndexFit(ix, log, everyByte) = "Unchanged" =>
                 /\ Len(log) = Len(ix.bytes)
                 /\ everyByte => log = ix.full
                 /\ ~everyByte => HeaderAndTailMatch(ix, log)
           /\ IndexFit(ix, log, everyByte) = "DataAdded" => HeaderAndTailMatch(ix, log)
<1>1. Len(ix.bytes) \in Nat /\ Len(log) \in Nat
  <2>1. Len(ix.bytes) \in 0..MaxSize /\ Len(log) \in 0..MaxSize
    BY SizedFields, WrittenFacts
  <2> QED
    BY <2>1, Bounds
<1> QED
  BY <1>1 DEF IndexFit

\* A Log File the Index fits, as it is or with data added, begins with what was
\* indexed.
LEMMA FitBytes ==
    ASSUME NEW t \in Nat, NEW ix, Sized(ix, t), NEW log \in Written(t), NEW everyByte \in BOOLEAN,
           Coherent(ix, log), TailKept(ix), IndexFit(ix, log, everyByte) # "Truncated"
    PROVE  /\ Prefix(ix.bytes, log)
           /\ IndexFit(ix, log, everyByte) = "Unchanged" => ix.bytes = log
<1>1. ix.bytes \in Written(t)
  BY SizedFields
<1>2. /\ ix.recorded /\ Len(ix.bytes) <= Len(log)
      /\ IndexFit(ix, log, everyByte) \in {"Unchanged", "DataAdded"}
      /\ IndexFit(ix, log, everyByte) = "Unchanged" =>
            /\ Len(log) = Len(ix.bytes)
            /\ everyByte => log = ix.full
            /\ ~everyByte => HeaderAndTailMatch(ix, log)
      /\ IndexFit(ix, log, everyByte) = "DataAdded" => HeaderAndTailMatch(ix, log)
  BY FitLength
<1>3. Prefix(ix.bytes, log)
  <2>1. CASE log = ix.full /\ Len(log) = Len(ix.bytes)
    <3>1. log = ix.bytes
      BY <2>1 DEF Coherent
    <3> QED
      BY <1>1, <1>2, <3>1 DEF Prefix
  <2>2. CASE HeaderAndTailMatch(ix, log)
    <3>1. ix.bytes # <<>> => log[Len(ix.bytes)] = ix.bytes[Len(ix.bytes)]
      BY <1>2, <2>2, TailMatches
    <3> QED
      BY <1>1, <1>2, <3>1, LastMatches DEF Coherent
  <2> QED
    BY <1>2, <2>1, <2>2
<1>4. Len(ix.bytes) \in Nat /\ Len(log) \in Nat
  <2>1. Len(ix.bytes) \in 0..MaxSize /\ Len(log) \in 0..MaxSize
    BY SizedFields, WrittenFacts
  <2> QED
    BY <2>1, Bounds
<1>5. Len(log) = Len(ix.bytes) => ix.bytes = log
  BY <1>1, <1>3, <1>4, PrefixWhole
<1> QED
  BY <1>2, <1>3, <1>5

\* It begins with the header recorded too.
LEMMA FitHeader ==
    ASSUME NEW t \in Nat, NEW ix, Sized(ix, t), NEW log \in Written(t), NEW everyByte \in BOOLEAN,
           HeaderOf(ix, log), IndexFit(ix, log, everyByte) # "Truncated"
    PROVE  Prefix(ix.header, log)
<1>1. /\ ix.header \in Written(t) /\ Len(ix.header) \in Nat /\ Len(ix.bytes) \in Nat /\ Len(log) \in Nat
      /\ Len(ix.header) <= Len(ix.bytes)
      /\ \A half \in 1..Len(ix.header) : ix.header[half] \in Nat
      /\ \A half \in 1..Len(log) : log[half] \in Nat
  <2>1. /\ Len(ix.bytes) \in 0..MaxSize /\ Len(ix.header) \in 0..MaxSize /\ ix.header \in Written(t)
        /\ Len(log) \in 0..MaxSize /\ Len(ix.header) <= Len(ix.bytes)
    BY SizedFields, WrittenFacts
  <2>2. /\ \A half \in 1..Len(ix.header) : ix.header[half] \in 1..t
        /\ \A half \in 1..Len(log) : log[half] \in 1..t
    BY <2>1, WrittenFacts
  <2> QED
    BY <2>1, <2>2, Bounds
<1>2. /\ Len(ix.bytes) <= Len(log)
      /\ (log = ix.full /\ Len(log) = Len(ix.bytes)) \/ HeaderAndTailMatch(ix, log)
  BY FitLength
<1>3. CASE log = ix.full /\ Len(log) = Len(ix.bytes)
  <2>1. ReadBefore(ix.full, ix.header) /\ ReadBefore(ix.header, log)
    BY <1>3 DEF HeaderOf
  <2>2. ASSUME NEW half \in 1..Len(ix.header)
        PROVE  ix.header[half] = log[half]
    <3>1. half \in 1..Len(log) /\ half <= Len(ix.header) /\ half <= Len(log)
      BY <1>1, <1>3
    <3>2. log[half] <= ix.header[half] /\ ix.header[half] <= log[half]
      BY <1>3, <2>1, <3>1 DEF ReadBefore
    <3> QED
      BY <1>1, <3>1, <3>2
  <2> QED
    BY <1>1, <1>2, <2>2 DEF Prefix
<1>4. CASE HeaderAndTailMatch(ix, log)
  <2>1. SubSeq(log, 1, Len(ix.header)) = ix.header
    BY <1>4 DEF HeaderAndTailMatch
  <2>2. Len(ix.header) <= Len(log)
    BY <1>1, <1>2
  <2> QED
    BY <1>1, <2>1, <2>2, FirstBytes
<1> QED
  BY <1>2, <1>3, <1>4

LEMMA WrittenLength ==
    ASSUME NEW t \in Nat, NEW x \in Written(t)
    PROVE  Len(x) \in Nat /\ Len(x) <= MaxSize /\ ((x = <<>>) <=> (Len(x) = 0))
<1>1. Len(x) \in 0..MaxSize /\ ((x = <<>>) <=> (Len(x) = 0))
  BY WrittenFacts
<1> QED
  BY <1>1, Bounds

LEMMA PrefixHistory ==
    ASSUME NEW t \in Nat, NEW x \in Written(t), NEW log \in Written(t), Prefix(x, log)
    PROVE  HistoryOf(x, log)
<1>1. Len(x) \in Nat /\ Len(log) \in Nat
  BY WrittenLength
<1> QED
  BY <1>1 DEF Prefix, HistoryOf

LEMMA ClearedCoherent ==
    ASSUME NEW log, NEW ix, ix = Cleared \/ (\E encoding : ix = [Cleared EXCEPT !.forced = encoding])
                            \/ ix = Dropped(Cleared)
    PROVE  /\ Coherent(ix, log) /\ TailKept(ix) /\ HeaderOf(ix, log) /\ HeaderFed(ix)
           /\ ix.bytes = <<>> /\ ix.header = <<>> /\ ix.fed = <<>> /\ ~ix.recorded
<1>1. /\ ix.bytes = <<>> /\ ix.full = <<>> /\ ix.built = <<>> /\ ix.fed = <<>> /\ ix.header = <<>>
      /\ ~ix.recorded
  BY DEF Cleared, Dropped
<1>2. Len(<<>>) = 0 /\ 1..0 = {}
  BY EmptySeq
<1>3. HistoryOf(<<>>, log) /\ ReadBefore(<<>>, log) /\ ReadBefore(<<>>, <<>>)
  BY <1>2 DEF HistoryOf, ReadBefore
<1> QED
  BY <1>1, <1>3 DEF Coherent, TailKept, HeaderOf, HeaderFed

\* addAll() of what was read: the Index stays of one Log File.
LEMMA BlockCoherent ==
    ASSUME NEW t \in Nat, NEW ix, Sized(ix, t), NEW log \in Written(t), Coherent(ix, log),
           Prefix(ix.bytes, log), NEW block \in Written(t), Len(block) > 0,
           Len(ix.bytes) + Len(block) <= Len(log),
           \A half \in 1..Len(block) : block[half] = log[Len(ix.bytes) + half]
    PROVE  Coherent(AddBlock(ix, block), log) /\ Prefix(AddBlock(ix, block).bytes, log)
<1>1. /\ ix.bytes \in Written(t) /\ ix.built \in Written(t) /\ ix.fed \in Written(t)
      /\ Len(ix.built) <= Len(ix.bytes) /\ Len(ix.fed) <= Len(ix.bytes)
  BY SizedFields
<1>2. /\ Len(ix.bytes) \in Nat /\ Len(ix.built) \in Nat /\ Len(ix.fed) \in Nat /\ Len(block) \in Nat
      /\ Len(log) \in Nat /\ Len(log) <= MaxSize
  BY <1>1, WrittenLength
<1>3. Len(ix.bytes) + Len(block) <= MaxSize
  BY <1>2, Bounds
<1>4. PICK n : n = AddBlock(ix, block)
  OBVIOUS
<1>5. /\ n.bytes = ix.bytes \o block
      /\ n.built = ix.built \o block
      /\ n.full = n.built
      /\ n.fed = ix.fed \o block
  <2>1. t \in Nat /\ Sized(ix, t) /\ block \in Written(t) /\ Len(ix.bytes) + Len(block) <= MaxSize
    BY <1>3
  <2> QED
    BY ONLY <1>4, <2>1, AddBlockFacts, SMTT(60)
<1>6. /\ n.bytes \in Written(t) /\ Len(n.bytes) = Len(ix.bytes) + Len(block)
      /\ \A half \in 1..(Len(ix.bytes) + Len(block)) :
            n.bytes[half] = IF half <= Len(ix.bytes) THEN ix.bytes[half] ELSE block[half - Len(ix.bytes)]
  <2>1. n.bytes = ix.bytes \o block
    BY <1>5
  <2>2. /\ ix.bytes \o block \in Written(t) /\ Len(ix.bytes \o block) = Len(ix.bytes) + Len(block)
        /\ \A half \in 1..(Len(ix.bytes) + Len(block)) :
              (ix.bytes \o block)[half]
                  = IF half <= Len(ix.bytes) THEN ix.bytes[half] ELSE block[half - Len(ix.bytes)]
    BY ONLY t \in Nat, block \in Written(t), <1>1, <1>3, JoinedFacts
  <2> QED
    BY ONLY <2>1, <2>2, Zenon
<1>7. /\ n.fed \in Written(t) /\ Len(n.fed) = Len(ix.fed) + Len(block)
      /\ \A half \in 1..(Len(ix.fed) + Len(block)) :
            n.fed[half] = IF half <= Len(ix.fed) THEN ix.fed[half] ELSE block[half - Len(ix.fed)]
  <2>1. Len(ix.fed) + Len(block) <= MaxSize
    BY <1>1, <1>2, <1>3, Bounds
  <2> QED
    BY <1>1, <2>1, <1>5, JoinedFacts
<1>8. Len(n.built) = Len(ix.built) + Len(block)
  <2>1. Len(ix.built) + Len(block) <= MaxSize
    BY <1>1, <1>2, <1>3, Bounds
  <2> QED
    BY <1>1, <2>1, <1>5, JoinedFacts
<1>9. Prefix(n.bytes, log)
  <2>1. ASSUME NEW half \in 1..(Len(ix.bytes) + Len(block))
        PROVE  n.bytes[half] = log[half]
    <3>1. CASE half <= Len(ix.bytes)
      BY <1>2, <1>6, <3>1 DEF Prefix
    <3>2. CASE ~(half <= Len(ix.bytes))
      <4>1. PICK i \in 1..Len(block) : i = half - Len(ix.bytes) /\ Len(ix.bytes) + i = half
        <5>1. PICK b \in Nat : b = Len(ix.bytes)
          BY <1>2
        <5>2. PICK l \in Nat : l = Len(block)
          BY <1>2
        <5>3. half \in 1..(b + l) /\ ~(half <= b)
          BY <3>2, <5>1, <5>2
        <5>4. half - b \in 1..l /\ b + (half - b) = half
          BY ONLY <5>3, b \in Nat, l \in Nat
        <5> QED
          BY <5>1, <5>2, <5>4
      <4>2. Len(ix.bytes) + i = half
        BY <4>1
      <4> QED
        BY <1>6, <3>2, <4>1, <4>2
    <3> QED
      BY <3>1, <3>2
  <2> QED
    BY <1>6, <2>1 DEF Prefix
<1>10. HistoryOf(n.bytes, log)
  BY <1>6, <1>9, PrefixHistory
<1>11. Len(n.built) = Len(n.bytes) => n.built = n.bytes
  <2>1. SUFFICES ASSUME Len(n.built) = Len(n.bytes)
                 PROVE  n.built = n.bytes
    OBVIOUS
  <2>2. Len(ix.built) = Len(ix.bytes)
    BY <1>2, <1>6, <1>8, <2>1
  <2>3. ix.built = ix.bytes
    BY <2>2 DEF Coherent
  <2> QED
    BY <1>5, <2>3
<1>12. n.fed[Len(n.fed)] = n.bytes[Len(n.bytes)]
  <2>1. PICK length : length = Len(block)
    OBVIOUS
  <2>2. length \in 1..length /\ length \in Nat /\ length > 0
    BY <1>2, <2>1
  <2>3. PICK fed \in Nat : fed = Len(ix.fed)
    BY <1>2
  <2>4. PICK bytes \in Nat : bytes = Len(ix.bytes)
    BY <1>2
  <2>5. n.fed[fed + length] = block[length]
    <3>1. fed + length \in 1..(fed + length) /\ ~(fed + length <= fed) /\ (fed + length) - fed = length
      BY ONLY <2>2, fed \in Nat
    <3> QED
      BY <1>7, <2>1, <2>3, <3>1
  <2>6. n.bytes[bytes + length] = block[length]
    <3>1. /\ bytes + length \in 1..(bytes + length)
          /\ ~(bytes + length <= bytes)
          /\ (bytes + length) - bytes = length
      BY ONLY <2>2, bytes \in Nat
    <3> QED
      BY <1>6, <2>1, <2>4, <3>1
  <2> QED
    BY <1>6, <1>7, <2>1, <2>3, <2>4, <2>5, <2>6
<1> QED
  BY <1>4, <1>5, <1>9, <1>10, <1>11, <1>12 DEF Coherent

\* recordHeaderAndTail() of a Log File that begins with what was indexed: the
\* tail is of the last bytes.
LEMMA CompletedCoherent ==
    ASSUME NEW t \in Nat, NEW ix, Sized(ix, t), NEW log \in Written(t), Coherent(ix, log),
           Prefix(ix.bytes, log), NEW from \in Nat, NEW size \in 0..MaxSize, NEW modified \in Nat
    PROVE  /\ Coherent(Completed(ix, from, size, log, modified), log)
           /\ TailKept(Completed(ix, from, size, log, modified))
<1>1. PICK n : n = Completed(ix, from, size, log, modified)
  OBVIOUS
<1>2. PICK r : r = RecordHeaderAndTail(ix, from, size, log)
  OBVIOUS
<1>3. PICK end : end = Len(ix.bytes)
  OBVIOUS
<1>4. PICK offset : offset = TailOffset(end)
  OBVIOUS
<1>5. /\ ix.bytes \in Written(t) /\ ix.fed \in Written(t) /\ Len(ix.fed) <= end
      /\ end \in Nat /\ Len(ix.fed) \in Nat /\ Len(log) \in Nat /\ size \in Nat
      /\ ((ix.bytes = <<>>) <=> (end = 0)) /\ ((ix.fed = <<>>) <=> (Len(ix.fed) = 0))
  BY <1>3, SizedFields, WrittenLength, Bounds
<1>6. offset \in 0..end /\ (end > 0 => offset < end)
  BY <1>4, <1>5, TailFacts
<1>7. /\ \/ r.fed = ix.fed
         \/ r.fed = <<>>
         \/ /\ Len(log) >= end /\ Len(r.fed) = end - offset
            /\ \A half \in 1..(end - offset) : r.fed[half] = log[offset + half]
      /\ \/ /\ end - offset <= Len(ix.fed) /\ Len(r.tail) = end - offset
            /\ \A half \in 1..(end - offset) :
                  r.tail[half] = ix.fed[Len(ix.fed) - (end - offset) + half]
         \/ /\ Len(log) >= end => Len(r.tail) = end - offset
            /\ \A half \in 1..Len(r.tail) : r.tail[half] = log[offset + half]
      /\ Sized(r, t)
  BY ONLY <1>2, <1>3, <1>4, <1>5, t \in Nat, Sized(ix, t), log \in Written(t), from \in Nat,
     RecordFacts, SMTT(60)
<1>8. /\ n.recorded /\ n.bytes = ix.bytes /\ n.built = ix.built /\ n.full = ix.full
      /\ n.tail = r.tail /\ n.fed = r.fed
  <2>1. t \in Nat /\ Sized(ix, t) /\ log \in Written(t) /\ from \in Nat /\ size \in 0..MaxSize
        /\ modified \in Nat
    OBVIOUS
  <2> QED
    BY ONLY <1>1, <1>2, <2>1, CompletedFacts, SMTT(60)
<1>9. Len(log) >= end /\ (end > 0 => log[end] = ix.bytes[end])
  BY <1>3, <1>5 DEF Prefix
<1>10. end = 0 => r.fed = <<>>
  <2>1. Len(r.fed) <= Len(r.bytes) /\ r.fed \in Written(t)
    BY <1>7, SizedFields
  <2>2. Len(r.bytes) = end
    BY <1>2, <1>3, <1>5, RecordFacts
  <2>3. Len(r.fed) \in Nat /\ ((r.fed = <<>>) <=> (Len(r.fed) = 0))
    BY <2>1, WrittenLength
  <2> QED
    BY <2>1, <2>2, <2>3
<1>11. ASSUME end > 0, r.fed # <<>>
       PROVE  r.fed[Len(r.fed)] = ix.bytes[end]
  <2>1. CASE r.fed = ix.fed
    BY <1>3, <1>11, <2>1 DEF Coherent
  <2>2. CASE /\ Len(r.fed) = end - offset
             /\ \A half \in 1..(end - offset) : r.fed[half] = log[offset + half]
    <3>1. PICK length \in Nat : length = end - offset
      BY <1>5, <1>6
    <3>2. length \in 1..length /\ offset + length = end
      BY <1>5, <1>6, <1>11, <3>1
    <3>3. r.fed[length] = log[end]
      BY <2>2, <3>1, <3>2
    <3> QED
      BY <1>9, <1>11, <2>2, <3>1, <3>3
  <2> QED
    BY <1>7, <1>11, <2>1, <2>2
<1>12. ASSUME end > 0
       PROVE  r.tail # <<>> /\ offset + Len(r.tail) = end /\ r.tail[Len(r.tail)] = ix.bytes[end]
  <2>1. PICK length \in Nat : length = end - offset
    BY <1>5, <1>6
  <2>2. length \in 1..length /\ offset + length = end /\ length > 0
    BY <1>5, <1>6, <1>12, <2>1
  <2>3. Len(r.tail) = length
    BY <1>7, <1>9, <2>1
  <2>4. r.tail[length] = ix.bytes[end]
    <3>1. CASE /\ end - offset <= Len(ix.fed) /\ Len(r.tail) = end - offset
               /\ \A half \in 1..(end - offset) :
                     r.tail[half] = ix.fed[Len(ix.fed) - (end - offset) + half]
      <4>1. PICK fed \in Nat : fed = Len(ix.fed)
        BY <1>5
      <4>2. length <= fed /\ (fed - length) + length = fed
        BY <2>1, <2>2, <3>1, <4>1
      <4>3. r.tail[length] = ix.fed[fed]
        BY <2>1, <2>2, <3>1, <4>1, <4>2
      <4>4. ix.fed # <<>>
        BY <1>5, <2>2, <4>1, <4>2
      <4> QED
        BY <1>3, <4>1, <4>3, <4>4 DEF Coherent
    <3>2. CASE \A half \in 1..Len(r.tail) : r.tail[half] = log[offset + half]
      BY <1>9, <1>12, <2>2, <2>3, <3>2
    <3> QED
      BY <1>7, <3>1, <3>2
  <2>5. r.tail \in Written(t)
    BY <1>7, SizedFields
  <2>6. r.tail # <<>>
    BY <2>2, <2>3, <2>5, WrittenLength
  <2> QED
    BY <2>2, <2>3, <2>4, <2>6
<1>13. HistoryOf(n.bytes, log)
  BY <1>8 DEF Coherent
<1>14. Coherent(n, log)
  BY <1>3, <1>5, <1>8, <1>10, <1>11, <1>13 DEF Coherent
<1>15. TailKept(n)
  BY <1>3, <1>4, <1>5, <1>8, <1>12 DEF TailKept
<1> QED
  BY <1>1, <1>14, <1>15

\* trySave() and loadFromCache() keep the Index of one Log File.
LEMMA EntryCoherent ==
    ASSUME NEW t \in Nat, NEW ix, Sized(ix, t), NEW log, Coherent(ix, log), TailKept(ix)
    PROVE  Coherent(Entry(ix), log) /\ TailKept(Entry(ix))
<1>1. PICK n : n = Entry(ix)
  OBVIOUS
<1>2. /\ n.built = <<>> /\ n.fed = <<>> /\ n.bytes = ix.bytes /\ n.full = ix.full /\ n.tail = ix.tail
      /\ n.recorded = ix.recorded
  BY <1>1, EntryFacts
<1>3. Len(ix.bytes) \in Nat /\ ((ix.bytes = <<>>) <=> (Len(ix.bytes) = 0)) /\ Len(<<>>) = 0
  BY SizedFields, WrittenLength, EmptySeq
<1> QED
  BY <1>1, <1>2, <1>3 DEF Coherent, TailKept

LEMMA LoadedCoherent ==
    ASSUME NEW t \in Nat, NEW ix, Sized(ix, t), NEW log, Coherent(ix, log), TailKept(ix), NEW forced \in Known
    PROVE  Coherent(LoadedFromCache(ix, forced), log) /\ TailKept(LoadedFromCache(ix, forced))
<1>1. PICK n : n = LoadedFromCache(ix, forced)
  OBVIOUS
<1>2. /\ n.built = ix.built /\ n.fed = ix.fed /\ n.bytes = ix.bytes /\ n.full = ix.full /\ n.tail = ix.tail
      /\ n.recorded = ix.recorded
  BY <1>1, LoadedFacts
<1> QED
  BY <1>1, <1>2 DEF Coherent, TailKept

\* resumeFrom() of a Log File that begins with the bytes of the cached Index.
LEMMA ResumedCoherent ==
    ASSUME NEW t \in Nat, NEW ix, Sized(ix, t), NEW log \in Written(t), Prefix(ix.bytes, log),
           NEW forced \in Known
    PROVE  LET n == ResumedFromCache(ix, forced, log)
           IN  Coherent(n, log) /\ TailKept(n) /\ Prefix(n.bytes, log)
<1>1. PICK n : n = ResumedFromCache(ix, forced, log)
  OBVIOUS
<1>2. PICK offset : offset = ResumeOffset(ix)
  OBVIOUS
<1>3. offset \in Nat /\ offset <= Len(ix.bytes) /\ Len(ix.bytes) <= Len(log) /\ Len(ix.bytes) \in Nat
      /\ Len(log) \in Nat
  <2>1. offset \in 0..Len(ix.bytes) /\ ix.bytes \in Written(t)
    BY <1>2, ResumeFacts, SizedFields
  <2>2. Len(ix.bytes) \in Nat /\ Len(log) \in Nat
    BY <2>1, WrittenLength
  <2> QED
    BY <2>1, <2>2 DEF Prefix
<1>4. offset <= Len(log)
  BY <1>3
<1>5. /\ Sized(n, t) /\ Len(n.bytes) = offset /\ n.full = n.built /\ Len(n.full) = offset
      /\ n.fed = <<>> /\ ~n.recorded
      /\ \A half \in 1..offset : n.bytes[half] = ix.bytes[half] /\ n.full[half] = log[half]
  BY <1>1, <1>2, <1>4, ResumedFacts
<1>6. n.bytes \in Written(t) /\ n.full \in Written(t)
  BY <1>5, SizedFields
<1>7. \A half \in 1..offset : ix.bytes[half] = log[half]
  BY <1>3 DEF Prefix
<1>8. n.full = n.bytes
  BY <1>5, <1>6, <1>7, SameBytes
<1>9. Prefix(n.bytes, log)
  BY <1>4, <1>5, <1>7 DEF Prefix
<1>10. HistoryOf(n.bytes, log)
  BY <1>6, <1>9, PrefixHistory
<1> QED
  BY <1>1, <1>5, <1>8, <1>9, <1>10 DEF Coherent, TailKept

-----------------------------------------------------------------------------
(* That what is indexed is of the Log File, as long as it was not rewritten  *)
(* while a job ran.                                                          *)

LEMMA CachedFits ==
    ASSUME CachedFit # "Truncated"
    PROVE  Sound(cache) /\ \E everyByte \in BOOLEAN : CachedFit = IndexFit(cache, logFile, everyByte)
<1>1. Sound(cache) /\ CachedFit = IndexFit(cache, logFile, queue.running.kind = "Explicit")
  BY DEF CachedFit
<1>2. CASE queue.running.kind = "Explicit"
  <2>1. CachedFit = IndexFit(cache, logFile, TRUE)
    BY <1>1, <1>2 DEF IndexFit
  <2> QED
    BY <1>1, <2>1
<1>3. CASE queue.running.kind # "Explicit"
  <2>1. CachedFit = IndexFit(cache, logFile, FALSE)
    BY <1>1, <1>3 DEF IndexFit
  <2> QED
    BY <1>1, <2>1
<1> QED
  BY <1>2, <1>3

LEMMA CheckFits ==
    ASSUME TypeInv, RunCheck
    PROVE  \E everyByte \in BOOLEAN : run'.outcome = IndexFit(index, logFile, everyByte)
<1>1. run'.outcome = IndexFit(index, logFile, index.modified # ModificationTime)
  BY CheckFacts
<1>2. CASE index.modified # ModificationTime
  <2>1. run'.outcome = IndexFit(index, logFile, TRUE)
    BY <1>1, <1>2 DEF IndexFit
  <2> QED
    BY <2>1
<1>3. CASE ~(index.modified # ModificationTime)
  <2>1. run'.outcome = IndexFit(index, logFile, FALSE)
    BY <1>1, <1>3 DEF IndexFit
  <2> QED
    BY <2>1
<1> QED
  BY <1>2, <1>3

\* A Check found data added, up to the Partial it asks for.
Grown ==
    \/ run.at = "ended" /\ run.outcome = "DataAdded"
    \/ queue.waiting.kind = "Partial"
    \/ run.at = "queued" /\ queue.running.kind = "Partial"

BytesInv ==
    process = "up" /\ ~rewritten =>
        /\ Coherent(index, logFile) /\ (run.at # "reading" => TailKept(index))
        /\ Coherent(cache, logFile) /\ TailKept(cache)
        /\ run.at = "reading" \/ Grown => Prefix(index.bytes, logFile)
        /\ run.at = "resuming" => Prefix(cache.bytes, logFile)

LEMMA WorkerGrown ==
    ASSUME TypeInv, RunInv, Worker, Grown'
    PROVE  RunCheck /\ run'.outcome = "DataAdded"
<1>1. /\ run.at # "told" /\ run'.at \in {"resuming", "reading", "ended"} /\ UNCHANGED queue
      /\ run'.at = "ended" /\ ~(RunCheck \/ FailCheck) => run'.outcome \in Loaded
  BY WorkerRuns, WorkerFrame DEF OwnersUnchanged
<1>2. queue'.waiting.kind # "Partial"
  BY <1>1 DEF RunInv
<1>3. run'.at = "ended" /\ run'.outcome = "DataAdded"
  BY <1>1, <1>2 DEF Grown
<1>4. ~FailCheck
  <2>1. run \in Runs /\ "Truncated" \in Loaded \cup Checked
    BY KindsApart DEF TypeInv, JobsTyped
  <2>2. EndRun("Truncated") => run'.outcome = "Truncated"
    BY <2>1, EndRunFacts
  <2> QED
    BY <1>3, <2>2 DEF FailCheck
<1> QED
  BY <1>1, <1>3, <1>4, KindsApart

LEMMA EmptyPrefix ==
    ASSUME NEW t \in Nat, NEW log \in Written(t)
    PROVE  Prefix(<<>>, log)
<1>1. Len(<<>>) = 0 /\ Len(log) \in Nat
  BY WrittenLength, EmptySeq
<1> QED
  BY <1>1 DEF Prefix

LEMMA BytesWorker ==
    ASSUME TypeInv, RunInv, BytesInv, Worker
    PROVE  BytesInv'
<1> DEFINE Indexed == /\ Coherent(index', logFile)
                      /\ run'.at # "reading" => TailKept(index')
                      /\ run'.at = "reading" => Prefix(index'.bytes, logFile)
           Cached == /\ Coherent(cache', logFile) /\ TailKept(cache')
                     /\ run'.at = "resuming" => Prefix(cache'.bytes, logFile)
           Added == RunCheck /\ run'.outcome = "DataAdded" => Prefix(index'.bytes, logFile)
<1>1. /\ process = "up" /\ logFile' = logFile
      /\ BeginFull \/ UNCHANGED rewritten
  BY WorkerFrame DEF OwnersUnchanged
<1>2. SUFFICES ASSUME ~rewritten'
               PROVE  Indexed /\ Cached /\ Added
  BY <1>1, WorkerGrown DEF BytesInv
<1>3. /\ ModificationTime \in Nat /\ logFile \in Written(ModificationTime) /\ run \in Runs
      /\ Sized(index, ModificationTime) /\ Sized(cache, ModificationTime)
      /\ Sized(index', ModificationTime) /\ Sized(cache', ModificationTime)
      /\ queue.running.encoding \in Known
      /\ run.from \in Nat /\ run.size \in 0..MaxSize
  <2>1. /\ ModificationTime \in Nat /\ logFile \in Written(ModificationTime) /\ run \in Runs
        /\ Sized(index, ModificationTime) /\ Sized(cache, ModificationTime) /\ Job(queue.running)
    BY TimeFacts DEF TypeInv, DiskTyped, JobsTyped, IndexTyped
  <2>2. run.from \in Nat /\ run.size \in 0..MaxSize
    BY <2>1, Bounds DEF Runs
  <2> QED
    BY <2>1, <2>2, WorkerSized, JobKinds
<1>4. Prefix(<<>>, logFile)
  BY <1>3, EmptyPrefix
<1>5. ASSUME index' = Cleared \/ (\E encoding : index' = [Cleared EXCEPT !.forced = encoding])
                \/ index' = Dropped(Cleared)
      PROVE  Indexed /\ Added
  <2>1. Coherent(index', logFile) /\ TailKept(index') /\ index'.bytes = <<>>
    BY <1>5, ClearedCoherent
  <2> QED
    BY <1>4, <2>1
<1>6. CASE BeginFull
  <2>1. index' = [Cleared EXCEPT !.forced = queue.running.encoding] /\ cache' = Cleared /\ run'.at = "reading"
    BY <1>6, BeginFacts DEF BeginFull, NoEntry
  <2>2. Coherent(cache', logFile) /\ TailKept(cache')
    BY <2>1, ClearedCoherent
  <2> QED
    BY <1>5, <2>1, <2>2
<1>7. ASSUME ~BeginFull
      PROVE  /\ Coherent(index, logFile) /\ (run.at # "reading" => TailKept(index))
             /\ Coherent(cache, logFile) /\ TailKept(cache)
             /\ run.at = "reading" \/ Grown => Prefix(index.bytes, logFile)
             /\ run.at = "resuming" => Prefix(cache.bytes, logFile)
  BY <1>1, <1>2, <1>7 DEF BytesInv
<1>8. ASSUME UNCHANGED cache, run'.at # "resuming", ~BeginFull
      PROVE  Cached
  BY <1>7, <1>8
<1>9. ASSUME NEW outcome \in Loaded \cup Checked, EndRun(outcome)
      PROVE  run'.at = "ended" /\ run'.outcome = outcome
  BY <1>3, <1>9, EndRunFacts
<1>10. "Successful" \in Loaded \cup Checked /\ "Interrupted" \in Loaded \cup Checked /\ "Failed" \in Loaded \cup Checked
       /\ "Truncated" \in Loaded \cup Checked
  BY KindsApart
<1>11. ASSUME RunCheck \/ FailCheck
       PROVE  ~BeginFull
  BY <1>11, KindsApart, WorkerRuns DEF BeginFull, IsFull
<1>12. ASSUME ~BeginFull, CachedFit # "Truncated"
       PROVE  Prefix(cache.bytes, logFile)
  BY <1>3, <1>7, <1>12, CachedFits, FitBytes
<1>13. CASE BeginFull
  BY <1>6, <1>13
<1>14. CASE TakeCached /\ ~BeginFull
  <2>1. index' = LoadedFromCache(cache, queue.running.encoding) /\ UNCHANGED cache /\ run'.at = "ended"
        /\ run'.outcome = "Successful"
    BY <1>9, <1>10, <1>14 DEF TakeCached
  <2>2. Coherent(index', logFile) /\ TailKept(index')
    BY <1>3, <1>7, <1>14, <2>1, LoadedCoherent
  <2> QED
    BY <1>8, <1>14, <2>1, <2>2
<1>15. CASE CheckCached /\ ~BeginFull
  <2>1. CachedFit = "DataAdded" /\ UNCHANGED cache /\ run.at = "queued"
    BY <1>15 DEF CheckCached, LeaveIndex
  <2>2. Cached
    BY <1>7, <1>12, <1>15, <2>1
  <2>3. CASE run' = [run EXCEPT !.at = "resuming"] /\ UNCHANGED index
    <3>1. run'.at = "resuming"
      BY <1>3, <2>3 DEF Runs
    <3>2. ~RunCheck
      BY <1>3, <3>1, CheckFacts
    <3> QED
      BY <1>7, <1>15, <2>1, <2>2, <2>3, <3>1, <3>2
  <2>4. CASE EndRun("Interrupted") /\ UNCHANGED index
    <3>1. run'.at = "ended" /\ run'.outcome = "Interrupted"
      BY <1>9, <1>10, <2>4
    <3> QED
      BY <1>7, <1>15, <2>1, <2>2, <2>4, <3>1
  <2>5. CASE BeginAnew
    BY <1>5, <2>2, <2>5, BeginFacts
  <2> QED
    BY <1>15, <2>3, <2>4, <2>5 DEF CheckCached, LeaveIndex
<1>16. CASE ResumeCached /\ ~BeginFull
  <2>1. UNCHANGED cache /\ run.at = "resuming"
    BY <1>16 DEF ResumeCached, LeaveIndex
  <2>2. CASE EndRun("Interrupted") /\ UNCHANGED index
    <3>1. run'.at = "ended" /\ run'.outcome = "Interrupted"
      BY <1>9, <1>10, <2>2
    <3> QED
      BY <1>7, <1>8, <1>16, <2>1, <2>2, <3>1
  <2>3. CASE BeginAnew
    BY <1>5, <1>8, <1>16, <2>1, <2>3, BeginFacts
  <2>4. CASE /\ index' = ResumedFromCache(cache, queue.running.encoding, logFile)
             /\ run' = [run EXCEPT !.at = "reading", !.from = ResumeOffset(cache), !.size = Len(logFile)]
    <3>1. run'.at = "reading"
      BY <1>3, <2>4 DEF Runs
    <3>2. Prefix(cache.bytes, logFile)
      BY <1>7, <1>16, <2>1
    <3>3. PICK n : n = ResumedFromCache(cache, queue.running.encoding, logFile)
      OBVIOUS
    <3>4. Coherent(n, logFile) /\ TailKept(n) /\ Prefix(n.bytes, logFile)
      BY <1>3, <3>2, <3>3, ResumedCoherent
    <3> QED
      BY <1>8, <1>16, <2>1, <2>4, <3>1, <3>3, <3>4
  <2> QED
    BY <1>16, <2>2, <2>3, <2>4 DEF ResumeCached, LeaveIndex
<1>17. CASE BeginPartial
  <2>1. /\ run.at = "queued" /\ queue.running.kind = "Partial" /\ run'.at = "reading"
        /\ UNCHANGED <<index, cache>>
    BY <1>3, <1>17 DEF BeginPartial, Runs
  <2>2. ~BeginFull
    BY <2>1, KindsApart DEF BeginFull, IsFull
  <2>3. Grown
    BY <2>1 DEF Grown
  <2> QED
    BY <1>7, <1>8, <2>1, <2>2, <2>3
<1>18. CASE OpenMissing /\ ~BeginFull
  <2>1. index' = Dropped(Cleared) /\ (cache' = Cleared \/ UNCHANGED cache) /\ run'.at = "ended"
    BY <1>9, <1>10, <1>18 DEF OpenMissing, NoEntry
  <2>2. cache' = Cleared => Coherent(cache', logFile) /\ TailKept(cache')
    BY ClearedCoherent
  <2> QED
    BY <1>5, <1>8, <1>18, <2>1, <2>2
<1>19. CASE IndexBlock
  <2>1. PICK block \in Written(ModificationTime) :
           /\ index' = AddBlock(index, block)
           /\ Len(block) > 0 /\ Len(index.bytes) + Len(block) <= Len(logFile)
           /\ \A half \in 1..Len(block) : block[half] = logFile[Len(index.bytes) + half]
    BY <1>19, BlockFacts
  <2>2. run.at = "reading" /\ run' = run /\ UNCHANGED cache /\ ~BeginFull
    BY <1>19 DEF IndexBlock, BeginFull
  <2>3. Coherent(AddBlock(index, block), logFile) /\ Prefix(AddBlock(index, block).bytes, logFile)
    BY <1>3, <1>7, <2>1, <2>2, BlockCoherent
  <2> QED
    BY <1>8, <2>1, <2>2, <2>3
<1>20. ASSUME index' = Completed(index, run.from, run.size, logFile, ModificationTime), run.at = "reading",
              run'.at = "ended", run'.outcome = "Successful", Save
       PROVE  Indexed /\ Cached /\ Added
  <2>1. ~BeginFull
    BY <1>20 DEF BeginFull
  <2>2. Coherent(index', logFile) /\ TailKept(index')
    BY <1>3, <1>7, <1>20, <2>1, CompletedCoherent
  <2>3. cache' = cache \/ cache' = Entry(index')
    BY <1>3, <1>20, SaveFacts
  <2>4. Coherent(Entry(index'), logFile) /\ TailKept(Entry(index'))
    BY <1>3, <2>2, EntryCoherent
  <2> QED
    BY <1>8, <1>20, <2>1, <2>2, <2>3, <2>4
<1>21. CASE EndIndex
  <2>1. run.at = "reading" /\ ~BeginFull
    BY <1>21, EndFacts DEF BeginFull
  <2>2. CASE index' = Dropped(index) /\ EndRun("Interrupted") /\ UNCHANGED cache
    <3>1. index' = Dropped(Cleared) /\ run'.at = "ended"
      BY <1>9, <1>10, <2>2 DEF Dropped
    <3> QED
      BY <1>5, <1>8, <2>1, <2>2, <3>1
  <2>3. CASE index' = Completed(index, run.from, run.size, logFile, ModificationTime) /\ EndRun("Successful") /\ Save
    BY <1>9, <1>10, <1>20, <2>1, <2>3
  <2> QED
    BY <1>21, <2>2, <2>3, EndFacts
<1>22. CASE StopReading \/ ReadFails
  <2>1. run.at = "reading" /\ run'.at = "reading" /\ UNCHANGED <<index, cache>> /\ ~BeginFull
    BY <1>3, <1>22, StopFacts DEF BeginFull
  <2> QED
    BY <1>7, <1>8, <2>1
<1>23. CASE FailIndex
  <2>1. index' = Cleared /\ UNCHANGED cache /\ run'.at = "ended" /\ ~BeginFull
    BY <1>9, <1>10, <1>23 DEF FailIndex, BeginFull
  <2> QED
    BY <1>5, <1>8, <2>1
<1>24. CASE RunCheck
  <2>1. /\ run'.at = "ended" /\ run.at = "queued" /\ UNCHANGED cache /\ ~BeginFull
        /\ index'.bytes = index.bytes /\ index'.recorded = index.recorded /\ index'.full = index.full
        /\ index'.tail = index.tail /\ index'.built = index.built /\ index'.fed = index.fed
    BY <1>11, <1>24, CheckFacts DEF RunCheck
  <2>2. Coherent(index, logFile) /\ TailKept(index)
    BY <1>7, <2>1
  <2>3. Coherent(index', logFile) /\ TailKept(index')
    BY <2>1, <2>2 DEF Coherent, TailKept
  <2>4. run'.outcome = "DataAdded" => Prefix(index.bytes, logFile)
    BY <1>3, <1>24, <2>2, CheckFits, FitBytes
  <2> QED
    BY <1>8, <2>1, <2>3, <2>4
<1>25. CASE FailCheck
  <2>1. /\ run'.at = "ended" /\ run'.outcome = "Truncated" /\ run.at = "queued" /\ UNCHANGED <<index, cache>>
        /\ ~BeginFull
    BY <1>9, <1>10, <1>11, <1>25 DEF FailCheck
  <2> QED
    BY <1>7, <1>8, <2>1
<1> QED
  BY <1>13, <1>14, <1>15, <1>16, <1>17, <1>18, <1>19, <1>21, <1>22, <1>23, <1>24, <1>25 DEF Worker

-----------------------------------------------------------------------------
(* The owner thread and the Log File: what a Check is still to see.          *)

\* The job that runs or waits looks at the Log File.
JobsLook ==
    \/ queue.waiting.kind \in FullKinds \cup {"Check"}
    \/ run.at = "queued" /\ queue.running.kind \in FullKinds \cup {"Check", "Attach"}

\* The Log File is still to be looked at, since it changed or may have.
WillLook ==
    \/ ~watched \/ unreported
    \/ JobsLook
    \/ run.at = "ended" /\ run.outcome = "Truncated"

OwnerStep ==
    \/ SetEncoding \/ Reload \/ StopLoading \/ FileChangedOnDisk \/ IndexingFinished
    \/ CheckFileChangesFinished \/ FinishJobAndStartNext

\* A job is asked for while r is the run in flight.
LEMMA EnqueuedLooks ==
    ASSUME JobsTyped, RunInv, NEW r \in Runs, r.outcome = run.outcome, r.short = run.short,
           (r.at = run.at /\ run.at # "told") \/ (r.at = "told" /\ run.at = "ended"),
           \/ UNCHANGED queue /\ run' = r
           \/ \E job : Job(job) /\ Enqueued(job, r)
                       /\ \/ job.kind \in {"Check", "Automatic", "Explicit"}
                          \/ job.kind = "Partial" /\ run.at = "ended" /\ run.outcome = "DataAdded"
    PROVE  /\ JobsLook => JobsLook'
           /\ UNCHANGED queue \/ JobsLook' \/ queue'.waiting.kind = "Partial"
           /\ Grown' => Grown
           /\ run' = r \/ (run'.at = "queued" /\ run.at = "off" /\ JobsLook')
<1>1. /\ queue.waiting.kind # "Partial" /\ Job(queue.waiting) /\ Job(queue.running)
      /\ (run.at = "off") <=> (queue.running = NoJob)
      /\ (r.at = "off") <=> (queue.running = NoJob)
      /\ run.at = "off" => queue.waiting.kind = "None"
  BY JobsAre DEF RunInv, JobsTyped
<1>2. CASE UNCHANGED queue /\ run' = r
  BY <1>1, <1>2 DEF JobsLook, Grown
<1>3. ASSUME NEW job, Job(job), Enqueued(job, r),
             \/ job.kind \in {"Check", "Automatic", "Explicit"}
             \/ job.kind = "Partial" /\ run.at = "ended" /\ run.outcome = "DataAdded"
      PROVE  /\ JobsLook => JobsLook'
             /\ JobsLook' \/ queue'.waiting.kind = "Partial"
             /\ Grown' => Grown
             /\ run' = r \/ (run'.at = "queued" /\ run.at = "off" /\ JobsLook')
  <2>1. \/ /\ queue.running = NoJob /\ queue'.running = job /\ queue'.waiting = NoJob
           /\ run' = Queued
        \/ /\ queue.running # NoJob /\ queue'.running = queue.running /\ run' = r
           /\ queue'.waiting = IF Strength[job.kind] >= Strength[queue.waiting.kind]
                               THEN job ELSE queue.waiting
    BY <1>1, <1>3, EnqueuedFacts
  <2>2. CASE queue.running = NoJob /\ queue'.running = job /\ queue'.waiting = NoJob /\ run' = Queued
    <3>1. run'.at = "queued" /\ run.at = "off" /\ queue'.waiting.kind = "None"
          /\ job.kind \in {"Check", "Automatic", "Explicit"}
      BY <1>1, <1>3, <2>2, RunsAre, JobsAre
    <3>2. JobsLook'
      BY <2>2, <3>1, KindsApart DEF JobsLook
    <3> QED
      BY <2>2, <3>1, <3>2 DEF Grown
  <2>3. CASE /\ queue.running # NoJob /\ queue'.running = queue.running /\ run' = r
             /\ queue'.waiting = IF Strength[job.kind] >= Strength[queue.waiting.kind]
                                 THEN job ELSE queue.waiting
    <3>1. /\ queue'.waiting.kind \in {"Check", "Automatic", "Explicit", "Partial"}
          /\ queue'.waiting.kind = "Partial" => job.kind = "Partial" /\ queue.waiting.kind = "None"
      <4>1. queue.waiting.kind \in {"None", "Check", "Automatic", "Explicit", "Attach"}
        BY <1>1, JobKinds
      <4>2. queue.waiting.kind # "Attach"
        BY DEF JobsTyped
      <4>3. job.kind \in {"Check", "Automatic", "Explicit", "Partial"}
        BY <1>3
      <4> QED
        BY <2>3, <4>1, <4>2, <4>3 DEF Strength
    <3>2. JobsLook' \/ queue'.waiting.kind = "Partial"
      BY <3>1 DEF JobsLook, FullKinds
    <3>3. JobsLook => JobsLook'
      <4>1. SUFFICES ASSUME queue'.waiting.kind = "Partial", JobsLook
                     PROVE  JobsLook'
        BY <3>2
      <4>2. run.at = "ended" /\ queue.waiting.kind = "None"
        BY <1>3, <3>1, <4>1
      <4> QED
        BY <4>1, <4>2 DEF JobsLook, FullKinds
    <3>4. Grown' => Grown
      <4>1. queue'.waiting.kind = "Partial" => Grown
        BY <1>3, <3>1 DEF Grown
      <4> QED
        BY <2>3, <4>1 DEF Grown
    <3> QED
      BY <2>3, <3>2, <3>3, <3>4
  <2> QED
    BY <2>1, <2>2, <2>3
<1> QED
  BY <1>2, <1>3

LEMMA SettleEnqueues ==
    ASSUME TypeInv, NEW choice \in Known, NEW r \in Runs, (r.at = "off") <=> (queue.running = NoJob),
           NEW news, SettleEncoding(choice, r, news), process' = "up"
    PROVE  \E i \in Runs :
              /\ i.at = r.at /\ i.outcome = r.outcome /\ i.short = r.short /\ i.done = r.done
              /\ r.superseded => i.superseded
              /\ \/ UNCHANGED queue /\ run' = i
                 \/ \E job : Job(job) /\ Enqueued(job, i) /\ job.kind = "Explicit"
<1>1. PICK i \in Runs : /\ i = Interrupted(r) /\ i.at = r.at /\ i.outcome = r.outcome /\ i.short = r.short
                        /\ i.done = r.done /\ (r.superseded => i.superseded)
  BY InterruptedFacts
<1>2. \/ UNCHANGED queue /\ run' = r
      \/ UNCHANGED queue /\ run' = i
      \/ \E forced \in Known : Enqueued(Explicit(forced), i)
  BY <1>1, SettleFacts
<1>3. CASE UNCHANGED queue /\ run' = r
  BY <1>3
<1>4. CASE UNCHANGED queue /\ run' = i
  BY <1>1, <1>4
<1>5. ASSUME NEW forced \in Known, Enqueued(Explicit(forced), i)
      PROVE  \E job : Job(job) /\ Enqueued(job, i) /\ job.kind = "Explicit"
  <2>1. Job(Explicit(forced)) /\ Explicit(forced).kind = "Explicit"
    BY JobsAre
  <2> QED
    BY <1>5, <2>1
<1> QED
  BY <1>1, <1>2, <1>3, <1>4, <1>5

\* What the owner thread does to the run in flight and the jobs: nothing that
\* is still to be looked at is forgotten, and a report is handled once.
LEMMA OwnerLooks ==
    ASSUME TypeInv, RunInv, OwnerStep, process' = "up"
    PROVE  /\ process = "up" /\ UNCHANGED <<logFile, index, cache, rewritten>>
           /\ WillLook => WillLook'
           /\ (run'.at = "reading") <=> (run.at = "reading")
           /\ run'.at = "reading" => /\ run'.done = run.done /\ run'.short = run.short
                                     /\ run.superseded => run'.superseded
           /\ run'.at = "resuming" => run.at = "resuming"
           /\ Grown' => Grown
           /\ run'.at = "ended" => run.at = "ended" /\ run'.outcome = run.outcome /\ run'.short = run.short
           /\ run'.at \in {"ended", "off"} => UNCHANGED lost
           /\ run'.at = "told" =>
                 /\ run.at = "ended"
                 /\ lost' = "Nothing" /\ ~WillLook' /\ queue'.waiting.kind # "Partial" =>
                       \/ run.outcome = "Unchanged"
                       \/ run.outcome = "Successful" /\ ~run.short
           /\ run'.at = "off" => run.at = "off" \/ (run.at = "told" /\ queue.waiting.kind # "Partial")
<1> DEFINE Looks == /\ WillLook => WillLook'
                    /\ (run'.at = "reading") <=> (run.at = "reading")
                    /\ run'.at = "reading" => /\ run'.done = run.done /\ run'.short = run.short
                                              /\ run.superseded => run'.superseded
                    /\ run'.at = "resuming" => run.at = "resuming"
                    /\ Grown' => Grown
                    /\ run'.at = "ended" => run.at = "ended" /\ run'.outcome = run.outcome /\ run'.short = run.short
                    /\ run'.at \in {"ended", "off"} => UNCHANGED lost
                    /\ run'.at = "told" =>
                          /\ run.at = "ended"
                          /\ lost' = "Nothing" /\ ~WillLook' /\ queue'.waiting.kind # "Partial" =>
                                \/ run.outcome = "Unchanged"
                                \/ run.outcome = "Successful" /\ ~run.short
                    /\ run'.at = "off" => run.at = "off" \/ (run.at = "told" /\ queue.waiting.kind # "Partial")
<1>1. process = "up" /\ UNCHANGED <<logFile, index, cache, rewritten>>
  <2>1. process = "up"
    BY DEF OwnerStep, SetEncoding, Reload, StopLoading, FileChangedOnDisk, IndexingFinished,
           CheckFileChangesFinished, FinishJobAndStartNext, InEventLoop
  <2> QED
    BY <2>1, OwnerKeepsTypes DEF OwnerStep
<1>2. /\ JobsTyped /\ run \in Runs /\ watched \in BOOLEAN /\ unreported \in BOOLEAN /\ chosen \in Known
      /\ ((run.at = "off") <=> (queue.running = NoJob)) /\ NoEncoding \in Known /\ Job(queue.waiting)
  BY DEF TypeInv, DiskTyped, JobsTyped, ToldTyped, Known
<1>3. /\ Handled \in Runs /\ Handled.at = "told" /\ Handled.outcome = run.outcome /\ Handled.short = run.short
      /\ Interrupted(run) \in Runs /\ Interrupted(run).at = run.at /\ Interrupted(run).outcome = run.outcome
      /\ Interrupted(run).short = run.short /\ Interrupted(run).done = run.done
      /\ run.superseded => Interrupted(run).superseded
  BY <1>2, HandledFacts, InterruptedFacts
<1>4. ASSUME run.at # "told", UNCHANGED lost, NEW r \in Runs,
             r.at = run.at, r.outcome = run.outcome, r.short = run.short, r.done = run.done,
             run.superseded => r.superseded,
             (UNCHANGED queue /\ run' = r)
                \/ \E job : Job(job) /\ Enqueued(job, r) /\ job.kind \in {"Check", "Automatic", "Explicit"},
             UNCHANGED <<watched, unreported>> \/ JobsLook'
      PROVE  Looks
  <2>1. /\ JobsLook => JobsLook'
        /\ Grown' => Grown
        /\ run' = r \/ (run'.at = "queued" /\ run.at = "off" /\ JobsLook')
    BY <1>2, <1>4, EnqueuedLooks
  <2> QED
    BY <1>4, <2>1 DEF WillLook
<1>5. CASE SetEncoding
  <2>1. PICK choice \in Known : SettleEncoding(choice, run, told)
    BY <1>5 DEF SetEncoding
  <2>2. run.at # "told" /\ UNCHANGED <<watched, unreported, lost>>
    BY <1>5 DEF SetEncoding, InEventLoop, diskVars
  <2>3. PICK i \in Runs :
              /\ i.at = run.at /\ i.outcome = run.outcome /\ i.short = run.short /\ i.done = run.done
              /\ run.superseded => i.superseded
              /\ \/ UNCHANGED queue /\ run' = i
                 \/ \E job : Job(job) /\ Enqueued(job, i) /\ job.kind = "Explicit"
    BY <1>2, <2>1, SettleEnqueues
  <2>4. (UNCHANGED queue /\ run' = i)
           \/ \E job : Job(job) /\ Enqueued(job, i) /\ job.kind \in {"Check", "Automatic", "Explicit"}
    BY <2>3
  <2>5. Looks
    BY <1>4, <2>2, <2>3, <2>4
  <2> QED
    BY <1>1, <2>5
<1>6. CASE Reload
  <2>1. run.at # "told" /\ UNCHANGED <<watched, unreported, lost>>
        /\ Enqueued(Explicit(NoEncoding), Interrupted(run))
    BY <1>6 DEF Reload, ReadAgain, InEventLoop, diskVars
  <2>2. Job(Explicit(NoEncoding)) /\ Explicit(NoEncoding).kind \in {"Check", "Automatic", "Explicit"}
    BY <1>2, JobsAre
  <2>3. Looks
    BY <1>3, <1>4, <2>1, <2>2
  <2> QED
    BY <1>1, <2>3
<1>7. CASE StopLoading
  <2>1. run.at # "told" /\ UNCHANGED <<watched, unreported, lost, queue>> /\ run' = Interrupted(run)
    BY <1>7 DEF StopLoading, InEventLoop, diskVars
  <2>2. Looks
    BY <1>3, <1>4, <2>1
  <2> QED
    BY <1>1, <2>2
<1>8. CASE FileChangedOnDisk
  <2>1. run.at # "told" /\ UNCHANGED lost /\ Enqueued(Check, run)
    BY <1>8 DEF FileChangedOnDisk, InEventLoop
  <2>2. Job(Check) /\ Check.kind = "Check"
    BY JobsAre
  <2>3. JobsLook'
    <3>1. \/ UNCHANGED queue \/ JobsLook' \/ queue'.waiting.kind = "Partial"
      BY <1>2, <2>1, <2>2, EnqueuedLooks
    <3>2. \/ /\ queue.running = NoJob /\ queue'.running = Check /\ run' = Queued
          \/ queue'.waiting = IF Strength[Check.kind] >= Strength[queue.waiting.kind]
                              THEN Check ELSE queue.waiting
      BY <1>2, <2>1, <2>2, EnqueuedFacts
    <3>3. queue.running = NoJob /\ queue'.running = Check /\ run' = Queued => JobsLook'
      BY <2>2, RunsAre DEF JobsLook
    <3>4. ASSUME queue'.waiting = IF Strength[Check.kind] >= Strength[queue.waiting.kind]
                                  THEN Check ELSE queue.waiting
          PROVE  JobsLook'
      <4>1. queue.waiting.kind \in {"None", "Check", "Partial", "Automatic", "Explicit", "Attach"}
            /\ queue.waiting.kind # "Attach"
        BY <1>2, JobKinds DEF JobsTyped
      <4> QED
        BY <2>2, <3>4, <4>1 DEF Strength, JobsLook, FullKinds
    <3> QED
      BY <3>2, <3>3, <3>4
  <2>4. Looks
    BY <1>2, <1>4, <2>1, <2>2, <2>3
  <2> QED
    BY <1>1, <2>4
<1>9. CASE IndexingFinished
  <2>1. /\ run.at = "ended" /\ run.outcome \in Loaded /\ Watching
        /\ lost' = IF run.outcome = "Successful" /\ (index.recorded \/ queue.running # Partial)
                   THEN IF run.short THEN "Rest" ELSE "Nothing"
                   ELSE IF queue.running = Partial THEN "Added" ELSE "Everything"
        /\ SettleEncoding(chosen, Handled, ToldFrom(FirstChanged(queue.running.kind), index, display))
    BY <1>9 DEF IndexingFinished
  <2>2. (Handled.at = "off") <=> (queue.running = NoJob)
    BY <1>2, <1>3, <2>1
  <2>3. PICK i \in Runs :
              /\ i.at = "told" /\ i.outcome = run.outcome /\ i.short = run.short
              /\ \/ UNCHANGED queue /\ run' = i
                 \/ \E job : Job(job) /\ Enqueued(job, i) /\ job.kind = "Explicit"
    BY <1>2, <1>3, <2>1, <2>2, SettleEnqueues
  <2>4. /\ JobsLook => JobsLook'
        /\ Grown' => Grown
        /\ run' = i \/ run.at = "off"
    BY <1>2, <2>1, <2>3, EnqueuedLooks
  <2>5. run' = i
    BY <2>1, <2>4
  <2>6. run.outcome # "Truncated"
    BY <2>1, KindsApart
  <2>7. WillLook => WillLook'
    BY <1>2, <2>1, <2>4, <2>6 DEF WillLook, Watching
  <2>8. lost' = "Nothing" => run.outcome = "Successful" /\ ~run.short
    BY <2>1
  <2>9. Looks
    BY <2>1, <2>3, <2>4, <2>5, <2>7, <2>8
  <2> QED
    BY <1>1, <2>9
<1>10. CASE CheckFileChangesFinished
  <2>1. run.at = "ended" /\ run.outcome \in Checked /\ UNCHANGED <<watched, unreported>>
    BY <1>10 DEF CheckFileChangesFinished, diskVars
  <2>2. \/ run.outcome = "Unchanged" /\ run' = Handled /\ UNCHANGED queue
        \/ run.outcome = "DataAdded" /\ Enqueued(Partial, Handled)
        \/ run.outcome = "Truncated" /\ Enqueued(Automatic, Handled)
    BY <1>10 DEF CheckFileChangesFinished
  <2>3. Job(Partial) /\ Partial.kind = "Partial" /\ Job(Automatic) /\ Automatic.kind = "Automatic"
    BY JobsAre
  <2>4. (UNCHANGED queue /\ run' = Handled)
           \/ \E job : Job(job) /\ Enqueued(job, Handled)
                       /\ \/ job.kind \in {"Check", "Automatic", "Explicit"}
                          \/ job.kind = "Partial" /\ run.at = "ended" /\ run.outcome = "DataAdded"
    BY <2>1, <2>2, <2>3
  <2>5. /\ JobsLook => JobsLook'
        /\ UNCHANGED queue \/ JobsLook' \/ queue'.waiting.kind = "Partial"
        /\ Grown' => Grown
        /\ run' = Handled \/ run.at = "off"
    BY <1>2, <1>3, <2>1, <2>4, EnqueuedLooks
  <2>6. run' = Handled
    BY <2>1, <2>5
  <2>7. run.outcome \in {"DataAdded", "Truncated"} => JobsLook' \/ queue'.waiting.kind = "Partial"
    <3>1. ASSUME NEW job, Job(job), Enqueued(job, Handled), job.kind \in {"Partial", "Automatic"}
          PROVE  JobsLook' \/ queue'.waiting.kind = "Partial"
      <4>1. (Handled.at = "off") <=> (queue.running = NoJob)
        BY <1>2, <1>3, <2>1
      <4>2. queue'.waiting = IF Strength[job.kind] >= Strength[queue.waiting.kind]
                             THEN job ELSE queue.waiting
        BY <1>2, <1>3, <2>1, <3>1, <4>1, EnqueuedFacts
      <4>3. queue.waiting.kind \in {"None", "Check", "Partial", "Automatic", "Explicit", "Attach"}
            /\ queue.waiting.kind # "Attach"
        BY <1>2, JobKinds DEF JobsTyped
      <4> QED
        BY <3>1, <4>2, <4>3 DEF Strength, JobsLook, FullKinds
    <3> QED
      BY <2>2, <2>3, <3>1
  <2>8. run.outcome = "Truncated" => JobsLook'
    <3>1. SUFFICES ASSUME run.outcome = "Truncated", queue'.waiting.kind = "Partial"
                   PROVE  FALSE
      BY <2>7
    <3>2. Enqueued(Automatic, Handled)
      BY <2>2, <3>1
    <3>3. (Handled.at = "off") <=> (queue.running = NoJob)
      BY <1>2, <1>3, <2>1
    <3>4. queue'.waiting = IF Strength[Automatic.kind] >= Strength[queue.waiting.kind]
                           THEN Automatic ELSE queue.waiting
      BY <1>2, <1>3, <2>1, <2>3, <3>2, <3>3, EnqueuedFacts
    <3>5. queue.waiting.kind # "Partial"
      BY <2>1 DEF RunInv
    <3> QED
      BY <2>3, <3>1, <3>4, <3>5
  <2>9. WillLook => WillLook'
    BY <2>1, <2>5, <2>8 DEF WillLook
  <2>10. ~WillLook' /\ queue'.waiting.kind # "Partial" => run.outcome = "Unchanged"
    BY <2>1, <2>7, KindsApart DEF WillLook
  <2>11. Looks
    BY <1>3, <2>1, <2>5, <2>6, <2>9, <2>10
  <2> QED
    BY <1>1, <2>11
<1>11. CASE FinishJobAndStartNext
  <2>1. /\ queue' = [running |-> queue.waiting, waiting |-> NoJob] /\ run.at = "told"
        /\ run' = (IF queue'.running = NoJob THEN NoRun ELSE Queued)
        /\ UNCHANGED <<watched, unreported, lost>>
    BY <1>11 DEF FinishJobAndStartNext, StartWaiting, diskVars
  <2>2. /\ queue'.running = queue.waiting /\ queue'.waiting.kind = "None"
        /\ (run'.at = "off" /\ queue.waiting = NoJob) \/ (run'.at = "queued" /\ queue.waiting # NoJob)
    BY <2>1, RunsAre, JobsAre
  <2>3. queue.waiting = NoJob => queue.waiting.kind = "None"
    BY JobsAre
  <2>4. JobsLook => JobsLook'
    BY <2>1, <2>2, <2>3, KindsApart DEF JobsLook
  <2>5. WillLook => WillLook'
    BY <2>1, <2>4 DEF WillLook
  <2>6. Grown' => Grown
    BY <2>2 DEF Grown
  <2>7. Looks
    BY <2>1, <2>2, <2>3, <2>5, <2>6
  <2> QED
    BY <1>1, <2>7
<1> QED
  BY <1>5, <1>6, <1>7, <1>8, <1>9, <1>10, <1>11 DEF OwnerStep

LEMMA NextSteps ==
    ASSUME [Next]_vars
    PROVE  Change \/ Worker \/ OwnerStep \/ Shutdown \/ UNCHANGED vars
  BY DEF Next, Delivery, OwnerStep

LEMMA ChangedIs ==
    ASSUME TypeInv, Change
    PROVE  /\ ModificationTime \in Nat /\ logFile \in Written(ModificationTime)
           /\ logFile' \in Written(ModificationTime + 1)
           /\ UNCHANGED <<watched, index, cache, queue, run, process, lost>>
           /\ unreported' = (unreported \/ watched)
           /\ \E keep : /\ ChangedAt(logFile, logFile', keep, ModificationTime)
                        /\ rewritten' = (rewritten \/ (queue.running # NoJob /\ keep < Len(logFile)))
<1>1. /\ ModificationTime \in Nat /\ logFile \in Written(ModificationTime)
  BY TimeFacts DEF TypeInv, DiskTyped
<1>2. UNCHANGED <<watched, index, cache, queue, run, process, lost>>
  BY DEF Change
<1>3. /\ logFile' \in Written(ModificationTime + 1)
      /\ unreported' = (unreported \/ watched)
      /\ \E keep \in 0..Len(logFile) :
            /\ keep <= Len(logFile')
            /\ \A half \in 1..keep : logFile'[half] = logFile[half]
            /\ \A half \in (keep + 1)..Len(logFile') : logFile'[half] = ModificationTime + 1
            /\ rewritten' = (rewritten \/ (queue.running # NoJob /\ keep < Len(logFile)))
  BY ChangeFacts
<1> QED
  BY <1>1, <1>2, <1>3 DEF ChangedAt

LEMMA BytesNext ==
    ASSUME TypeInv, RunInv, BytesInv, [Next]_vars
    PROVE  BytesInv'
<1>1. CASE UNCHANGED vars
  BY <1>1 DEF vars, diskVars, BytesInv, Grown
<1>2. CASE Shutdown
  BY <1>2 DEF Shutdown, BytesInv
<1>3. CASE OwnerStep
  <2>1. SUFFICES ASSUME process' = "up", ~rewritten'
                 PROVE  BytesInv'
    BY DEF BytesInv
  <2>2. /\ process = "up" /\ UNCHANGED <<logFile, index, cache, rewritten>>
        /\ (run'.at = "reading") <=> (run.at = "reading")
        /\ run'.at = "resuming" => run.at = "resuming"
        /\ Grown' => Grown
    BY <1>3, <2>1, OwnerLooks
  <2> QED
    BY <2>1, <2>2 DEF BytesInv
<1>4. CASE Change
  <2>1. /\ ModificationTime \in Nat /\ logFile \in Written(ModificationTime)
        /\ logFile' \in Written(ModificationTime + 1)
        /\ UNCHANGED <<watched, index, cache, queue, run, process, lost>>
    BY <1>4, ChangedIs
  <2>2. PICK keep : /\ ChangedAt(logFile, logFile', keep, ModificationTime)
                    /\ rewritten' = (rewritten \/ (queue.running # NoJob /\ keep < Len(logFile)))
    BY <1>4, ChangedIs
  <2>3. SUFFICES ASSUME process = "up", ~rewritten'
                 PROVE  BytesInv'
    BY <2>1 DEF BytesInv
  <2>4. /\ Coherent(index, logFile) /\ (run.at # "reading" => TailKept(index))
        /\ Coherent(cache, logFile) /\ TailKept(cache)
        /\ run.at = "reading" \/ Grown => Prefix(index.bytes, logFile)
        /\ run.at = "resuming" => Prefix(cache.bytes, logFile)
    BY <2>2, <2>3 DEF BytesInv
  <2>5. /\ index.bytes \in Written(ModificationTime) /\ cache.bytes \in Written(ModificationTime)
        /\ ((run.at = "off") <=> (queue.running = NoJob)) /\ (run.at = "off" => queue.waiting.kind # "Partial")
    BY <2>1, SizedFields, JobsAre DEF TypeInv, IndexTyped, JobsTyped
  <2>6. Coherent(index, logFile') /\ Coherent(cache, logFile')
    BY <2>1, <2>2, <2>4, <2>5, HistoryLater DEF Coherent
  <2>7. run.at # "off" => keep = Len(logFile)
    <3>1. Len(logFile) \in Nat /\ keep \in 0..Len(logFile)
      BY <2>1, <2>2, WrittenLength DEF ChangedAt
    <3>2. rewritten \/ (queue.running # NoJob /\ keep < Len(logFile)) => FALSE
      BY ONLY <2>2, <2>3, Zenon
    <3>3. ~(keep < Len(logFile)) => keep = Len(logFile)
      BY ONLY <3>1
    <3> QED
      BY <2>5, <3>2, <3>3
  <2>8. run.at = "reading" \/ Grown => run.at # "off"
    BY <2>5 DEF Grown
  <2>9. run.at = "reading" \/ Grown => Prefix(index.bytes, logFile')
    BY <2>1, <2>2, <2>4, <2>5, <2>7, <2>8, PrefixLater
  <2>10. run.at = "resuming" => Prefix(cache.bytes, logFile')
    BY <2>1, <2>2, <2>4, <2>5, <2>7, PrefixLater
  <2>11. Grown' <=> Grown
    BY <2>1 DEF Grown
  <2> QED
    BY <2>1, <2>4, <2>6, <2>9, <2>10, <2>11 DEF BytesInv
<1> QED
  BY <1>1, <1>2, <1>3, <1>4, NextSteps, BytesWorker

-----------------------------------------------------------------------------
(* That the header recorded is of the Log File as the digests were taken.    *)

LEMMA WrittenNumbers ==
    ASSUME NEW t \in Nat, NEW x \in Written(t)
    PROVE  \A half \in 1..Len(x) : x[half] \in Nat
  BY WrittenFacts

LEMMA PrefixReads ==
    ASSUME NEW t \in Nat, NEW x \in Written(t), NEW y \in Written(t), NEW z \in Written(t), Prefix(x, y)
    PROVE  /\ ReadBefore(x, y)
           /\ ReadBefore(z, y) => ReadBefore(z, x)
           /\ ReadBefore(y, z) => ReadBefore(x, z)
           /\ Prefix(y, z) => Prefix(x, z)
<1>1. /\ Len(x) \in Nat /\ Len(y) \in Nat /\ Len(z) \in Nat
      /\ \A half \in 1..Len(x) : x[half] \in Nat
  BY WrittenLength, WrittenNumbers
<1>2. Len(x) <= Len(y) /\ \A half \in 1..Len(x) : x[half] = y[half]
  BY DEF Prefix
<1>3. ReadBefore(x, y)
  BY <1>1, <1>2 DEF ReadBefore
<1>4. ReadBefore(z, y) => ReadBefore(z, x)
  BY <1>1, <1>2 DEF ReadBefore
<1>5. ReadBefore(y, z) => ReadBefore(x, z)
  BY <1>1, <1>2 DEF ReadBefore
<1>6. Prefix(y, z) => Prefix(x, z)
  BY <1>1, <1>2 DEF Prefix
<1> QED
  BY <1>3, <1>4, <1>5, <1>6

\* A block read on of the Log File, after what was read of it.
LEMMA JoinedReads ==
    ASSUME NEW t \in Nat, NEW x \in Written(t), NEW log \in Written(t), NEW block \in Written(t),
           Len(x) + Len(block) <= Len(log),
           \A half \in 1..Len(block) : block[half] = log[Len(x) + half]
    PROVE  /\ ReadBefore(x, log) => ReadBefore(x \o block, log)
           /\ Prefix(x, log) => Prefix(x \o block, log)
<1>1. /\ Len(x) \in Nat /\ Len(block) \in Nat /\ Len(log) \in Nat /\ Len(log) <= MaxSize
      /\ \A half \in 1..Len(log) : log[half] \in Nat
  BY WrittenLength, WrittenNumbers
<1>2. PICK n : n = x \o block
  OBVIOUS
<1>3. PICK a \in Nat : a = Len(x)
  BY <1>1
<1>4. PICK b \in Nat : b = Len(block)
  BY <1>1
<1>5. a + b <= Len(log) /\ Len(x) + Len(block) <= MaxSize
  BY <1>1, <1>3, <1>4, Bounds
<1>6. /\ Len(n) = a + b
      /\ \A half \in 1..(a + b) : n[half] = IF half <= a THEN x[half] ELSE block[half - a]
  <2>1. /\ Len(x \o block) = Len(x) + Len(block)
        /\ \A half \in 1..(Len(x) + Len(block)) :
              (x \o block)[half] = IF half <= Len(x) THEN x[half] ELSE block[half - Len(x)]
    BY ONLY t \in Nat, x \in Written(t), block \in Written(t), <1>5, JoinedFacts
  <2> QED
    BY ONLY <2>1, <1>2, <1>3, <1>4
<1>7. ASSUME NEW half \in 1..(a + b), ~(half <= a)
      PROVE  n[half] = log[half] /\ log[half] \in Nat
  <2>1. PICK i \in Nat : i = half - a
    BY <1>7
  <2>2. i \in 1..b /\ a + i = half /\ half \in 1..Len(log)
    BY <1>1, <1>5, <1>7, <2>1
  <2>3. block[i] = log[a + i]
    BY <1>3, <1>4, <2>2
  <2> QED
    BY <1>1, <1>6, <1>7, <2>1, <2>2, <2>3
<1>8. ASSUME ReadBefore(x, log)
      PROVE  ReadBefore(n, log)
  <2>1. SUFFICES ASSUME NEW half \in 1..(a + b), half <= Len(log)
                 PROVE  n[half] <= log[half]
    BY <1>6 DEF ReadBefore
  <2>2. CASE half <= a
    <3>1. half \in 1..Len(x)
      BY <1>3, <2>2
    <3>2. x[half] <= log[half]
      BY <1>8, <2>1, <3>1 DEF ReadBefore
    <3> QED
      BY <1>6, <2>2, <3>2
  <2>3. CASE ~(half <= a)
    BY <1>7, <2>3
  <2> QED
    BY <2>2, <2>3
<1>9. ASSUME Prefix(x, log)
      PROVE  Prefix(n, log)
  <2>1. SUFFICES ASSUME NEW half \in 1..(a + b)
                 PROVE  n[half] = log[half]
    BY <1>5, <1>6 DEF Prefix
  <2>2. CASE half <= a
    <3>1. half \in 1..Len(x)
      BY <1>3, <2>2
    <3>2. x[half] = log[half]
      BY <1>9, <3>1 DEF Prefix
    <3> QED
      BY <1>6, <2>2, <3>2
  <2>3. CASE ~(half <= a)
    BY <1>7, <2>3
  <2> QED
    BY <2>2, <2>3
<1> QED
  BY <1>2, <1>8, <1>9

LEMMA JoinedBoth ==
    ASSUME NEW t \in Nat, NEW x \in Written(t), NEW y \in Written(t), NEW block \in Written(t),
           Len(x) = Len(y), Len(x) + Len(block) <= MaxSize, ReadBefore(x, y)
    PROVE  ReadBefore(x \o block, y \o block)
<1>1. /\ Len(x) \in Nat /\ Len(block) \in Nat /\ \A half \in 1..Len(block) : block[half] \in Nat
  BY WrittenLength, WrittenNumbers
<1>2. PICK m : m = x \o block
  OBVIOUS
<1>3. PICK n : n = y \o block
  OBVIOUS
<1>4. PICK a \in Nat : a = Len(x)
  BY <1>1
<1>5. PICK b \in Nat : b = Len(block)
  BY <1>1
<1>6. /\ Len(m) = a + b
      /\ \A half \in 1..(a + b) : m[half] = IF half <= a THEN x[half] ELSE block[half - a]
  <2>1. /\ Len(x \o block) = Len(x) + Len(block)
        /\ \A half \in 1..(Len(x) + Len(block)) :
              (x \o block)[half] = IF half <= Len(x) THEN x[half] ELSE block[half - Len(x)]
    BY ONLY t \in Nat, x \in Written(t), block \in Written(t), Len(x) + Len(block) <= MaxSize,
       JoinedFacts
  <2> QED
    BY ONLY <2>1, <1>2, <1>4, <1>5
<1>7. /\ Len(n) = a + b
      /\ \A half \in 1..(a + b) : n[half] = IF half <= a THEN y[half] ELSE block[half - a]
  <2>1. Len(y) + Len(block) <= MaxSize
    OBVIOUS
  <2>2. /\ Len(y \o block) = Len(y) + Len(block)
        /\ \A half \in 1..(Len(y) + Len(block)) :
              (y \o block)[half] = IF half <= Len(y) THEN y[half] ELSE block[half - Len(y)]
    BY ONLY t \in Nat, y \in Written(t), block \in Written(t), <2>1, JoinedFacts
  <2> QED
    BY ONLY <2>2, <1>3, <1>4, <1>5, Len(x) = Len(y)
<1>8. SUFFICES ASSUME NEW half \in 1..(a + b)
               PROVE  m[half] <= n[half]
  BY <1>2, <1>3, <1>6, <1>7 DEF ReadBefore
<1>9. CASE half <= a
  <2>1. half \in 1..Len(x) /\ half <= Len(y)
    BY <1>4, <1>9
  <2>2. x[half] <= y[half]
    BY <2>1 DEF ReadBefore
  <2> QED
    BY <1>6, <1>7, <1>9, <2>2
<1>10. CASE ~(half <= a)
  <2>1. half - a \in 1..b
    BY <1>10
  <2>2. block[half - a] \in Nat
    BY <1>1, <1>5, <2>1
  <2>3. m[half] = block[half - a] /\ n[half] = block[half - a]
    BY <1>6, <1>7, <1>10
  <2> QED
    BY <2>2, <2>3
<1> QED
  BY <1>9, <1>10

LEMMA EmptyReads ==
    ASSUME NEW t \in Nat, NEW x \in Written(t)
    PROVE  ReadBefore(<<>>, x) /\ ReadBefore(x, <<>>)
<1>1. Len(<<>>) = 0 /\ Len(x) \in Nat
  BY EmptySeq, WrittenLength
<1> QED
  BY <1>1 DEF ReadBefore

LEMMA BlockHeader ==
    ASSUME NEW t \in Nat, NEW ix, Sized(ix, t), NEW log \in Written(t), HeaderOf(ix, log),
           NEW block \in Written(t), Len(block) > 0,
           Len(ix.bytes) + Len(block) <= Len(log),
           \A half \in 1..Len(block) : block[half] = log[Len(ix.bytes) + half]
    PROVE  /\ HeaderOf(AddBlock(ix, block), log)
           /\ HeaderFits(ix, log) => HeaderFits(AddBlock(ix, block), log)
<1>1. /\ ix.bytes \in Written(t) /\ ix.built \in Written(t) /\ ix.fed \in Written(t) /\ ix.full \in Written(t)
      /\ ix.header \in Written(t) /\ Len(ix.header) <= Len(ix.bytes)
      /\ Len(ix.built) <= Len(ix.bytes) /\ Len(ix.fed) <= Len(ix.bytes)
  BY SizedFields
<1>2. /\ Len(ix.bytes) \in Nat /\ Len(ix.built) \in Nat /\ Len(ix.fed) \in Nat /\ Len(block) \in Nat
      /\ Len(log) \in Nat /\ Len(log) <= MaxSize /\ Len(ix.header) \in Nat
  BY <1>1, WrittenLength
<1>3. /\ Len(ix.bytes) + Len(block) <= MaxSize /\ Len(ix.built) + Len(block) <= MaxSize
      /\ Len(ix.fed) + Len(block) <= MaxSize
  <2>1. Len(ix.built) <= Len(ix.bytes) /\ Len(ix.fed) <= Len(ix.bytes)
    BY <1>1
  <2>2. Len(ix.bytes) + Len(block) <= Len(log)
    OBVIOUS
  <2> QED
    BY ONLY <1>2, <2>1, <2>2, Bounds
<1>4. PICK n : n = AddBlock(ix, block)
  OBVIOUS
<1>5. /\ n.bytes = ix.bytes \o block /\ n.built = ix.built \o block /\ n.full = n.built
      /\ n.fed = ix.fed \o block /\ n.header = ix.header
  <2>1. t \in Nat /\ Sized(ix, t) /\ block \in Written(t) /\ Len(ix.bytes) + Len(block) <= MaxSize
    BY <1>3
  <2> QED
    BY ONLY <1>4, <2>1, AddBlockFacts, SMTT(60)
<1>6. Len(n.bytes) = Len(ix.bytes) + Len(block)
  BY <1>1, <1>3, <1>5, JoinedFacts
<1>7. /\ Len(n.built) = Len(ix.built) + Len(block)
      /\ \A half \in 1..(Len(ix.built) + Len(block)) :
            n.built[half] = IF half <= Len(ix.built) THEN ix.built[half] ELSE block[half - Len(ix.built)]
  BY <1>1, <1>3, <1>5, JoinedFacts
<1>8. Len(n.fed) = Len(ix.fed) + Len(block)
  BY <1>1, <1>3, <1>5, JoinedFacts
<1>9. ASSUME Len(n.full) = Len(n.bytes)
      PROVE  /\ Len(ix.built) = Len(ix.bytes) /\ ix.full = ix.built /\ ReadBefore(ix.built, log)
             /\ ReadBefore(ix.built, ix.header)
  <2>1. Len(ix.built) = Len(ix.bytes)
    BY <1>2, <1>5, <1>6, <1>7, <1>9
  <2> QED
    BY <2>1 DEF HeaderOf
<1>10. ASSUME Len(n.fed) = Len(n.bytes)
       PROVE  /\ Len(ix.fed) = Len(ix.bytes) /\ ReadBefore(ix.fed, log)
              /\ Len(ix.full) = Len(ix.bytes) => ReadBefore(ix.full, ix.fed)
  <2>1. Len(ix.fed) = Len(ix.bytes)
    BY <1>2, <1>6, <1>8, <1>10
  <2> QED
    BY <2>1 DEF HeaderOf
<1>11. ASSUME Len(n.full) = Len(n.bytes)
       PROVE  ReadBefore(n.full, log) /\ ReadBefore(n.full, n.header)
  <2>1. ReadBefore(n.full, log)
    BY <1>1, <1>5, <1>9, <1>11, JoinedReads
  <2>2. ReadBefore(n.full, n.header)
    <3>1. SUFFICES ASSUME NEW half \in 1..(Len(ix.built) + Len(block)), half <= Len(ix.header)
                   PROVE  n.built[half] <= ix.header[half]
      BY <1>5, <1>7 DEF ReadBefore
    <3>2. half \in 1..Len(ix.built) /\ half <= Len(ix.built)
      BY <1>1, <1>2, <1>9, <1>11, <3>1
    <3>3. ix.built[half] <= ix.header[half]
      BY <1>9, <1>11, <3>1, <3>2 DEF ReadBefore
    <3> QED
      BY <1>7, <3>2, <3>3
  <2> QED
    BY <2>1, <2>2
<1>12. ASSUME Len(n.fed) = Len(n.bytes)
       PROVE  ReadBefore(n.fed, log) /\ (Len(n.full) = Len(n.bytes) => ReadBefore(n.full, n.fed))
  <2>1. ReadBefore(n.fed, log)
    BY <1>1, <1>5, <1>10, <1>12, JoinedReads
  <2>2. ASSUME Len(n.full) = Len(n.bytes)
        PROVE  ReadBefore(n.full, n.fed)
    <3>1. Len(ix.built) = Len(ix.fed) /\ ReadBefore(ix.built, ix.fed)
      BY <1>9, <1>10, <1>12, <2>2
    <3>2. ReadBefore(ix.built \o block, ix.fed \o block)
      BY <1>1, <1>3, <3>1, JoinedBoth
    <3> QED
      BY <1>5, <3>2
  <2> QED
    BY <2>1, <2>2
<1>13. HeaderOf(n, log)
  BY <1>5, <1>11, <1>12 DEF HeaderOf
<1>14. ASSUME HeaderFits(ix, log)
       PROVE  HeaderFits(n, log)
  <2>1. Prefix(n.header, log)
    BY <1>5, <1>14 DEF HeaderFits
  <2>2. ASSUME Len(n.fed) = Len(n.bytes), Len(n.header) # DigestBlock
        PROVE  Prefix(n.fed, log)
    <3>1. Len(ix.fed) = Len(ix.bytes) /\ Prefix(ix.fed, log)
      BY <1>5, <1>10, <1>14, <2>2 DEF HeaderFits
    <3>2. Prefix(ix.fed \o block, log)
      BY <1>1, <3>1, JoinedReads
    <3> QED
      BY <1>5, <3>2
  <2> QED
    BY <2>1, <2>2 DEF HeaderFits
<1> QED
  BY <1>4, <1>13, <1>14

\* recordHeaderAndTail(), where the header comes from: recorded before, the
\* bytes fed to the digests, or the Log File as it is now.
LEMMA CompletedHeader ==
    ASSUME NEW t \in Nat, NEW ix, Sized(ix, t), NEW log \in Written(t), HeaderOf(ix, log),
           NEW from \in Nat, NEW size \in 0..MaxSize, NEW modified \in Nat
    PROVE  LET n == Completed(ix, from, size, log, modified)
           IN  /\ HeaderOf(n, log) /\ HeaderFed(n)
               /\ HeaderFits(ix, log) => Prefix(n.header, log)
<1>1. PICK n : n = Completed(ix, from, size, log, modified)
  OBVIOUS
<1>2. PICK r : r = RecordHeaderAndTail(ix, from, size, log)
  OBVIOUS
<1>3. PICK end : end = Len(ix.bytes)
  OBVIOUS
<1>4. PICK offset : offset = TailOffset(end)
  OBVIOUS
<1>5. /\ ix.bytes \in Written(t)
      /\ ix.fed \in Written(t)
      /\ ix.full \in Written(t)
      /\ ix.header \in Written(t)
      /\ end \in Nat /\ Len(ix.fed) \in Nat /\ Len(log) \in Nat /\ size \in Nat /\ Len(ix.full) \in Nat
      /\ \A half \in 1..Len(log) : log[half] \in Nat
  BY <1>3, SizedFields, WrittenLength, WrittenNumbers, Bounds
<1>6. offset \in 0..end /\ (end > 0 => offset < end)
  BY <1>4, <1>5, TailFacts
<1>7. /\ \/ r.fed = ix.fed
         \/ r.fed = <<>>
         \/ /\ Len(log) >= end /\ Len(r.fed) = end - offset
            /\ \A half \in 1..(end - offset) : r.fed[half] = log[offset + half]
      /\ \/ Len(ix.header) = DigestBlock /\ r.header = ix.header
         \/ /\ Len(ix.header) # DigestBlock /\ Len(ix.fed) = end /\ r.fed = ix.fed
            /\ Len(r.header) = Lesser(end, DigestBlock) /\ Prefix(r.header, ix.fed)
         \/ /\ Len(ix.header) # DigestBlock
            /\ Len(r.header) = Lesser(Lesser(end, DigestBlock), Len(log)) /\ Prefix(r.header, log)
      /\ Len(r.fed) = end /\ Len(r.header) # DigestBlock => r.header = r.fed
      /\ Sized(r, t)
  BY ONLY <1>2, <1>3, <1>4, <1>5, t \in Nat, Sized(ix, t), log \in Written(t), from \in Nat,
     RecordFacts, SMTT(60)
<1>8. /\ n.recorded /\ n.bytes = ix.bytes /\ n.built = ix.built /\ n.full = ix.full
      /\ n.header = r.header /\ n.fed = r.fed
  BY ONLY <1>1, <1>2, t \in Nat, Sized(ix, t), log \in Written(t), from \in Nat,
     size \in 0..MaxSize,
          modified \in Nat, CompletedFacts
<1>9. r.header \in Written(t) /\ r.fed \in Written(t) /\ Len(r.fed) \in Nat
  BY <1>7, SizedFields, WrittenLength
<1>10. /\ Len(ix.full) = end => ReadBefore(ix.full, log) /\ ReadBefore(ix.full, ix.header)
       /\ Len(ix.built) = end => ix.full = ix.built
       /\ ReadBefore(ix.header, log)
       /\ Len(ix.fed) = end =>
             ReadBefore(ix.fed, log) /\ (Len(ix.full) = end => ReadBefore(ix.full, ix.fed))
  BY <1>3 DEF HeaderOf
<1>11. ASSUME Len(r.fed) = end
       PROVE  ReadBefore(r.fed, log) /\ (Len(ix.full) = end => ReadBefore(ix.full, r.fed))
  <2>1. CASE r.fed = ix.fed
    BY <1>10, <1>11, <2>1
  <2>2. CASE r.fed = <<>>
    BY <1>5, <2>2, EmptyReads
  <2>3. CASE /\ Len(log) >= end /\ Len(r.fed) = end - offset
             /\ \A half \in 1..(end - offset) : r.fed[half] = log[offset + half]
    <3>1. offset = 0 /\ end - offset = end
      BY <1>5, <1>6, <1>11, <2>3
    <3>2. \A half \in 1..end : offset + half = half
      BY <1>5, <3>1
    <3>3. \A half \in 1..end : r.fed[half] = log[half]
      BY <2>3, <3>1, <3>2
    <3>4. Prefix(r.fed, log)
      BY <1>11, <2>3, <3>3 DEF Prefix
    <3> QED
      BY <1>5, <1>9, <1>10, <3>4, PrefixReads
  <2> QED
    BY <1>7, <2>1, <2>2, <2>3
<1>12. ReadBefore(r.header, log) /\ (Len(ix.full) = end => ReadBefore(ix.full, r.header))
  <2>1. CASE r.header = ix.header
    BY <1>10, <2>1
  <2>2. CASE Len(ix.fed) = end /\ Prefix(r.header, ix.fed)
    BY <1>5, <1>9, <1>10, <2>2, PrefixReads
  <2>3. CASE Prefix(r.header, log)
    BY <1>5, <1>9, <1>10, <2>3, PrefixReads
  <2> QED
    BY <1>7, <2>1, <2>2, <2>3
<1>13. HeaderOf(n, log)
  BY <1>3, <1>8, <1>10, <1>11, <1>12 DEF HeaderOf
<1>14. HeaderFed(n)
  BY <1>3, <1>7, <1>8 DEF HeaderFed
<1>15. ASSUME HeaderFits(ix, log)
       PROVE  Prefix(r.header, log)
  <2>1. CASE r.header = ix.header
    BY <1>15, <2>1 DEF HeaderFits
  <2>2. CASE Len(ix.header) # DigestBlock /\ Len(ix.fed) = end /\ Prefix(r.header, ix.fed)
    <3>1. Prefix(ix.fed, log)
      BY <1>3, <1>15, <2>2 DEF HeaderFits
    <3> QED
      BY <1>5, <1>9, <2>2, <3>1, PrefixReads
  <2> QED
    BY <1>7, <2>1, <2>2
<1> QED
  BY <1>1, <1>8, <1>13, <1>14, <1>15

LEMMA EntryHeader ==
    ASSUME NEW t \in Nat, NEW ix, Sized(ix, t), NEW log \in Written(t), HeaderOf(ix, log)
    PROVE  HeaderOf(Entry(ix), log) /\ Entry(ix).fed = <<>>
<1>1. PICK n : n = Entry(ix)
  OBVIOUS
<1>2. /\ n.built = <<>> /\ n.fed = <<>> /\ n.bytes = ix.bytes /\ n.full = ix.full /\ n.header = ix.header
  BY <1>1, EntryFacts
<1>3. Len(ix.bytes) \in Nat /\ ix.full \in Written(t) /\ Len(ix.full) <= Len(ix.bytes) /\ Len(<<>>) = 0
      /\ Len(ix.full) \in Nat /\ ((ix.full = <<>>) <=> (Len(ix.full) = 0))
  BY SizedFields, WrittenLength, EmptySeq
<1>4. ReadBefore(<<>>, log) /\ ReadBefore(ix.full, <<>>)
  BY <1>3, EmptyReads
<1>5. Len(n.built) = Len(n.bytes) => n.full = n.built
  BY <1>2, <1>3
<1> QED
  BY <1>1, <1>2, <1>4, <1>5 DEF HeaderOf

LEMMA ResumedHeader ==
    ASSUME NEW t \in Nat, NEW ix, Sized(ix, t), NEW log \in Written(t), NEW forced \in Known,
           ResumeOffset(ix) <= Len(log)
    PROVE  LET n == ResumedFromCache(ix, forced, log)
           IN  HeaderOf(n, log) /\ HeaderFed(n) /\ HeaderFits(n, log) /\ Len(n.bytes) <= Len(log)
<1>1. PICK n : n = ResumedFromCache(ix, forced, log)
  OBVIOUS
<1>2. PICK offset : offset = ResumeOffset(ix)
  OBVIOUS
<1>3. /\ Sized(n, t) /\ Len(n.bytes) = offset /\ n.full = n.built /\ Len(n.full) = offset
      /\ n.fed = <<>> /\ n.header = <<>> /\ ~n.recorded
      /\ \A half \in 1..offset : n.full[half] = log[half]
  BY <1>1, <1>2, ResumedFacts
<1>4. n.full \in Written(t)
  BY <1>3, SizedFields
<1>5. Prefix(n.full, log)
  BY <1>2, <1>3 DEF Prefix
<1>6. ReadBefore(n.full, log)
  BY <1>4, <1>5, PrefixReads
<1>7. ReadBefore(<<>>, log) /\ ReadBefore(n.full, <<>>) /\ Prefix(<<>>, log)
  BY <1>4, EmptyReads, EmptyPrefix
<1> QED
  BY <1>1, <1>2, <1>3, <1>6, <1>7 DEF HeaderOf, HeaderFed, HeaderFits

LEMMA LoadedHeader ==
    ASSUME NEW t \in Nat, NEW ix, Sized(ix, t), NEW log, HeaderOf(ix, log), NEW forced \in Known
    PROVE  /\ HeaderOf(LoadedFromCache(ix, forced), log)
           /\ ix.fed = <<>> /\ ix.bytes # <<>> => HeaderFed(LoadedFromCache(ix, forced))
<1>1. PICK n : n = LoadedFromCache(ix, forced)
  OBVIOUS
<1>2. /\ n.built = ix.built
      /\ n.fed = ix.fed
      /\ n.bytes = ix.bytes
      /\ n.full = ix.full
      /\ n.header = ix.header
  BY <1>1, LoadedFacts
<1>3. HeaderOf(n, log)
  BY <1>2 DEF HeaderOf
<1>4. Len(ix.bytes) \in Nat /\ ((ix.bytes = <<>>) <=> (Len(ix.bytes) = 0)) /\ Len(<<>>) = 0
  BY SizedFields, WrittenLength, EmptySeq
<1>5. ix.fed = <<>> /\ ix.bytes # <<>> => HeaderFed(n)
  BY <1>2, <1>4 DEF HeaderFed
<1> QED
  BY <1>1, <1>3, <1>5

\* Whatever becomes of the Log File, its header was taken of what was in it.
HeaderInv ==
    process = "up" =>
        /\ HeaderOf(index, logFile) /\ (run.at # "reading" => HeaderFed(index))
        /\ HeaderOf(cache, logFile) /\ cache.fed = <<>>

LEMMA HeaderWorker ==
    ASSUME TypeInv, RunInv, HeaderInv, Worker
    PROVE  HeaderInv'
<1> DEFINE Indexed == HeaderOf(index', logFile) /\ (run'.at # "reading" => HeaderFed(index'))
           Cached == HeaderOf(cache', logFile) /\ cache'.fed = <<>>
<1>1. process = "up" /\ logFile' = logFile
  BY WorkerFrame DEF OwnersUnchanged
<1>2. SUFFICES Indexed /\ Cached
  BY <1>1 DEF HeaderInv
<1>3. /\ ModificationTime \in Nat /\ logFile \in Written(ModificationTime) /\ run \in Runs
      /\ Sized(index, ModificationTime) /\ Sized(cache, ModificationTime)
      /\ Sized(index', ModificationTime) /\ Sized(cache', ModificationTime)
      /\ queue.running.encoding \in Known
      /\ run.from \in Nat /\ run.size \in 0..MaxSize
  <2>1. /\ ModificationTime \in Nat /\ logFile \in Written(ModificationTime) /\ run \in Runs
        /\ Sized(index, ModificationTime) /\ Sized(cache, ModificationTime) /\ Job(queue.running)
    BY TimeFacts DEF TypeInv, DiskTyped, JobsTyped, IndexTyped
  <2>2. run.from \in Nat /\ run.size \in 0..MaxSize
    BY <2>1, Bounds DEF Runs
  <2> QED
    BY <2>1, <2>2, WorkerSized, JobKinds
<1>4. /\ HeaderOf(index, logFile) /\ (run.at # "reading" => HeaderFed(index))
      /\ HeaderOf(cache, logFile) /\ cache.fed = <<>>
  BY <1>1 DEF HeaderInv
<1>5. ASSUME index' = Cleared \/ (\E encoding : index' = [Cleared EXCEPT !.forced = encoding])
                \/ index' = Dropped(Cleared)
      PROVE  Indexed
  BY <1>5, ClearedCoherent
<1>6. ASSUME UNCHANGED cache
      PROVE  Cached
  BY <1>4, <1>6
<1>7. ASSUME cache' = Cleared
      PROVE  Cached
  BY <1>7, ClearedCoherent
<1>8. ASSUME NEW outcome \in Loaded \cup Checked, EndRun(outcome)
      PROVE  run'.at = "ended" /\ run'.outcome = outcome
  BY <1>3, <1>8, EndRunFacts
<1>9. "Successful" \in Loaded \cup Checked /\ "Interrupted" \in Loaded \cup Checked /\ "Failed" \in Loaded \cup Checked
      /\ "Truncated" \in Loaded \cup Checked
  BY KindsApart
<1>10. CASE BeginFull
  <2>1. index' = [Cleared EXCEPT !.forced = queue.running.encoding] /\ cache' = Cleared
    BY <1>10, BeginFacts DEF BeginFull, NoEntry
  <2> QED
    BY <1>5, <1>7, <2>1
<1>11. CASE TakeCached
  <2>1. index' = LoadedFromCache(cache, queue.running.encoding) /\ UNCHANGED cache
    BY <1>11 DEF TakeCached
  <2>2. cache.bytes # <<>>
    BY <1>11, CachedFits DEF TakeCached, Sound
  <2>3. HeaderOf(index', logFile) /\ HeaderFed(index')
    BY <1>3, <1>4, <2>1, <2>2, LoadedHeader
  <2> QED
    BY <1>6, <2>1, <2>3
<1>12. CASE CheckCached
  <2>1. UNCHANGED cache /\ run.at = "queued" /\ (UNCHANGED index \/ BeginAnew)
    BY <1>12 DEF CheckCached, LeaveIndex
  <2>2. CASE UNCHANGED index
    BY <1>4, <1>6, <2>1, <2>2
  <2>3. CASE BeginAnew
    BY <1>5, <1>6, <2>1, <2>3, BeginFacts
  <2> QED
    BY <2>1, <2>2, <2>3
<1>13. CASE ResumeCached
  <2>1. UNCHANGED cache /\ run.at = "resuming"
    BY <1>13 DEF ResumeCached, LeaveIndex
  <2>2. CASE UNCHANGED index
    BY <1>4, <1>6, <2>1, <2>2
  <2>3. CASE BeginAnew
    BY <1>5, <1>6, <2>1, <2>3, BeginFacts
  <2>4. ASSUME index' = ResumedFromCache(cache, queue.running.encoding, logFile),
               ~(ResumeOffset(cache) > 0) \/ Len(logFile) >= ResumeOffset(cache)
        PROVE  Indexed /\ Cached
    <3>1. ResumeOffset(cache) <= Len(logFile)
      <4>1. ResumeOffset(cache) \in 0..Len(cache.bytes) /\ Len(cache.bytes) \in Nat /\ Len(logFile) \in Nat
        BY <1>3, ResumeFacts, SizedFields, WrittenLength
      <4> QED
        BY <2>4, <4>1
    <3>2. PICK n : n = ResumedFromCache(cache, queue.running.encoding, logFile)
      OBVIOUS
    <3>3. HeaderOf(n, logFile) /\ HeaderFed(n)
      BY <1>3, <3>1, <3>2, ResumedHeader
    <3> QED
      BY <1>6, <2>1, <2>4, <3>2, <3>3
  <2> QED
    BY <1>13, <2>2, <2>3, <2>4 DEF ResumeCached, LeaveIndex
<1>14. CASE BeginPartial
  <2>1. run.at = "queued" /\ UNCHANGED <<index, cache>>
    BY <1>14 DEF BeginPartial
  <2> QED
    BY <1>4, <1>6, <2>1
<1>15. CASE OpenMissing
  <2>1. index' = Dropped(Cleared) /\ (cache' = Cleared \/ UNCHANGED cache)
    BY <1>15 DEF OpenMissing, NoEntry
  <2> QED
    BY <1>5, <1>6, <1>7, <2>1
<1>16. CASE IndexBlock
  <2>1. PICK block \in Written(ModificationTime) :
           /\ index' = AddBlock(index, block)
           /\ Len(block) > 0 /\ Len(index.bytes) + Len(block) <= Len(logFile)
           /\ \A half \in 1..Len(block) : block[half] = logFile[Len(index.bytes) + half]
    BY <1>16, BlockFacts
  <2>2. run.at = "reading" /\ run' = run /\ UNCHANGED cache
    BY <1>16 DEF IndexBlock
  <2>3. HeaderOf(AddBlock(index, block), logFile)
    BY <1>3, <1>4, <2>1, BlockHeader
  <2> QED
    BY <1>6, <2>1, <2>2, <2>3
<1>17. ASSUME index' = Completed(index, run.from, run.size, logFile, ModificationTime), Save
       PROVE  Indexed /\ Cached
  <2>1. PICK n : n = Completed(index, run.from, run.size, logFile, ModificationTime)
    OBVIOUS
  <2>2. HeaderOf(n, logFile) /\ HeaderFed(n)
    BY <1>3, <1>4, <2>1, CompletedHeader
  <2>3. cache' = cache \/ cache' = Entry(index')
    BY <1>3, <1>17, SaveFacts
  <2>4. HeaderOf(index', logFile) /\ HeaderFed(index')
    BY <1>17, <2>1, <2>2
  <2>5. HeaderOf(Entry(index'), logFile) /\ Entry(index').fed = <<>>
    BY <1>3, <2>4, EntryHeader
  <2> QED
    BY <1>6, <2>3, <2>4, <2>5
<1>18. CASE EndIndex
  <2>1. CASE index' = Dropped(index) /\ UNCHANGED cache
    <3>1. index' = Dropped(Cleared)
      BY <2>1 DEF Dropped
    <3> QED
      BY <1>5, <1>6, <2>1, <3>1
  <2>2. CASE index' = Completed(index, run.from, run.size, logFile, ModificationTime) /\ Save
    BY <1>17, <2>2
  <2> QED
    BY <1>18, <2>1, <2>2, EndFacts
<1>19. CASE StopReading \/ ReadFails
  <2>1. run'.at = "reading" /\ run.at = "reading" /\ UNCHANGED <<index, cache>>
    BY <1>3, <1>19, StopFacts
  <2> QED
    BY <1>4, <1>6, <2>1
<1>20. CASE FailIndex
  BY <1>5, <1>6, <1>20 DEF FailIndex
<1>21. CASE RunCheck
  <2>1. /\ run.at = "queued" /\ UNCHANGED cache
        /\ index'.bytes = index.bytes /\ index'.recorded = index.recorded /\ index'.full = index.full
        /\ index'.header = index.header /\ index'.built = index.built /\ index'.fed = index.fed
    BY <1>21, CheckFacts DEF RunCheck
  <2>2. HeaderOf(index, logFile) /\ HeaderFed(index)
    BY <1>4, <2>1
  <2>3. HeaderOf(index', logFile) /\ HeaderFed(index')
    BY <2>1, <2>2 DEF HeaderOf, HeaderFed
  <2> QED
    BY <1>6, <2>1, <2>3
<1>22. CASE FailCheck
  <2>1. run.at = "queued" /\ UNCHANGED <<index, cache>>
    BY <1>22 DEF FailCheck
  <2> QED
    BY <1>4, <1>6, <2>1
<1> QED
  BY <1>10, <1>11, <1>12, <1>13, <1>14, <1>15, <1>16, <1>18, <1>19, <1>20, <1>21, <1>22 DEF Worker

LEMMA HeaderNext ==
    ASSUME TypeInv, RunInv, HeaderInv, [Next]_vars
    PROVE  HeaderInv'
<1>1. CASE UNCHANGED vars
  BY <1>1 DEF vars, diskVars, HeaderInv
<1>2. CASE Shutdown
  BY <1>2 DEF Shutdown, HeaderInv
<1>3. CASE OwnerStep
  <2>1. SUFFICES ASSUME process' = "up"
                 PROVE  HeaderInv'
    BY DEF HeaderInv
  <2>2. /\ process = "up" /\ UNCHANGED <<logFile, index, cache>>
        /\ (run'.at = "reading") <=> (run.at = "reading")
    BY <1>3, <2>1, OwnerLooks
  <2> QED
    BY <2>1, <2>2 DEF HeaderInv
<1>4. CASE Change
  <2>1. /\ ModificationTime \in Nat /\ logFile \in Written(ModificationTime)
        /\ logFile' \in Written(ModificationTime + 1)
        /\ UNCHANGED <<index, cache, run, process>>
        /\ Sized(index, ModificationTime) /\ Sized(cache, ModificationTime)
    BY <1>4, ChangedIs DEF TypeInv, IndexTyped
  <2>2. PICK keep : ChangedAt(logFile, logFile', keep, ModificationTime)
    BY <1>4, ChangedIs
  <2>3. ASSUME NEW ix, Sized(ix, ModificationTime), HeaderOf(ix, logFile)
        PROVE  HeaderOf(ix, logFile')
    <3>1. ix.full \in Written(ModificationTime) /\ ix.header \in Written(ModificationTime)
          /\ ix.fed \in Written(ModificationTime)
      BY <2>1, <2>3, SizedFields
    <3>2. \A x \in Written(ModificationTime) : ReadBefore(x, logFile) => ReadBefore(x, logFile')
      BY <2>1, <2>2, ReadBeforeLater
    <3> QED
      BY <2>3, <3>1, <3>2 DEF HeaderOf
  <2> QED
    BY <2>1, <2>3 DEF HeaderInv
<1> QED
  BY <1>1, <1>2, <1>3, <1>4, NextSteps, HeaderWorker

-----------------------------------------------------------------------------
(* That what is indexed is the Log File once nothing is left to look at it.  *)

\* The Log File is indexed, or it was rewritten while a job ran and has the
\* length of what is, and its header.
Fits ==
    /\ index.bytes = logFile \/ (rewritten /\ Len(logFile) = Len(index.bytes))
    /\ Prefix(index.header, logFile)

\* The last look at the Log File, if it is not to be looked at again, is of it
\* as it is: what goes on from there keeps to its length and its header, and
\* what ended there fits.
LookInv ==
    process = "up" /\ ~WillLook =>
        /\ run.at = "reading" \/ Grown => Len(index.bytes) <= Len(logFile) /\ HeaderFits(index, logFile)
        /\ run.at = "reading" /\ run.done /\ ~run.superseded /\ ~run.short => Len(index.bytes) >= Len(logFile)
        /\ run.at = "ended" /\ run.outcome = "Unchanged" => Fits
        /\ run.at = "ended" /\ run.outcome = "Successful" /\ ~run.short => Fits
        /\ run.at = "told" /\ queue.waiting.kind # "Partial" /\ lost = "Nothing" => Fits
        /\ run.at = "off" /\ lost = "Nothing" => Fits

\* indexFit() of an Index of the Log File: it fits as far as was compared.
LEMMA FitLooks ==
    ASSUME NEW t \in Nat, NEW ix, Sized(ix, t), NEW log \in Written(t), NEW everyByte \in BOOLEAN,
           HeaderOf(ix, log), IndexFit(ix, log, everyByte) # "Truncated"
    PROVE  /\ Len(ix.bytes) <= Len(log) /\ Prefix(ix.header, log)
           /\ HeaderFed(ix) => HeaderFits(ix, log)
           /\ IndexFit(ix, log, everyByte) = "Unchanged" =>
                 /\ Len(log) = Len(ix.bytes)
                 /\ Coherent(ix, log) /\ TailKept(ix) => ix.bytes = log
<1>1. ix.recorded /\ Len(ix.bytes) <= Len(log)
  BY FitLength
<1>2. Prefix(ix.header, log)
  BY FitHeader
<1>3. HeaderFed(ix) => HeaderFits(ix, log)
  BY <1>1, <1>2 DEF HeaderFed, HeaderFits
<1>4. IndexFit(ix, log, everyByte) = "Unchanged" => Len(log) = Len(ix.bytes)
  BY FitLength
<1>5. IndexFit(ix, log, everyByte) = "Unchanged" /\ Coherent(ix, log) /\ TailKept(ix) => ix.bytes = log
  BY FitBytes
<1> QED
  BY <1>1, <1>2, <1>3, <1>4, <1>5

LEMMA LookWorker ==
    ASSUME TypeInv, RunInv, BytesInv, HeaderInv, LookInv, Worker
    PROVE  LookInv'
<1> DEFINE Goes == Len(index'.bytes) <= Len(logFile) /\ HeaderFits(index', logFile)
           Ends == /\ index'.bytes = logFile \/ (rewritten' /\ Len(logFile) = Len(index'.bytes))
                   /\ Prefix(index'.header, logFile)
           Going == /\ run'.at = "reading" \/ (RunCheck /\ run'.outcome = "DataAdded") => Goes
                    /\ run'.at = "reading" /\ run'.done /\ ~run'.superseded /\ ~run'.short
                          => Len(index'.bytes) >= Len(logFile)
           Ending == run'.at = "ended" =>
                        /\ run'.outcome = "Unchanged" => Ends
                        /\ run'.outcome = "Successful" /\ ~run'.short => Ends
<1>1. /\ process = "up" /\ logFile' = logFile /\ UNCHANGED <<queue, watched, unreported>>
      /\ BeginFull \/ UNCHANGED rewritten
  BY WorkerFrame DEF OwnersUnchanged
<1>2. /\ run.at \in {"queued", "resuming", "reading"}
      /\ run'.at \in {"resuming", "reading", "ended"}
      /\ run'.at = "ended" /\ ~(RunCheck \/ FailCheck) => run'.outcome \in Loaded
  BY WorkerRuns
<1>3. SUFFICES ASSUME ~WillLook'
               PROVE  Going /\ Ending
  <2>1. Grown' => RunCheck /\ run'.outcome = "DataAdded"
    BY WorkerGrown
  <2> QED
    BY <1>1, <1>2, <2>1 DEF LookInv, Fits
<1>4. /\ ModificationTime \in Nat /\ logFile \in Written(ModificationTime) /\ run \in Runs
      /\ Sized(index, ModificationTime) /\ Sized(cache, ModificationTime)
      /\ queue.running.encoding \in Known
      /\ run.from \in Nat /\ run.size \in 0..MaxSize
      /\ Len(logFile) \in Nat /\ Len(index.bytes) \in Nat /\ Len(cache.bytes) \in Nat
      /\ index.bytes \in Written(ModificationTime)
  <2>1. /\ ModificationTime \in Nat /\ logFile \in Written(ModificationTime) /\ run \in Runs
        /\ Sized(index, ModificationTime) /\ Sized(cache, ModificationTime) /\ Job(queue.running)
    BY TimeFacts DEF TypeInv, DiskTyped, JobsTyped, IndexTyped
  <2>2. run.from \in Nat /\ run.size \in 0..MaxSize
    BY <2>1, Bounds DEF Runs
  <2>3. index.bytes \in Written(ModificationTime) /\ cache.bytes \in Written(ModificationTime)
    BY <2>1, SizedFields
  <2> QED
    BY <2>1, <2>2, <2>3, WrittenLength, JobKinds
<1>5. /\ HeaderOf(index, logFile) /\ (run.at # "reading" => HeaderFed(index))
      /\ HeaderOf(cache, logFile) /\ cache.fed = <<>>
  BY <1>1 DEF HeaderInv
<1>6. ~rewritten => /\ Coherent(index, logFile) /\ (run.at # "reading" => TailKept(index))
                    /\ Coherent(cache, logFile) /\ TailKept(cache)
                    /\ run.at = "reading" => Prefix(index.bytes, logFile)
  BY <1>1 DEF BytesInv
<1>7. ASSUME run.at = "reading" \/ queue.running.kind = "Partial"
      PROVE  ~WillLook
  BY <1>1, <1>2, <1>3, <1>7, KindsApart DEF WillLook, JobsLook
<1>8. ASSUME run.at = "reading"
      PROVE  /\ Len(index.bytes) <= Len(logFile) /\ HeaderFits(index, logFile)
             /\ run.done /\ ~run.superseded /\ ~run.short => Len(index.bytes) >= Len(logFile)
  BY <1>1, <1>7, <1>8 DEF LookInv
<1>9. ASSUME index' = Cleared \/ (\E encoding : index' = [Cleared EXCEPT !.forced = encoding])
                \/ index' = Dropped(Cleared)
      PROVE  Goes /\ index'.bytes = <<>> /\ Prefix(index'.header, logFile)
  <2>1. index'.bytes = <<>> /\ index'.header = <<>> /\ index'.fed = <<>> /\ ~index'.recorded
    BY <1>9, ClearedCoherent
  <2>2. Prefix(<<>>, logFile) /\ Len(<<>>) = 0
    BY <1>4, EmptyPrefix, EmptySeq
  <2> QED
    BY <1>4, <2>1, <2>2 DEF HeaderFits
<1>10. ASSUME NEW outcome \in Loaded \cup Checked, EndRun(outcome)
       PROVE  run'.at = "ended" /\ run'.outcome = outcome
  BY <1>4, <1>10, EndRunFacts
<1>11. /\ "Successful" \in Loaded \cup Checked /\ "Interrupted" \in Loaded \cup Checked
       /\ "Failed" \in Loaded \cup Checked /\ "Truncated" \in Loaded \cup Checked
  BY KindsApart
<1>12. RunCheck \/ FailCheck => run'.at = "ended" /\ run'.outcome \in Checked /\ queue.running.kind = "Check"
  BY WorkerRuns
<1>13. ASSUME BeginAnew, ~run.done
       PROVE  Going /\ Ending
  <2>1. index' = [Cleared EXCEPT !.forced = queue.running.encoding] /\ run'.at = "reading" /\ run'.done = run.done
    BY <1>13, BeginFacts
  <2> QED
    BY <1>9, <1>13, <2>1
<1>14. ASSUME run'.at = "ended", run'.outcome \in {"Interrupted", "Failed"}
       PROVE  Going /\ Ending
  BY <1>14
<1>15. CASE BeginFull
  BY <1>13, <1>15 DEF BeginFull, RunInv
<1>16. CASE TakeCached
  <2>1. /\ index' = LoadedFromCache(cache, queue.running.encoding) /\ CachedFit = "Unchanged"
        /\ run'.at = "ended" /\ run'.outcome = "Successful"
    BY <1>10, <1>11, <1>16 DEF TakeCached
  <2>2. index'.bytes = cache.bytes /\ index'.header = cache.header
    <3>1. PICK n : n = LoadedFromCache(cache, queue.running.encoding)
      OBVIOUS
    <3>2. ModificationTime \in Nat /\ Sized(cache, ModificationTime) /\ queue.running.encoding \in Known
      BY <1>4
    <3>3. n.bytes = cache.bytes /\ n.header = cache.header
      BY <3>1, <3>2, LoadedFacts
    <3> QED
      BY <2>1, <3>1, <3>3
  <2>3. PICK everyByte \in BOOLEAN : CachedFit = IndexFit(cache, logFile, everyByte)
    BY <2>1, CachedFits
  <2>4. IndexFit(cache, logFile, everyByte) = "Unchanged"
    BY <2>1, <2>3
  <2>5. /\ Prefix(cache.header, logFile) /\ Len(logFile) = Len(cache.bytes)
        /\ Coherent(cache, logFile) /\ TailKept(cache) => cache.bytes = logFile
    BY <1>4, <1>5, <2>4, FitLooks
  <2>6. rewritten' = rewritten
    BY <1>16 DEF TakeCached, workerUnchanged, cachedUnchanged
  <2>7. Ends
    BY <1>6, <2>2, <2>5, <2>6
  <2> QED
    BY <2>1, <2>7
<1>17. CASE CheckCached
  <2>1. CASE run' = [run EXCEPT !.at = "resuming"]
    <3>1. run'.at = "resuming"
      BY <1>4, <2>1 DEF Runs
    <3> QED
      BY <1>12, <3>1
  <2>2. CASE EndRun("Interrupted")
    BY <1>10, <1>11, <1>14, <2>2
  <2>3. ~run.done
    BY <1>17 DEF CheckCached, LeaveIndex, RunInv
  <2> QED
    BY <1>13, <1>17, <2>1, <2>2, <2>3 DEF CheckCached, LeaveIndex
<1>18. CASE ResumeCached
  <2>1. ~run.done
    BY <1>18 DEF ResumeCached, LeaveIndex, RunInv
  <2>2. CASE EndRun("Interrupted")
    BY <1>10, <1>11, <1>14, <2>2
  <2>3. ASSUME index' = ResumedFromCache(cache, queue.running.encoding, logFile),
               run' = [run EXCEPT !.at = "reading", !.from = ResumeOffset(cache), !.size = Len(logFile)],
               ~(ResumeOffset(cache) > 0) \/ Len(logFile) >= ResumeOffset(cache)
        PROVE  Going /\ Ending
    <3>1. ResumeOffset(cache) <= Len(logFile)
      <4>1. ResumeOffset(cache) \in 0..Len(cache.bytes)
        BY <1>4, ResumeFacts
      <4> QED
        BY <1>4, <2>3, <4>1
    <3>2. PICK n : n = ResumedFromCache(cache, queue.running.encoding, logFile)
      OBVIOUS
    <3>3. HeaderFits(n, logFile) /\ Len(n.bytes) <= Len(logFile)
      BY <1>4, <3>1, <3>2, ResumedHeader
    <3>4. run'.at = "reading" /\ run'.done = run.done
      BY <1>4, <2>3 DEF Runs
    <3> QED
      BY <2>3, <2>1, <3>2, <3>3, <3>4
  <2> QED
    BY <1>13, <1>18, <2>2, <2>3, <2>1 DEF ResumeCached, LeaveIndex
<1>19. CASE BeginPartial
  <2>1. /\ run.at = "queued" /\ queue.running.kind = "Partial" /\ UNCHANGED index /\ run'.at = "reading"
        /\ run'.done = run.done
    BY <1>4, <1>19 DEF BeginPartial, Runs
  <2>2. ~run.done
    BY <2>1 DEF RunInv
  <2>3. Grown /\ ~WillLook
    BY <1>7, <2>1 DEF Grown
  <2>4. Len(index.bytes) <= Len(logFile) /\ HeaderFits(index, logFile)
    BY <1>1, <2>3 DEF LookInv
  <2> QED
    BY <2>1, <2>4, <2>2
<1>20. CASE OpenMissing
  <2>1. index' = Dropped(Cleared) /\ logFile = <<>> /\ run'.at = "ended" /\ run'.outcome \in Loaded
    <3>1. index' = Dropped(Cleared) /\ logFile = <<>> /\ (EndRun("Interrupted") \/ EndRun("Successful"))
      BY <1>20 DEF OpenMissing
    <3> QED
      BY <1>10, <1>11, <3>1, KindsApart
  <2> QED
    BY <1>9, <2>1, KindsApart
<1>21. CASE IndexBlock
  <2>1. PICK block \in Written(ModificationTime) :
           /\ index' = AddBlock(index, block)
           /\ Len(block) > 0 /\ Len(index.bytes) + Len(block) <= Len(logFile)
           /\ \A half \in 1..Len(block) : block[half] = logFile[Len(index.bytes) + half]
    BY <1>21, BlockFacts
  <2>2. run.at = "reading" /\ run' = run /\ ~run.done
    BY <1>21 DEF IndexBlock
  <2>3. HeaderFits(index', logFile)
    <3>1. PICK n : n = AddBlock(index, block)
      OBVIOUS
    <3>2. HeaderFits(n, logFile)
      BY <1>4, <1>5, <1>8, <2>1, <2>2, <3>1, BlockHeader
    <3> QED
      BY <2>1, <3>1, <3>2
  <2>4. Len(index'.bytes) <= Len(logFile)
    <3>1. Len(block) \in Nat /\ Len(logFile) <= MaxSize /\ block \in Seq(1..ModificationTime)
          /\ index.bytes \in Seq(1..ModificationTime)
      BY <1>4, WrittenLength DEF Written
    <3>2. Len(index.bytes) + Len(block) <= MaxSize
      BY <1>4, <2>1, <3>1, Bounds
    <3>3. index'.bytes = index.bytes \o block
      BY <1>4, <2>1, <3>2, AddBlockFacts, SMTT(60)
    <3>4. Len(index.bytes \o block) = Len(index.bytes) + Len(block)
      BY <3>1, ConcatProperties
    <3> QED
      BY <2>1, <3>3, <3>4
  <2> QED
    BY <2>2, <2>3, <2>4
<1>22. ASSUME index' = Completed(index, run.from, run.size, logFile, ModificationTime), run.at = "reading",
              Len(index.bytes) >= Len(logFile), UNCHANGED rewritten
       PROVE  Ends
  <2>1. PICK n : n = Completed(index, run.from, run.size, logFile, ModificationTime)
    OBVIOUS
  <2>2. n.bytes = index.bytes
    <3>1. ModificationTime \in Nat /\ Sized(index, ModificationTime) /\ logFile \in Written(ModificationTime)
          /\ run.from \in Nat /\ run.size \in 0..MaxSize
      BY <1>4
    <3> QED
      BY <2>1, <3>1, CompletedFacts
  <2>3. Prefix(n.header, logFile)
    BY <1>4, <1>5, <1>8, <1>22, <2>1, CompletedHeader
  <2>4. Len(logFile) = Len(index.bytes)
    BY <1>4, <1>8, <1>22
  <2>5. ~rewritten => index.bytes = logFile
    <3>1. ~rewritten => Prefix(index.bytes, logFile)
      BY <1>6, <1>22
    <3>2. Len(logFile) <= Len(index.bytes)
      BY <1>4, <2>4
    <3> QED
      BY <1>4, <3>1, <3>2, PrefixWhole
  <2> QED
    BY <1>22, <2>1, <2>2, <2>3, <2>4, <2>5
<1>23. CASE EndIndex
  <2>1. CASE EndRun("Interrupted")
    BY <1>10, <1>11, <1>14, <2>1
  <2>2. CASE /\ index' = Completed(index, run.from, run.size, logFile, ModificationTime) /\ EndRun("Successful")
             /\ ~run.superseded
    <3>1. run.at = "reading" /\ run.done /\ UNCHANGED rewritten
      BY <1>23, EndFacts
    <3>2. run'.at = "ended" /\ run'.outcome = "Successful" /\ run'.short = run.short
      BY <1>4, <1>11, <2>2, EndRunFacts
    <3>3. CASE ~run.short
      <4>1. Len(index.bytes) >= Len(logFile)
        BY <1>8, <2>2, <3>1, <3>3
      <4>2. Ends
        BY <1>22, <2>2, <3>1, <4>1
      <4> QED
        BY <3>2, <4>2
    <3> QED
      BY <3>2, <3>3
  <2> QED
    BY <1>23, <2>1, <2>2, EndFacts
<1>24. CASE StopReading \/ ReadFails
  <2>1. /\ run.at = "reading" /\ run'.at = "reading" /\ index' = index
        /\ run'.superseded = run.superseded
        /\ (run'.short \/ run.superseded \/ Len(index.bytes) >= Len(logFile))
    BY <1>4, <1>24, StopFacts
  <2>2. ~RunCheck
    BY <2>1 DEF RunCheck
  <2>3. Goes
    BY <1>8, <2>1 DEF HeaderFits
  <2>4. ~run'.superseded /\ ~run'.short => Len(index'.bytes) >= Len(logFile)
    BY ONLY <2>1
  <2>5. run'.at # "ended"
    BY <2>1
  <2> QED
    BY ONLY <2>2, <2>3, <2>4, <2>5, Zenon
<1>25. CASE FailIndex
  BY <1>10, <1>11, <1>14, <1>25 DEF FailIndex
<1>26. CASE RunCheck
  <2>1. /\ run'.at = "ended" /\ run.at = "queued" /\ UNCHANGED rewritten
        /\ index'.bytes = index.bytes /\ index'.header = index.header /\ index'.fed = index.fed
        /\ index'.recorded = index.recorded
    BY <1>26, CheckFacts DEF RunCheck, workerUnchanged, cachedUnchanged
  <2>2. run'.outcome \in Checked
    BY <1>12, <1>26
  <2>3. PICK everyByte \in BOOLEAN : run'.outcome = IndexFit(index, logFile, everyByte)
    BY <1>26, CheckFits
  <2>4. run'.outcome # "Truncated"
    BY <1>3, <2>1 DEF WillLook
  <2>5. /\ Len(index.bytes) <= Len(logFile) /\ Prefix(index.header, logFile)
        /\ HeaderFits(index, logFile)
        /\ run'.outcome = "Unchanged" => /\ Len(logFile) = Len(index.bytes)
                                         /\ ~rewritten => index.bytes = logFile
    <3>1. IndexFit(index, logFile, everyByte) # "Truncated"
      BY <2>3, <2>4
    <3>2. /\ Len(index.bytes) <= Len(logFile) /\ Prefix(index.header, logFile)
          /\ HeaderFed(index) => HeaderFits(index, logFile)
          /\ IndexFit(index, logFile, everyByte) = "Unchanged" =>
                /\ Len(logFile) = Len(index.bytes)
                /\ Coherent(index, logFile) /\ TailKept(index) => index.bytes = logFile
      BY <1>4, <1>5, <3>1, FitLooks
    <3> QED
      BY <1>5, <1>6, <2>1, <2>3, <3>2
  <2>6. HeaderFits(index', logFile)
    BY <2>1, <2>5 DEF HeaderFits
  <2>7. run'.outcome # "Successful"
    BY <2>2, KindsApart
  <2> QED
    BY <2>1, <2>5, <2>6, <2>7
<1>27. CASE FailCheck
  <2>1. run'.at = "ended" /\ run'.outcome = "Truncated"
    BY <1>10, <1>11, <1>27 DEF FailCheck
  <2> QED
    BY <1>3, <2>1 DEF WillLook
<1> QED
  BY <1>15, <1>16, <1>17, <1>18, <1>19, <1>20, <1>21, <1>23, <1>24, <1>25, <1>26, <1>27 DEF Worker

LEMMA LookNext ==
    ASSUME TypeInv, RunInv, BytesInv, HeaderInv, LookInv, [Next]_vars
    PROVE  LookInv'
<1>1. CASE UNCHANGED vars
  BY <1>1 DEF vars, diskVars, LookInv, Grown, WillLook, JobsLook, Fits
<1>2. CASE Shutdown
  BY <1>2 DEF Shutdown, LookInv
<1>3. CASE OwnerStep
  <2>1. SUFFICES ASSUME process' = "up", ~WillLook'
                 PROVE  LookInv'
    BY DEF LookInv
  <2>2. /\ process = "up" /\ UNCHANGED <<logFile, index, cache, rewritten>> /\ ~WillLook
        /\ (run'.at = "reading") <=> (run.at = "reading")
        /\ Grown' => Grown
        /\ run'.at = "reading" => /\ run'.done = run.done /\ run'.short = run.short
                                  /\ run.superseded => run'.superseded
        /\ run'.at = "ended" => run.at = "ended" /\ run'.outcome = run.outcome /\ run'.short = run.short
        /\ run'.at \in {"ended", "off"} => UNCHANGED lost
        /\ run'.at = "told" =>
              /\ run.at = "ended"
              /\ lost' = "Nothing" /\ ~WillLook' /\ queue'.waiting.kind # "Partial" =>
                    \/ run.outcome = "Unchanged"
                    \/ run.outcome = "Successful" /\ ~run.short
        /\ run'.at = "off" => run.at = "off" \/ (run.at = "told" /\ queue.waiting.kind # "Partial")
    BY <1>3, <2>1, OwnerLooks
  <2>3. /\ run.at = "reading" \/ Grown => Len(index.bytes) <= Len(logFile) /\ HeaderFits(index, logFile)
        /\ run.at = "reading" /\ run.done /\ ~run.superseded /\ ~run.short => Len(index.bytes) >= Len(logFile)
        /\ run.at = "ended" /\ run.outcome = "Unchanged" => Fits
        /\ run.at = "ended" /\ run.outcome = "Successful" /\ ~run.short => Fits
        /\ run.at = "told" /\ queue.waiting.kind # "Partial" /\ lost = "Nothing" => Fits
        /\ run.at = "off" /\ lost = "Nothing" => Fits
    BY <2>2 DEF LookInv
  <2>4. Fits => Fits'
    BY <2>2 DEF Fits
  <2>5. run'.at = "reading" \/ Grown' => (Len(index.bytes) <= Len(logFile) /\ HeaderFits(index, logFile))'
    BY <2>2, <2>3
  <2>6. run'.at = "ended" /\ run'.outcome = "Unchanged" => Fits'
    BY <2>2, <2>3, <2>4
  <2>7. run'.at = "ended" /\ run'.outcome = "Successful" /\ ~run'.short => Fits'
    BY <2>2, <2>3, <2>4
  <2>8. run'.at = "told" /\ queue'.waiting.kind # "Partial" /\ lost' = "Nothing" => Fits'
    BY <2>1, <2>2, <2>3, <2>4
  <2>9. run'.at = "off" /\ lost' = "Nothing" => Fits'
    BY <2>2, <2>3, <2>4
  <2>10. run'.at = "reading" /\ run'.done /\ ~run'.superseded /\ ~run'.short => Len(index'.bytes) >= Len(logFile')
    <3>1. index' = index /\ logFile' = logFile
      BY <2>2
    <3> QED
      BY ONLY <2>2, <2>3, <3>1, Zenon
  <2> QED
    BY <2>5, <2>6, <2>7, <2>8, <2>9, <2>10 DEF LookInv
<1>4. CASE Change
  <2>1. WillLook'
    <3>1. UNCHANGED watched /\ unreported' = (unreported \/ watched)
      BY <1>4, ChangedIs
    <3>2. ~watched' \/ unreported'
      BY ONLY <3>1, Zenon
    <3> QED
      BY <3>2 DEF WillLook
  <2> QED
    BY <2>1 DEF LookInv
<1> QED
  BY <1>1, <1>2, <1>3, <1>4, NextSteps, LookWorker

LEMMA LookInit ==
    ASSUME Init
    PROVE  BytesInv /\ HeaderInv /\ LookInv
<1>1. /\ index = Cleared /\ run = Queued /\ rewritten = FALSE /\ ~watched
      /\ queue = [running |-> Attach(chosen), waiting |-> NoJob]
      /\ cache \in {NoEntry} \cup (IF UseIndexCache THEN FormerEntries ELSE {})
  BY DEF Init
<1>2. /\ run.at = "queued" /\ queue.waiting.kind = "None" /\ queue.running.kind = "Attach"
  BY <1>1, RunsAre DEF Attach, NoJob
<1>3. ~Grown /\ WillLook
  BY <1>1, <1>2 DEF Grown, WillLook
<1>4. /\ Coherent(index, logFile) /\ TailKept(index) /\ HeaderOf(index, logFile) /\ HeaderFed(index)
  BY <1>1, ClearedCoherent
<1>5. logFile \in Written(1) /\ \A half \in 1..Len(logFile) : logFile[half] = 1
  <2>1. ModificationTime = 1 /\ logFile \in Written(ModificationTime)
    BY TypeInit DEF TypeInv, DiskTyped
  <2>2. \A half \in 1..Len(logFile) : logFile[half] \in 1..1
    BY <2>1, WrittenFacts
  <2> QED
    BY <2>1, <2>2
<1>6. Coherent(cache, logFile) /\ TailKept(cache) /\ HeaderOf(cache, logFile) /\ cache.fed = <<>>
  <2>1. CASE cache = NoEntry
    BY <2>1, ClearedCoherent DEF NoEntry
  <2>2. CASE cache \in FormerEntries
    <3>1. /\ Sized(cache, 1) /\ cache.bytes # <<>> /\ Len(cache.bytes) <= Len(logFile)
          /\ cache.full = cache.bytes /\ cache.built = <<>> /\ cache.fed = <<>>
          /\ Len(cache.tail) = Len(cache.bytes) - TailOffset(Len(cache.bytes))
      BY <1>5, <2>2, FormerFacts
    <3>2. /\ cache.bytes \in Written(1) /\ cache.header \in Written(1) /\ cache.tail \in Written(1)
          /\ Len(cache.bytes) \in Nat /\ Len(cache.header) \in Nat /\ Len(logFile) \in Nat
          /\ Len(cache.tail) \in Nat /\ Len(cache.bytes) > 0 /\ Len(<<>>) = 0
          /\ ((cache.tail = <<>>) <=> (Len(cache.tail) = 0))
      <4>1. cache.bytes \in Written(1) /\ cache.header \in Written(1) /\ cache.tail \in Written(1)
        BY <3>1, SizedFields
      <4>2. \A x \in Written(1) : Len(x) \in Nat /\ ((x = <<>>) <=> (Len(x) = 0))
        BY WrittenLength
      <4> QED
        BY <1>5, <3>1, <4>1, <4>2, EmptySeq
    <3>3. ASSUME NEW x \in Written(1)
          PROVE  \A half \in 1..Len(x) : x[half] = 1
      <4>1. \A half \in 1..Len(x) : x[half] \in 1..1
        BY WrittenFacts
      <4> QED
        BY <4>1
    <3>4. Prefix(cache.bytes, logFile)
      BY <1>5, <3>1, <3>2, <3>3 DEF Prefix
    <3>5. HistoryOf(cache.bytes, logFile)
      BY <1>5, <3>2, <3>4, PrefixHistory
    <3>6. Coherent(cache, logFile)
      BY <3>1, <3>2, <3>5 DEF Coherent
    <3>7. TailKept(cache)
      <4>1. TailOffset(Len(cache.bytes)) \in Nat /\ TailOffset(Len(cache.bytes)) < Len(cache.bytes)
        <5>1. PICK n \in Nat : n = Len(cache.bytes)
          BY <3>2
        <5>2. TailOffset(n) \in 0..n /\ (n > 0 => TailOffset(n) < n)
          BY TailFacts
        <5> QED
          BY <3>2, <5>1, <5>2
      <4>2. Len(cache.tail) > 0 /\ TailOffset(Len(cache.bytes)) + Len(cache.tail) = Len(cache.bytes)
        BY <3>1, <3>2, <4>1
      <4>3. cache.tail[Len(cache.tail)] = 1 /\ cache.bytes[Len(cache.bytes)] = 1
        BY <3>2, <3>3, <4>2
      <4> QED
        BY <3>2, <4>2, <4>3 DEF TailKept
    <3>8. HeaderOf(cache, logFile)
      <4>1. ReadBefore(cache.bytes, logFile) /\ ReadBefore(cache.bytes, cache.header)
            /\ ReadBefore(cache.header, logFile)
        BY <1>5, <3>2, <3>3 DEF ReadBefore
      <4>2. ReadBefore(<<>>, logFile)
        BY <1>5, EmptyReads
      <4> QED
        BY <3>1, <3>2, <4>1, <4>2 DEF HeaderOf
    <3> QED
      BY <3>1, <3>6, <3>7, <3>8
  <2> QED
    BY <1>1, <2>1, <2>2
<1> QED
  BY <1>1, <1>2, <1>3, <1>4, <1>6 DEF BytesInv, HeaderInv, LookInv

\* A Log File whose changes the watcher reported has exactly its bytes
\* indexed once no job runs and no run was lost, whatever changed while a job
\* ran, whatever arrived meanwhile and whatever cached Index was taken or gone
\* on from; only one rewritten while a job ran may pass for what is indexed,
\* and then it has its length and its header (checkFileChangesFinished(),
\* indexFit(), the job rule).
THEOREM SettledIsIndexedHolds == Spec => []SettledIsIndexed
<1> DEFINE Inv == TypeInv /\ RunInv /\ BytesInv /\ HeaderInv /\ LookInv
<1>1. Init => Inv
  BY TypeInit, RunInit, LookInit
<1>2. Inv /\ [Next]_vars => Inv'
  BY TypeNext, RunNext, BytesNext, HeaderNext, LookNext
<1>3. Inv => SettledIsIndexed
  <2>1. SUFFICES ASSUME Inv, Quiet, watched, ~unreported, lost = "Nothing"
                 PROVE  index.bytes = logFile \/ PassesForIndexed
    BY DEF SettledIsIndexed
  <2>2. process = "up" /\ run.at = "off" /\ queue.waiting = NoJob
    BY <2>1 DEF Quiet, TypeInv, JobsTyped
  <2>3. ~WillLook
    BY <2>1, <2>2, JobsAre DEF WillLook, JobsLook, FullKinds
  <2>4. Fits
    BY <2>1, <2>2, <2>3 DEF LookInv
  <2>5. /\ ModificationTime \in Nat /\ index.header \in Written(ModificationTime)
        /\ logFile \in Written(ModificationTime)
    BY <2>1, TimeFacts, SizedFields DEF TypeInv, DiskTyped, IndexTyped
  <2>6. Len(index.header) <= Len(logFile)
    BY <2>4 DEF Fits, Prefix
  <2>7. SubSeq(logFile, 1, Len(index.header)) = index.header
    BY <2>4, <2>5, <2>6, FirstBytes DEF Fits
  <2> QED
    BY <2>4, <2>7 DEF Fits, PassesForIndexed
<1> QED
  BY <1>1, <1>2, <1>3, PTL DEF Spec

-----------------------------------------------------------------------------
(* That the Log File is split into Log Lines as they are decoded.            *)

\* The Encoding the Log File is settled in once it was read, and whether a job
\* has it split so.
Final == FinalEncoding(chosen)
Splitted(job) == Splitting(job) = Splits[Final]

\* No job is still to read all of the Log File, or to start doing so.
Fresh == ~FullWaits /\ (IsFull => run.at \notin {"queued", "resuming"})

\* The Index of a Log File was split by its Encoding, the one forced or
\* detected, as the job asked for.
AsAsked ==
    /\ index.bytes # <<>> \/ index.recorded => index.guess = Detected
    /\ index.bytes # <<>> => Splits[index.split] = Splits[IndexEncoding(index)]
    /\ run.at = "reading" => index.guess \in {NoEncoding, Detected}
    /\ IsFull /\ (run.at = "reading" \/ (run.at = "ended" /\ index.recorded))
          => index.forced = queue.running.encoding

\* What was dropped or never indexed is empty.
SplitIndex ==
    /\ run.at # "reading" /\ ~index.recorded => index = Cleared \/ index = Dropped(Cleared)
    /\ ~unsettled /\ Fresh => AsAsked

\* The Encoding settled is the one chosen, or guessed, as of the last Index.
SplitSettled ==
    /\ settled # NoEncoding => display = settled
    /\ settled = NoEncoding => queue.running.kind = "Attach" /\ run.at # "told"
    /\ Steady => settled = EncodingOf(chosen)

\* The last job that reads all of the Log File has it split as it is settled,
\* and so does the Index once it did.
SplitJobs ==
    ~unsettled =>
        /\ FullWaits /\ settled = Final => Splitted(queue.waiting)
        /\ ~FullWaits /\ IsFull /\ run.at # "told" /\ settled = Final => Splitted(queue.running)
        /\ ~FullWaits /\ index.recorded /\ (Steady \/ queue.running.kind = "Partial")
              => Splits[settled] = Splits[IndexEncoding(index)]

SplitInv == process = "up" => SplitIndex /\ SplitSettled /\ SplitJobs

\* Of a Log File that was indexed, the Encoding settled is the one chosen or
\* detected, and where setDisplayEncoding() does not have it read again, the
\* Index is split so.
LEMMA SettledSplits ==
    ASSUME TypeInv, NEW choice \in Known, index.guess = Detected
    PROVE  /\ EncodingOf(choice) = FinalEncoding(choice)
           /\ IndexEncoding(index) = FinalEncoding(index.forced)
           /\ ~SplitsOtherwise(EncodingOf(choice)) => Splits[EncodingOf(choice)] = Splits[IndexEncoding(index)]
<1>1. Detected # NoEncoding
  BY Encoded, NoEncodingAssumption
<1>2. EncodingOf(choice) = FinalEncoding(choice) /\ IndexEncoding(index) = FinalEncoding(index.forced)
  BY <1>1 DEF EncodingOf, FinalEncoding, IndexEncoding
<1>3. IndexEncoding(index) # NoEncoding
  BY <1>1 DEF IndexEncoding
<1> QED
  BY <1>2, <1>3 DEF SplitsOtherwise

\* What a step of the worker does to the Encodings of the Index: a full run
\* begins anew, looks at a cached Index, leaves the Index of before, takes the
\* cached one or goes on from it; a run drops the Index; a Partial begins or a
\* Check ends; a block is added; no block is read any more; a run completes.
LEMMA SplitSteps ==
    ASSUME TypeInv, RunInv, Worker
    PROVE  \/ /\ IsFull /\ run'.at = "reading" /\ index' = [Cleared EXCEPT !.forced = queue.running.encoding]
           \/ IsFull /\ run.at = "queued" /\ run'.at = "resuming" /\ index' = index
           \/ IsFull /\ run'.at = "ended" /\ run.at # "reading" /\ index' = index /\ (unsettled' \/ FullWaits)
           \/ /\ IsFull /\ (unsettled' \/ ~CachedOtherwise)
              /\ (run'.at = "ended" /\ index'.recorded) \/ (run'.at = "reading" /\ ~index'.recorded)
              /\ index'.forced = queue.running.encoding
              /\ index'.guess = cache.guess /\ index'.split = cache.split
           \/ /\ run'.at = "ended" /\ (index' = Cleared \/ index' = Dropped(Cleared))
              /\ queue.running.kind \in IndexKinds
           \/ /\ run.at = "queued" /\ queue.running.kind \in {"Partial", "Check"} /\ run'.at \in {"reading", "ended"}
              /\ run'.at = "reading" => index.recorded
              /\ ~index.recorded => index' = index
              /\ index'.bytes = index.bytes /\ index'.split = index.split /\ index'.recorded = index.recorded
              /\ index'.guess = index.guess /\ index'.forced = index.forced
           \/ /\ run.at = "reading" /\ run'.at = "reading"
              /\ index'.forced = index.forced /\ index'.recorded = index.recorded
              /\ index'.guess = (IF index.guess = NoEncoding THEN Detected ELSE index.guess)
              /\ index'.split = (IF index.bytes # <<>> THEN index.split
                                 ELSE IF index.forced # NoEncoding THEN index.forced ELSE index'.guess)
           \/ run.at = "reading" /\ run'.at = "reading" /\ index' = index
           \/ /\ run.at = "reading" /\ run'.at = "ended"
              /\ index'.bytes = index.bytes /\ index'.forced = index.forced /\ index'.recorded
              /\ index'.guess = (IF index.guess = NoEncoding THEN Detected ELSE index.guess)
              /\ index.bytes # <<>> => index'.split = index.split
<1> DEFINE Begun == /\ IsFull /\ run'.at = "reading"
                    /\ index' = [Cleared EXCEPT !.forced = queue.running.encoding]
           Looked == IsFull /\ run.at = "queued" /\ run'.at = "resuming" /\ index' = index
           Left == IsFull /\ run'.at = "ended" /\ run.at # "reading" /\ index' = index /\ (unsettled' \/ FullWaits)
           Taken == /\ IsFull /\ (unsettled' \/ ~CachedOtherwise)
                    /\ (run'.at = "ended" /\ index'.recorded) \/ (run'.at = "reading" /\ ~index'.recorded)
                    /\ index'.forced = queue.running.encoding
                    /\ index'.guess = cache.guess /\ index'.split = cache.split
           Gone == /\ run'.at = "ended" /\ (index' = Cleared \/ index' = Dropped(Cleared))
                   /\ queue.running.kind \in IndexKinds
           Same == /\ run.at = "queued" /\ queue.running.kind \in {"Partial", "Check"}
                   /\ run'.at \in {"reading", "ended"}
                   /\ run'.at = "reading" => index.recorded
                   /\ ~index.recorded => index' = index
                   /\ index'.bytes = index.bytes /\ index'.split = index.split
                   /\ index'.recorded = index.recorded
                   /\ index'.guess = index.guess /\ index'.forced = index.forced
           Added == /\ run.at = "reading" /\ run'.at = "reading"
                    /\ index'.forced = index.forced /\ index'.recorded = index.recorded
                    /\ index'.guess = (IF index.guess = NoEncoding THEN Detected ELSE index.guess)
                    /\ index'.split = (IF index.bytes # <<>> THEN index.split
                                       ELSE IF index.forced # NoEncoding THEN index.forced ELSE index'.guess)
           Stopped == run.at = "reading" /\ run'.at = "reading" /\ index' = index
           Ended == /\ run.at = "reading" /\ run'.at = "ended"
                    /\ index'.bytes = index.bytes /\ index'.forced = index.forced /\ index'.recorded
                    /\ index'.guess = (IF index.guess = NoEncoding THEN Detected ELSE index.guess)
                    /\ index.bytes # <<>> => index'.split = index.split
           Step == Begun \/ Looked \/ Left \/ Taken \/ Gone \/ Same \/ Added \/ Stopped \/ Ended
<1>1. /\ ModificationTime \in Nat /\ logFile \in Written(ModificationTime) /\ run \in Runs
      /\ Sized(index, ModificationTime) /\ Sized(cache, ModificationTime)
      /\ run.from \in Nat /\ run.size \in 0..MaxSize
      /\ Len(logFile) <= MaxSize /\ Len(logFile) \in Nat
  <2>1. /\ ModificationTime \in Nat /\ logFile \in Written(ModificationTime) /\ run \in Runs
        /\ Sized(index, ModificationTime) /\ Sized(cache, ModificationTime)
    BY TimeFacts DEF TypeInv, DiskTyped, JobsTyped, IndexTyped
  <2>2. run.from \in Nat /\ run.size \in 0..MaxSize
    BY <2>1, Bounds DEF Runs
  <2> QED
    BY <2>1, <2>2, WrittenLength
<1>2. ASSUME NEW outcome \in Loaded \cup Checked, EndRun(outcome)
      PROVE  run'.at = "ended"
  BY <1>1, <1>2, EndRunFacts
<1>3. /\ "Successful" \in Loaded \cup Checked /\ "Interrupted" \in Loaded \cup Checked
      /\ "Failed" \in Loaded \cup Checked /\ "Truncated" \in Loaded \cup Checked
  BY KindsApart
<1>4. CASE BeginFull
  <2>1. Begun
    BY <1>4, BeginFacts DEF BeginFull
  <2> QED
    BY <2>1
<1>5. ASSUME LeaveIndex, IsFull, run.at # "reading"
      PROVE  Left
  <2>1. run'.at = "ended" /\ index' = index
    BY <1>2, <1>3, <1>5 DEF LeaveIndex
  <2>2. unsettled' \/ FullWaits
    BY <1>5, Zenon DEF LeaveIndex
  <2> QED
    BY <1>5, <2>1, <2>2
<1>6. CASE TakeCached
  <2>1. /\ IsFull /\ index' = LoadedFromCache(cache, queue.running.encoding) /\ EndRun("Successful")
        /\ CachedFit # "Truncated"
    BY <1>6 DEF TakeCached
  <2>2. cache.recorded
    BY <2>1, FitRecorded DEF CachedFit
  <2>3. unsettled' \/ ~CachedOtherwise
    BY <1>6, Zenon DEF TakeCached
  <2>4. PICK loaded : loaded = LoadedFromCache(cache, queue.running.encoding)
    OBVIOUS
  <2>5. /\ loaded.recorded = cache.recorded /\ loaded.forced = queue.running.encoding
        /\ loaded.guess = cache.guess /\ loaded.split = cache.split
    BY <1>1, <2>4 DEF LoadedFromCache, Sized, IndexOf
  <2>6. run'.at = "ended"
    BY <1>2, <1>3, <2>1
  <2>7. index' = loaded
    BY <2>1, <2>4
  <2>8. Taken
    BY <2>1, <2>2, <2>3, <2>5, <2>6, <2>7
  <2> QED
    BY <2>8
<1>7. CASE CheckCached
  <2>1. run.at = "queued" /\ IsFull
    BY <1>7 DEF CheckCached
  <2>2. CASE run' = [run EXCEPT !.at = "resuming"] /\ UNCHANGED index
    <3>1. Looked
      BY <1>1, <2>1, <2>2 DEF Runs
    <3> QED
      BY <3>1
  <2>3. CASE LeaveIndex
    BY <1>5, <2>1, <2>3
  <2>4. CASE BeginAnew
    <3>1. Begun
      BY <2>1, <2>4, BeginFacts
    <3> QED
      BY <3>1
  <2> QED
    BY <1>7, <2>2, <2>3, <2>4 DEF CheckCached
<1>8. CASE ResumeCached
  <2>1. run.at = "resuming" /\ IsFull
    BY <1>8 DEF ResumeCached, RunInv
  <2>2. CASE LeaveIndex
    BY <1>5, <2>1, <2>2
  <2>3. CASE BeginAnew
    <3>1. Begun
      BY <2>1, <2>3, BeginFacts
    <3> QED
      BY <3>1
  <2>4. CASE /\ index' = ResumedFromCache(cache, queue.running.encoding, logFile)
             /\ run' = [run EXCEPT !.at = "reading", !.from = ResumeOffset(cache), !.size = Len(logFile)]
             /\ unsettled' = (unsettled \/ CachedOtherwise)
    <3>1. PICK resumed : resumed = ResumedFromCache(cache, queue.running.encoding, logFile)
      OBVIOUS
    <3>2. /\ ~resumed.recorded /\ resumed.forced = queue.running.encoding
          /\ resumed.guess = cache.guess /\ resumed.split = cache.split
      BY <3>1 DEF ResumedFromCache, Cleared
    <3>3. run'.at = "reading"
      BY <1>1, <2>4 DEF Runs
    <3>4. unsettled' \/ ~CachedOtherwise
      BY <2>4, Zenon
    <3>5. index' = resumed
      BY <2>4, <3>1
    <3>6. Taken
      BY <2>1, <3>2, <3>3, <3>4, <3>5
    <3> QED
      BY <3>6
  <2> QED
    BY <1>8, <2>2, <2>3, <2>4 DEF ResumeCached
<1>9. CASE BeginPartial
  <2>1. /\ run.at = "queued" /\ queue.running.kind = "Partial" /\ run'.at = "reading" /\ UNCHANGED index
    BY <1>1, <1>9 DEF BeginPartial, Runs
  <2>2. index.recorded
    BY <2>1 DEF RunInv
  <2>3. Same
    BY <2>1, <2>2
  <2> QED
    BY <2>3
<1>10. CASE OpenMissing
  <2>1. index' = Dropped(Cleared) /\ run'.at = "ended" /\ queue.running.kind \in IndexKinds
    BY <1>2, <1>3, <1>10 DEF OpenMissing
  <2>2. Gone
    BY <2>1
  <2> QED
    BY <2>2
<1>11. CASE IndexBlock
  <2>1. PICK block \in Written(ModificationTime) :
           /\ index' = AddBlock(index, block)
           /\ Len(block) > 0 /\ Len(index.bytes) + Len(block) <= Len(logFile)
    BY <1>11, BlockFacts
  <2>2. run.at = "reading" /\ run'.at = "reading"
    BY <1>11 DEF IndexBlock
  <2>3. Len(index.bytes) + Len(block) <= MaxSize
    <3>1. Len(index.bytes) \in 0..MaxSize /\ Len(block) \in Nat
      BY <1>1, SizedFields, WrittenLength
    <3> QED
      BY <1>1, <2>1, <3>1, Bounds
  <2>4. PICK n : n = AddBlock(index, block)
    OBVIOUS
  <2>5. /\ n.forced = index.forced /\ n.recorded = index.recorded
        /\ n.guess = (IF index.guess = NoEncoding THEN Detected ELSE index.guess)
        /\ n.split = (IF index.bytes # <<>> THEN index.split
                      ELSE IF index.forced # NoEncoding THEN index.forced ELSE n.guess)
    BY <1>1, <2>3, <2>4, AddBlockFacts
  <2>6. index' = n
    BY <2>1, <2>4
  <2>7. Added
    BY <2>2, <2>5, <2>6
  <2> QED
    BY <2>7
<1>12. CASE StopReading \/ ReadFails
  <2>1. Stopped
    BY <1>1, <1>12, StopFacts
  <2> QED
    BY <2>1
<1>13. CASE EndIndex
  <2>1. run.at = "reading" /\ queue.running.kind \in IndexKinds
    BY <1>13, EndFacts DEF RunInv
  <2>2. CASE index' = Dropped(index) /\ EndRun("Interrupted")
    <3>1. index' = Dropped(Cleared) /\ run'.at = "ended"
      BY <1>2, <1>3, <2>2 DEF Dropped
    <3>2. Gone
      BY <2>1, <3>1
    <3> QED
      BY <3>2
  <2>3. CASE /\ index' = Completed(index, run.from, run.size, logFile, ModificationTime)
             /\ EndRun("Successful")
    <3>1. PICK n : n = Completed(index, run.from, run.size, logFile, ModificationTime)
      OBVIOUS
    <3>2. /\ n.bytes = index.bytes /\ n.forced = index.forced /\ n.recorded
          /\ n.guess = (IF index.guess = NoEncoding THEN Detected ELSE index.guess)
          /\ n.split = (IF index.split = NoEncoding THEN Detected ELSE index.split)
      BY ONLY <1>1, <3>1, CompletedFacts, SMTT(60)
    <3>3. index.bytes # <<>> => index.split # NoEncoding
      BY <1>1 DEF Sized
    <3>4. index' = n /\ run'.at = "ended"
      BY <1>2, <1>3, <2>3, <3>1
    <3>5. Ended
      BY <2>1, <3>2, <3>3, <3>4
    <3> QED
      BY <3>5
  <2> QED
    BY <1>13, <2>2, <2>3, EndFacts
<1>14. CASE FailIndex
  <2>1. Gone
    BY <1>2, <1>3, <1>14, KindsApart DEF FailIndex, RunInv, IsFull, IndexKinds
  <2> QED
    BY <2>1
<1>15. CASE RunCheck
  <2>1. /\ run'.at = "ended" /\ run.at = "queued" /\ queue.running.kind = "Check"
        /\ index'.bytes = index.bytes /\ index'.split = index.split /\ index'.recorded = index.recorded
        /\ index'.guess = index.guess /\ index'.forced = index.forced
    BY <1>15, CheckFacts
  <2>2. ~index.recorded => index' = index
    BY <1>15, FitRecorded DEF RunCheck
  <2>3. Same
    BY <2>1, <2>2
  <2> QED
    BY <2>3
<1>16. CASE FailCheck
  <2>1. /\ run'.at = "ended" /\ run.at = "queued" /\ UNCHANGED index
    BY <1>2, <1>3, <1>16 DEF FailCheck
  <2>2. queue.running.kind = "Check"
    BY <1>16, JobsAre DEF FailCheck
  <2>3. Same
    BY <2>1, <2>2
  <2> QED
    BY <2>3
<1>17. Step
  BY <1>4, <1>6, <1>7, <1>8, <1>9, <1>10, <1>11, <1>12, <1>13, <1>14, <1>15, <1>16 DEF Worker
<1> QED
  BY <1>17

LEMMA SplitWorker ==
    ASSUME TypeInv, RunInv, SplitInv, Worker
    PROVE  SplitInv'
<1>1. /\ process = "up" /\ UNCHANGED <<queue, display, chosen, settled, process>>
      /\ run.at # "told" /\ run'.at # "told"
  BY WorkerFrame, WorkerRuns DEF OwnersUnchanged
<1>2. ~unsettled' => ~unsettled
  BY ONLY Worker, WorkerFrame, Zenon
<1>3. SplitIndex /\ SplitSettled /\ SplitJobs
  BY <1>1 DEF SplitInv
<1>4. /\ queue.running.encoding \in Known /\ Detected # NoEncoding
      /\ queue.running.kind \in IndexKinds => IsFull \/ queue.running.kind = "Partial"
      /\ IsFull => queue.running.kind \in IndexKinds /\ queue.running.kind \notin {"Partial", "Check"}
  BY JobKinds, Encoded, NoEncodingAssumption, KindsApart DEF TypeInv, JobsTyped, IsFull, IndexKinds
<1>5. (IsFull' <=> IsFull) /\ (FullWaits' <=> FullWaits)
  BY <1>1 DEF IsFull, FullWaits
<1>6. ASSUME queue.running.kind \notin IndexKinds =>
                /\ index'.guess = index.guess /\ index'.forced = index.forced
                /\ index'.recorded = index.recorded,
             queue.running.kind = "Partial" /\ ~unsettled /\ ~FullWaits /\ index'.recorded =>
                index.recorded /\ IndexEncoding(index') = IndexEncoding(index),
             SplitIndex'
      PROVE  SplitInv'
  <2>1. (Steady' <=> Steady) /\ (Steady <=> queue.running.kind \notin IndexKinds)
    BY <1>1 DEF Steady
  <2>2. SplitSettled'
    BY <1>1, <1>3, <1>6, <2>1 DEF SplitSettled, EncodingOf
  <2>3. Steady => IndexEncoding(index') = IndexEncoding(index) /\ index'.recorded = index.recorded
    BY <1>6, <2>1 DEF IndexEncoding
  <2>4. SplitJobs'
    BY <1>1, <1>2, <1>3, <1>5, <1>6, <2>1, <2>3 DEF SplitJobs, Splitted, Splitting, Final
  <2> QED
    BY <1>6, <2>2, <2>4 DEF SplitInv
<1>7. ~unsettled /\ Fresh => AsAsked
  BY <1>3 DEF SplitIndex
<1>8. CASE IsFull /\ run'.at = "reading" /\ index' = [Cleared EXCEPT !.forced = queue.running.encoding]
  <2>1. /\ index'.bytes = <<>> /\ ~index'.recorded /\ index'.guess = NoEncoding
        /\ index'.forced = queue.running.encoding
    BY <1>8 DEF Cleared
  <2>2. SplitIndex'
    BY <1>1, <1>8, <2>1 DEF SplitIndex, AsAsked
  <2> QED
    BY <1>4, <1>6, <1>8, <2>1, <2>2
<1>9. CASE IsFull /\ run.at = "queued" /\ run'.at = "resuming" /\ index' = index
  <2>1. SplitIndex'
    BY <1>3, <1>5, <1>9 DEF SplitIndex, Fresh
  <2> QED
    BY <1>4, <1>6, <1>9, <2>1
<1>10. CASE IsFull /\ run'.at = "ended" /\ run.at # "reading" /\ index' = index /\ (unsettled' \/ FullWaits)
  <2>1. SplitIndex'
    BY <1>3, <1>5, <1>10 DEF SplitIndex, Fresh
  <2> QED
    BY <1>4, <1>6, <1>10, <2>1
<1>11. CASE /\ IsFull /\ (unsettled' \/ ~CachedOtherwise)
            /\ (run'.at = "ended" /\ index'.recorded) \/ (run'.at = "reading" /\ ~index'.recorded)
            /\ index'.forced = queue.running.encoding
            /\ index'.guess = cache.guess /\ index'.split = cache.split
  <2>1. ~unsettled' => /\ index'.guess = Detected
                       /\ Splits[index'.split] = Splits[FinalEncoding(queue.running.encoding)]
    BY <1>11 DEF CachedOtherwise, Splitting
  <2>2. ~unsettled' => IndexEncoding(index') = FinalEncoding(queue.running.encoding)
    BY <1>11, <2>1 DEF IndexEncoding, FinalEncoding
  <2>3. ~unsettled' => AsAsked'
    BY <1>1, <1>11, <2>1, <2>2 DEF AsAsked
  <2>4. SplitIndex'
    BY <1>11, <2>3 DEF SplitIndex
  <2> QED
    BY <1>4, <1>6, <1>11, <2>4
<1>12. CASE /\ run'.at = "ended" /\ (index' = Cleared \/ index' = Dropped(Cleared))
            /\ queue.running.kind \in IndexKinds
  <2>1. index'.bytes = <<>> /\ ~index'.recorded
    BY <1>12 DEF Cleared, Dropped
  <2>2. SplitIndex'
    BY <1>12, <2>1 DEF SplitIndex, AsAsked
  <2> QED
    BY <1>6, <1>12, <2>1, <2>2
<1>13. CASE /\ run.at = "queued" /\ queue.running.kind \in {"Partial", "Check"} /\ run'.at \in {"reading", "ended"}
            /\ run'.at = "reading" => index.recorded
            /\ ~index.recorded => index' = index
            /\ index'.bytes = index.bytes /\ index'.split = index.split /\ index'.recorded = index.recorded
            /\ index'.guess = index.guess /\ index'.forced = index.forced
  <2>1. ~IsFull /\ IndexEncoding(index') = IndexEncoding(index)
    BY <1>4, <1>13 DEF IndexEncoding
  <2>2. Fresh' => Fresh
    BY <1>5, <2>1 DEF Fresh
  <2>3. AsAsked /\ Fresh => AsAsked'
    BY <1>5, <1>13, <2>1 DEF AsAsked
  <2>4. SplitIndex'
    BY <1>2, <1>3, <1>13, <2>2, <2>3 DEF SplitIndex
  <2> QED
    BY <1>6, <1>13, <2>1, <2>4
\* The Index of a run under way.
<1>14. ASSUME run.at = "reading"
       PROVE  /\ queue.running.kind \in IndexKinds /\ (queue.running.kind = "Partial" => index.recorded)
              /\ Fresh' => Fresh
  <2>1. queue.running.kind \in IndexKinds /\ (queue.running.kind = "Partial" => index.recorded)
    BY <1>14 DEF RunInv
  <2> QED
    BY <1>5, <1>14, <2>1 DEF Fresh
<1>15. ASSUME run.at = "reading", index'.forced = index.forced,
              index'.guess = (IF index.guess = NoEncoding THEN Detected ELSE index.guess),
              (run'.at = "reading" /\ index'.recorded = index.recorded) \/ (run'.at = "ended" /\ index'.recorded),
              index'.bytes # <<>> => \/ index.bytes # <<>> /\ index'.split = index.split
                                     \/ index'.split = IF index.forced # NoEncoding THEN index.forced
                                                       ELSE index'.guess
       PROVE  SplitInv'
  <2>1. ~unsettled /\ Fresh =>
           /\ index.guess \in {NoEncoding, Detected} /\ index'.guess = Detected
           /\ index.recorded \/ index.bytes # <<>> => index.guess = Detected
    BY <1>7, <1>15 DEF AsAsked
  <2>2. ~unsettled /\ Fresh => (index'.bytes # <<>> => Splits[index'.split] = Splits[IndexEncoding(index')])
    <3>1. SUFFICES ASSUME ~unsettled, Fresh, index'.bytes # <<>>
                   PROVE  Splits[index'.split] = Splits[IndexEncoding(index')]
      OBVIOUS
    <3>2. CASE index.bytes # <<>> /\ index'.split = index.split
      <4>1. IndexEncoding(index') = IndexEncoding(index)
        BY <1>15, <2>1, <3>1, <3>2 DEF IndexEncoding
      <4> QED
        BY <1>7, <3>1, <3>2, <4>1 DEF AsAsked
    <3>3. CASE index'.split = IF index.forced # NoEncoding THEN index.forced ELSE index'.guess
      BY <1>15, <3>3 DEF IndexEncoding
    <3> QED
      BY <1>15, <3>1, <3>2, <3>3
  <2>3. ~unsettled /\ Fresh /\ IsFull => index'.forced = queue.running.encoding
    BY <1>7, <1>15 DEF AsAsked
  <2>4. ~unsettled' /\ Fresh' => AsAsked'
    <3>1. SUFFICES ASSUME ~unsettled', Fresh'
                   PROVE  AsAsked'
      OBVIOUS
    <3>2. ~unsettled /\ Fresh
      BY <1>2, <1>14, <1>15, <3>1
    <3> QED
      BY <1>1, <1>5, <2>1, <2>2, <2>3, <3>2 DEF AsAsked
  <2>5. SplitIndex'
    BY <1>15, <2>4 DEF SplitIndex
  <2>6. queue.running.kind = "Partial" /\ ~unsettled /\ ~FullWaits =>
           index.recorded /\ IndexEncoding(index') = IndexEncoding(index)
    <3>1. SUFFICES ASSUME queue.running.kind = "Partial", ~unsettled, ~FullWaits
                   PROVE  index.recorded /\ IndexEncoding(index') = IndexEncoding(index)
      OBVIOUS
    <3>2. Fresh
      BY <1>4, <3>1 DEF Fresh
    <3> QED
      BY <1>14, <1>15, <2>1, <3>1, <3>2 DEF IndexEncoding
  <2> QED
    BY <1>6, <1>14, <1>15, <2>5, <2>6
<1>16. CASE /\ run.at = "reading" /\ run'.at = "reading"
            /\ index'.forced = index.forced /\ index'.recorded = index.recorded
            /\ index'.guess = (IF index.guess = NoEncoding THEN Detected ELSE index.guess)
            /\ index'.split = (IF index.bytes # <<>> THEN index.split
                               ELSE IF index.forced # NoEncoding THEN index.forced ELSE index'.guess)
  BY <1>15, <1>16
<1>17. CASE run.at = "reading" /\ run'.at = "reading" /\ index' = index
  <2>1. AsAsked => AsAsked'
    BY <1>1, <1>5, <1>17 DEF AsAsked
  <2>2. SplitIndex'
    BY <1>2, <1>7, <1>14, <1>17, <2>1 DEF SplitIndex
  <2> QED
    BY <1>6, <1>17, <2>2
<1>18. CASE /\ run.at = "reading" /\ run'.at = "ended"
            /\ index'.bytes = index.bytes /\ index'.forced = index.forced /\ index'.recorded
            /\ index'.guess = (IF index.guess = NoEncoding THEN Detected ELSE index.guess)
            /\ index.bytes # <<>> => index'.split = index.split
  BY <1>15, <1>18
<1> QED
  BY <1>8, <1>9, <1>10, <1>11, <1>12, <1>13, <1>16, <1>17, <1>18, SplitSteps

\* The owner thread asks for a job that leaves what is to be read as it is, or
\* notes that the Log File is to be read again, while r is the run in flight.
LEMMA SplitAsked ==
    ASSUME JobsTyped, SplitInv, process = "up", UNCHANGED <<index, display, settled, chosen, process>>,
           NEW r \in Runs,
           (r.at = run.at /\ run.at # "told") \/ (r.at = "told" /\ run.at = "ended" /\ queue.running.kind = "Check"),
           \/ UNCHANGED queue /\ run' = r /\ (~unsettled' => ~unsettled)
           \/ \E job : /\ Job(job) /\ Enqueued(job, r) /\ job.kind \in {"Check", "Partial", "Automatic", "Explicit"}
                       /\ job.kind = "Partial" => queue.running.kind = "Check"
                       /\ unsettled' \/ (job.kind \in {"Check", "Partial"} /\ ~unsettled)
    PROVE  SplitInv'
<1>1. SplitIndex /\ SplitSettled /\ SplitJobs
  BY DEF SplitInv
<1>2. (r.at = "off") <=> (queue.running = NoJob)
  BY JobsAre DEF JobsTyped
<1>3. NoJob.kind = "None" /\ Queued.at = "queued" /\ ((run.at = "off") <=> (queue.running = NoJob))
  BY RunsAre DEF NoJob, JobsTyped
<1>4. \/ UNCHANGED queue /\ run' = r
      \/ \E job : /\ Job(job) /\ job.kind \in {"Check", "Partial", "Automatic", "Explicit"}
                  /\ job.kind = "Partial" => queue.running.kind = "Check"
                  /\ unsettled' \/ job.kind \in {"Check", "Partial"}
                  /\ \/ /\ queue.running = NoJob /\ queue'.running = job /\ queue'.waiting = NoJob
                        /\ run' = Queued
                     \/ /\ queue.running # NoJob /\ queue'.running = queue.running /\ run' = r
                        /\ queue'.waiting = IF Strength[job.kind] >= Strength[queue.waiting.kind]
                                            THEN job ELSE queue.waiting
  <2>1. ASSUME NEW job, Job(job), Enqueued(job, r), job.kind \in {"Check", "Partial", "Automatic", "Explicit"}
        PROVE  \/ /\ queue.running = NoJob /\ queue'.running = job /\ queue'.waiting = NoJob
                  /\ run' = Queued
               \/ /\ queue.running # NoJob /\ queue'.running = queue.running /\ run' = r
                  /\ queue'.waiting = IF Strength[job.kind] >= Strength[queue.waiting.kind]
                                      THEN job ELSE queue.waiting
    BY <1>2, <2>1, EnqueuedFacts
  <2> QED
    BY <2>1
<1>5. ~unsettled' => ~unsettled
  OBVIOUS
<1>6. run'.at = "reading" <=> run.at = "reading"
  BY <1>3, <1>4
<1>7. Steady' => Steady
  BY <1>3, <1>4, KindsApart DEF Steady
<1>8. SplitSettled'
  BY <1>1, <1>3, <1>4, <1>7, KindsApart DEF SplitSettled, EncodingOf
<1>9. SUFFICES ASSUME ~unsettled'
                PROVE  /\ FullWaits' <=> FullWaits
                       /\ IsFull' <=> IsFull
                       /\ FullWaits => queue'.waiting = queue.waiting
                       /\ IsFull => queue'.running = queue.running /\ run'.at = run.at
                       /\ queue'.running.kind = "Partial" => queue.running.kind = "Partial"
  <2>1. ASSUME ~unsettled', FullWaits' <=> FullWaits, IsFull' <=> IsFull,
               FullWaits => queue'.waiting = queue.waiting,
               IsFull => queue'.running = queue.running /\ run'.at = run.at,
               queue'.running.kind = "Partial" => queue.running.kind = "Partial"
        PROVE  SplitJobs' /\ (Fresh' => AsAsked')
    <3>1. SplitJobs'
      BY <1>1, <1>5, <1>7, <2>1 DEF SplitJobs, Splitted, Splitting, Final
    <3>2. Fresh' => Fresh
      BY <2>1 DEF Fresh
    <3>3. AsAsked => AsAsked'
      BY <1>6, <2>1 DEF AsAsked
    <3> QED
      BY <1>1, <1>5, <2>1, <3>1, <3>2, <3>3 DEF SplitIndex
  <2>2. run'.at # "reading" /\ ~index'.recorded => index' = Cleared \/ index' = Dropped(Cleared)
    BY <1>1, <1>6 DEF SplitIndex
  <2>3. ~unsettled' => SplitJobs' /\ (Fresh' => AsAsked')
    BY <1>9, <2>1
  <2>4. SplitJobs'
    BY <2>3 DEF SplitJobs
  <2> QED
    BY <1>8, <2>2, <2>3, <2>4 DEF SplitInv, SplitIndex
<1>10. CASE UNCHANGED queue /\ run' = r
  <2>1. r.at # run.at => ~IsFull
    BY KindsApart DEF IsFull
  <2> QED
    BY <1>10, <2>1 DEF FullWaits, IsFull
<1>11. ASSUME NEW job, Job(job), job.kind \in {"Check", "Partial"}, queue.running = NoJob, queue'.running = job,
              queue'.waiting = NoJob, run' = Queued, job.kind = "Partial" => queue.running.kind = "Check"
       PROVE  /\ FullWaits' <=> FullWaits
              /\ IsFull' <=> IsFull
              /\ FullWaits => queue'.waiting = queue.waiting
              /\ IsFull => queue'.running = queue.running /\ run'.at = run.at
              /\ queue'.running.kind = "Partial" => queue.running.kind = "Partial"
  <2>1. queue.waiting = NoJob
    BY <1>11 DEF JobsTyped
  <2> QED
    BY <1>3, <1>11, <2>1, KindsApart DEF FullWaits, IsFull
<1>12. ASSUME NEW job, Job(job), job.kind \in {"Check", "Partial"}, queue'.running = queue.running, run' = r,
              queue'.waiting = IF Strength[job.kind] >= Strength[queue.waiting.kind] THEN job ELSE queue.waiting
       PROVE  /\ FullWaits' <=> FullWaits
              /\ IsFull' <=> IsFull
              /\ FullWaits => queue'.waiting = queue.waiting
              /\ IsFull => queue'.running = queue.running /\ run'.at = run.at
              /\ queue'.running.kind = "Partial" => queue.running.kind = "Partial"
  <2>1. \A kind \in FullKinds : ~(Strength["Check"] >= Strength[kind]) /\ ~(Strength["Partial"] >= Strength[kind])
    BY DEF Strength, FullKinds
  <2>2. r.at # run.at => ~IsFull
    BY KindsApart DEF IsFull
  <2> QED
    BY <1>12, <2>1, <2>2, KindsApart DEF FullWaits, IsFull
<1> QED
  BY <1>4, <1>9, <1>10, <1>11, <1>12

\* settleEncoding(): the jobs stay as they are, and the history tells whether
\* one of them is out of date; or an explicit reload is asked for.
LEMMA SplitSettling ==
    ASSUME TypeInv, SplitSettled, process' = "up", NEW choice \in Known, NEW r \in Runs,
           (r.at = "off") <=> (queue.running = NoJob), NEW news, SettleEncoding(choice, r, news)
    PROVE  LET encoding == EncodingOf(choice)
           IN  /\ encoding \in Encodings /\ settled' = encoding /\ display' = encoding
               /\ \/ /\ settled = encoding \/ ~SplitsOtherwise(encoding)
                     /\ UNCHANGED queue /\ run'.at = r.at
                     /\ ~unsettled' => ~unsettled /\ ~Outdated(choice, r)
                  \/ \E forced \in Known :
                        /\ ~unsettled' => Splits[FinalEncoding(forced)] = Splits[encoding]
                        /\ \/ /\ queue.running = NoJob /\ queue'.running = Explicit(forced)
                              /\ queue'.waiting = NoJob /\ run'.at = "queued"
                           \/ /\ queue.running # NoJob /\ queue'.running = queue.running
                              /\ queue'.waiting = Explicit(forced) /\ run'.at = r.at
<1>1. PICK encoding : encoding = EncodingOf(choice)
  OBVIOUS
<1>2. encoding \in Encodings /\ NoEncoding \notin Encodings /\ JobsTyped
  BY <1>1, EncodingFacts, NoEncodingAssumption DEF TypeInv
<1>3. PICK i \in Runs : i = Interrupted(r) /\ i.at = r.at
  BY InterruptedFacts
<1>4. PICK forced : forced = IF encoding = index.guess THEN NoEncoding ELSE encoding
  OBVIOUS
<1>5. \/ /\ settled = encoding /\ run' = r /\ UNCHANGED <<display, settled, queue>>
         /\ unsettled' = (unsettled \/ Outdated(choice, r))
      \/ /\ settled # encoding /\ display' = encoding /\ settled' = encoding
         /\ ~SplitsOtherwise(encoding) /\ run' = i /\ UNCHANGED queue
         /\ unsettled' = (unsettled \/ Outdated(choice, r))
      \/ /\ settled # encoding /\ display' = encoding /\ settled' = encoding
         /\ forced \in Known /\ Enqueued(Explicit(forced), i)
         /\ unsettled' = (Splits[FinalEncoding(forced)] # Splits[encoding])
  BY <1>1, <1>3, <1>4, SettleFacts
<1>6. ASSUME unsettled' = (unsettled \/ Outdated(choice, r))
      PROVE  ~unsettled' => ~unsettled /\ ~Outdated(choice, r)
  BY ONLY <1>6, Zenon
<1>7. CASE /\ settled = encoding /\ run' = r /\ UNCHANGED <<display, settled, queue>>
           /\ unsettled' = (unsettled \/ Outdated(choice, r))
  BY <1>1, <1>2, <1>6, <1>7 DEF SplitSettled
<1>8. CASE /\ settled # encoding /\ display' = encoding /\ settled' = encoding
           /\ ~SplitsOtherwise(encoding) /\ run' = i /\ UNCHANGED queue
           /\ unsettled' = (unsettled \/ Outdated(choice, r))
  BY <1>1, <1>2, <1>3, <1>6, <1>8
<1>9. CASE /\ settled # encoding /\ display' = encoding /\ settled' = encoding
           /\ forced \in Known /\ Enqueued(Explicit(forced), i)
           /\ unsettled' = (Splits[FinalEncoding(forced)] # Splits[encoding])
  <2>1. Job(Explicit(forced)) /\ Explicit(forced).kind = "Explicit" /\ Queued.at = "queued"
    BY <1>9, JobsAre, RunsAre
  <2>2. \/ /\ queue.running = NoJob /\ queue'.running = Explicit(forced) /\ queue'.waiting = NoJob
           /\ run' = Queued
        \/ /\ queue.running # NoJob /\ queue'.running = queue.running /\ run' = i
           /\ queue'.waiting = IF Strength["Explicit"] >= Strength[queue.waiting.kind]
                               THEN Explicit(forced) ELSE queue.waiting
    BY <1>2, <1>3, <1>9, <2>1, EnqueuedFacts
  <2>3. Strength["Explicit"] >= Strength[queue.waiting.kind]
    <3>1. queue.waiting.kind \in {"None", "Check", "Partial", "Automatic", "Explicit", "Attach"}
          /\ queue.waiting.kind # "Attach"
      BY <1>2, JobKinds DEF JobsTyped
    <3> QED
      BY <3>1 DEF Strength
  <2>4. ~unsettled' => Splits[FinalEncoding(forced)] = Splits[encoding]
    BY ONLY <1>9, Zenon
  <2> QED
    BY <1>1, <1>2, <1>3, <1>9, <2>1, <2>2, <2>3, <2>4
<1> QED
  BY <1>5, <1>7, <1>8, <1>9

\* An Encoding is settled as it is chosen, or as an index run is told of.
LEMMA SplitSettle ==
    ASSUME TypeInv, SplitInv, process = "up", process' = "up", UNCHANGED index,
           NEW choice \in Known, chosen' = choice, NEW r \in Runs, (r.at = "off") <=> (queue.running = NoJob),
           \/ r.at = run.at /\ run.at # "told"
           \/ r.at = "told" /\ run.at = "ended" /\ choice = chosen /\ queue.running.kind \in IndexKinds,
           NEW news, SettleEncoding(choice, r, news)
    PROVE  SplitInv'
<1>1. SplitIndex /\ SplitSettled /\ SplitJobs /\ JobsTyped
  BY DEF SplitInv, TypeInv
<1>2. PICK encoding : encoding = EncodingOf(choice)
  OBVIOUS
<1>3. /\ encoding \in Encodings /\ settled' = encoding /\ display' = encoding
      /\ \/ /\ settled = encoding \/ ~SplitsOtherwise(encoding)
            /\ UNCHANGED queue /\ run'.at = r.at
            /\ ~unsettled' => ~unsettled /\ ~Outdated(choice, r)
         \/ \E forced \in Known :
               /\ ~unsettled' => Splits[FinalEncoding(forced)] = Splits[encoding]
               /\ \/ /\ queue.running = NoJob /\ queue'.running = Explicit(forced)
                     /\ queue'.waiting = NoJob /\ run'.at = "queued"
                  \/ /\ queue.running # NoJob /\ queue'.running = queue.running
                     /\ queue'.waiting = Explicit(forced) /\ run'.at = r.at
  BY <1>1, <1>2, SplitSettling
<1>4. EncodingOf(chosen)' = encoding /\ Final' = FinalEncoding(choice) /\ NoEncoding \notin Encodings
  BY <1>2, NoEncodingAssumption DEF EncodingOf, Final, FinalEncoding
<1>5. SplitSettled'
  BY <1>3, <1>4 DEF SplitSettled
<1>6. CASE /\ settled = encoding \/ ~SplitsOtherwise(encoding)
           /\ UNCHANGED queue /\ run'.at = r.at
           /\ ~unsettled' => ~unsettled /\ ~Outdated(choice, r)
  <2>1. (FullWaits' <=> FullWaits) /\ (IsFull' <=> IsFull) /\ (Fresh' => Fresh)
    BY <1>6 DEF FullWaits, IsFull, Fresh
  <2>2. (run'.at = "reading" <=> run.at = "reading") /\ (run'.at = "ended" => run.at = "ended")
    BY <1>6
  <2>3. SplitIndex'
    <3>1. AsAsked => AsAsked'
      BY <1>6, <2>1, <2>2 DEF AsAsked
    <3> QED
      BY <1>1, <1>6, <2>1, <2>2, <3>1 DEF SplitIndex
  <2>4. SUFFICES ASSUME ~unsettled'
                 PROVE  SplitJobs'
    BY <1>5, <2>3 DEF SplitInv, SplitJobs
  <2>5. ~unsettled /\ ~Outdated(choice, r)
    BY <1>6, <2>4
  <2>6. encoding = FinalEncoding(choice) =>
           /\ FullWaits => Splitting(queue.waiting) = Splits[encoding]
           /\ ~FullWaits /\ IsFull /\ r.at # "told" => Splitting(queue.running) = Splits[encoding]
    BY <1>2, <2>5 DEF Outdated
  <2>7. ASSUME ~FullWaits, index.recorded, Steady' \/ queue.running.kind = "Partial"
        PROVE  Splits[encoding] = Splits[IndexEncoding(index)]
    <3>1. Fresh
      BY <1>6, <2>7, KindsApart DEF Fresh, IsFull, Steady
    <3>2. AsAsked
      BY <1>1, <2>5, <3>1 DEF SplitIndex
    <3>3. index.guess = Detected
      BY <2>7, <3>2 DEF AsAsked
    <3>4. /\ encoding = FinalEncoding(choice) /\ IndexEncoding(index) = FinalEncoding(index.forced)
          /\ ~SplitsOtherwise(encoding) => Splits[encoding] = Splits[IndexEncoding(index)]
      BY <1>2, <3>3, SettledSplits
    <3>5. CASE ~SplitsOtherwise(encoding)
      BY <3>4, <3>5
    <3>6. CASE settled = encoding /\ (Steady \/ queue.running.kind = "Partial")
      BY <1>1, <2>5, <2>7, <3>6 DEF SplitJobs
    <3>7. CASE settled = encoding /\ ~Steady /\ queue.running.kind # "Partial"
      <4>1. Steady' /\ r.at = "told" /\ run.at = "ended" /\ choice = chosen /\ queue.running.kind \in IndexKinds
        BY <1>6, <2>7, <3>7 DEF Steady
      <4>2. IsFull
        BY <3>7, <4>1 DEF IsFull, IndexKinds
      <4>3. Splitted(queue.running)
        BY <1>1, <2>5, <2>7, <3>4, <3>7, <4>1, <4>2 DEF SplitJobs, Final
      <4>4. index.forced = queue.running.encoding
        BY <2>7, <3>2, <4>1, <4>2 DEF AsAsked
      <4> QED
        BY <3>4, <4>1, <4>3, <4>4 DEF Splitted, Splitting, Final
    <3> QED
      BY <1>6, <3>5, <3>6, <3>7
  <2>8. settled' = Final' => encoding = FinalEncoding(choice) /\ Final' = encoding
    BY <1>3, <1>4
  <2>9. FullWaits' /\ settled' = Final' => Splitted(queue.waiting)'
    BY <1>6, <2>1, <2>6, <2>8 DEF Splitted, Splitting
  <2>10. ~FullWaits' /\ IsFull' /\ run'.at # "told" /\ settled' = Final' => Splitted(queue.running)'
    BY <1>6, <2>1, <2>6, <2>8 DEF Splitted, Splitting
  <2>11. ~FullWaits' /\ index'.recorded /\ (Steady' \/ queue'.running.kind = "Partial")
            => Splits[settled'] = Splits[IndexEncoding(index')]
    BY <1>3, <1>6, <2>1, <2>7
  <2> QED
    BY <2>9, <2>10, <2>11 DEF SplitJobs
<1>7. ASSUME NEW forced \in Known, ~unsettled' => Splits[FinalEncoding(forced)] = Splits[encoding],
             \/ /\ queue.running = NoJob /\ queue'.running = Explicit(forced)
                /\ queue'.waiting = NoJob /\ run'.at = "queued"
             \/ /\ queue.running # NoJob /\ queue'.running = queue.running
                /\ queue'.waiting = Explicit(forced) /\ run'.at = r.at
      PROVE  SplitInv'
  <2>1. Explicit(forced).kind = "Explicit" /\ Explicit(forced).encoding = forced /\ NoJob.kind = "None"
    BY JobsAre
  <2>2. ~unsettled' /\ settled' = Final' => Splitted(Explicit(forced))'
    BY <1>3, <1>7, <2>1 DEF Splitted, Splitting
  <2>3. CASE /\ queue.running = NoJob /\ queue'.running = Explicit(forced)
             /\ queue'.waiting = NoJob /\ run'.at = "queued"
    <3>1. run.at # "reading" /\ IsFull' /\ ~FullWaits' /\ ~Fresh' /\ ~Steady' /\ queue'.running.kind # "Partial"
      BY <1>1, <2>1, <2>3, KindsApart DEF JobsTyped, IsFull, FullWaits, Fresh, Steady
    <3>2. SplitIndex'
      BY <1>1, <3>1 DEF SplitIndex
    <3>3. SplitJobs'
      BY <2>2, <2>3, <3>1 DEF SplitJobs, Splitted, Splitting
    <3> QED
      BY <1>5, <3>2, <3>3 DEF SplitInv
  <2>4. CASE /\ queue.running # NoJob /\ queue'.running = queue.running
             /\ queue'.waiting = Explicit(forced) /\ run'.at = r.at
    <3>1. FullWaits' /\ ~Fresh' /\ (run'.at = "reading" <=> run.at = "reading")
      BY <2>1, <2>4, KindsApart DEF FullWaits, Fresh
    <3>2. SplitIndex'
      BY <1>1, <3>1 DEF SplitIndex
    <3>3. SplitJobs'
      BY <2>2, <2>4, <3>1 DEF SplitJobs, Splitted, Splitting
    <3> QED
      BY <1>5, <3>2, <3>3 DEF SplitInv
  <2> QED
    BY <1>7, <2>3, <2>4
<1> QED
  BY <1>3, <1>6, <1>7

LEMMA SplitNext ==
    ASSUME TypeInv, RunInv, SplitInv, [Next]_vars
    PROVE  SplitInv'
<1>1. SUFFICES ASSUME process' = "up"
               PROVE  SplitInv'
  BY DEF SplitInv
<1>2. /\ JobsTyped /\ run \in Runs /\ chosen \in Known /\ NoEncoding \in Known
      /\ (run.at = "off") <=> (queue.running = NoJob)
  BY DEF TypeInv, JobsTyped, ToldTyped, Known
<1>3. /\ Handled \in Runs /\ Handled.at = "told"
      /\ Interrupted(run) \in Runs /\ Interrupted(run).at = run.at
  BY <1>2, HandledFacts, InterruptedFacts
<1>4. CASE Change \/ UNCHANGED vars
  <2>1. UNCHANGED <<index, cache, queue, run, display, chosen, settled, process, unsettled>>
    BY <1>4 DEF Change, vars, encodingVars
  <2> QED
    BY <2>1 DEF SplitInv, SplitIndex, SplitSettled, SplitJobs, AsAsked, Fresh, FullWaits, IsFull, Steady,
                EncodingOf, Final, Splitted, Splitting
<1>5. CASE SetEncoding
  <2>1. PICK choice \in Known : chosen' = choice /\ SettleEncoding(choice, run, told)
    BY <1>5 DEF SetEncoding
  <2>2. process = "up" /\ run.at # "told" /\ UNCHANGED index
    BY <1>5 DEF SetEncoding, InEventLoop
  <2> QED
    BY <1>1, <1>2, <2>1, <2>2, SplitSettle
<1>6. CASE IndexingFinished
  <2>1. /\ process = "up" /\ run.at = "ended" /\ run.outcome \in Loaded /\ UNCHANGED <<index, chosen>>
    BY <1>6 DEF IndexingFinished
  <2>2. queue.running.kind \in IndexKinds
    <3>1. queue.running.kind # "Check" /\ queue.running.kind # "None"
      BY <1>2, <2>1, KindsApart, JobKinds DEF RunInv, JobsTyped
    <3> QED
      BY <1>2, <3>1, JobKinds DEF JobsTyped, IndexKinds, FullKinds
  <2>3. PICK news : SettleEncoding(chosen, Handled, news)
    BY <1>6 DEF IndexingFinished
  <2>4. (Handled.at = "off") <=> (queue.running = NoJob)
    BY <1>2, <1>3, <2>1
  <2> QED
    BY <1>1, <1>2, <1>3, <2>1, <2>2, <2>3, <2>4, SplitSettle
<1>7. CASE CheckFileChangesFinished
  <2>1. /\ process = "up" /\ run.at = "ended" /\ run.outcome \in Checked
        /\ UNCHANGED <<index, display, settled, chosen, process>>
    BY <1>7 DEF CheckFileChangesFinished, encodingVars
  <2>2. queue.running.kind = "Check"
    BY <2>1 DEF RunInv
  <2>3. /\ Job(Partial) /\ Partial.kind = "Partial" /\ Job(Automatic) /\ Automatic.kind = "Automatic"
    BY JobsAre
  <2>4. \/ run' = Handled /\ UNCHANGED <<queue, unsettled>>
        \/ Enqueued(Partial, Handled) /\ UNCHANGED unsettled
        \/ Enqueued(Automatic, Handled) /\ unsettled'
    BY <1>7 DEF CheckFileChangesFinished
  <2>5. \/ UNCHANGED queue /\ run' = Handled /\ (~unsettled' => ~unsettled)
        \/ \E job : /\ Job(job) /\ Enqueued(job, Handled) /\ job.kind \in {"Check", "Partial", "Automatic", "Explicit"}
                    /\ job.kind = "Partial" => queue.running.kind = "Check"
                    /\ unsettled' \/ (job.kind \in {"Check", "Partial"} /\ ~unsettled)
    BY ONLY <2>2, <2>3, <2>4
  <2> QED
    BY ONLY <1>2, <1>3, <2>1, <2>2, <2>5, SplitInv, SplitAsked
<1>8. CASE Reload \/ StopLoading \/ FileChangedOnDisk
  <2>1. /\ process = "up" /\ run.at # "told" /\ UNCHANGED <<index, display, settled, chosen, process>>
    BY <1>8 DEF Reload, StopLoading, FileChangedOnDisk, InEventLoop, encodingVars
  <2>2. /\ Job(Check) /\ Check.kind = "Check"
        /\ Job(Explicit(NoEncoding)) /\ Explicit(NoEncoding).kind = "Explicit"
    BY <1>2, JobsAre
  <2>3. PICK r \in Runs : /\ r.at = run.at
                          /\ \/ UNCHANGED <<queue, unsettled>> /\ run' = r
                             \/ Enqueued(Check, r) /\ UNCHANGED unsettled
                             \/ Enqueued(Explicit(NoEncoding), r) /\ unsettled'
    BY <1>2, <1>3, <1>8 DEF Reload, ReadAgain, StopLoading, FileChangedOnDisk
  <2>4. \/ UNCHANGED queue /\ run' = r /\ (~unsettled' => ~unsettled)
        \/ \E job : /\ Job(job) /\ Enqueued(job, r) /\ job.kind \in {"Check", "Partial", "Automatic", "Explicit"}
                    /\ job.kind = "Partial" => queue.running.kind = "Check"
                    /\ unsettled' \/ (job.kind \in {"Check", "Partial"} /\ ~unsettled)
    BY ONLY <2>2, <2>3
  <2> QED
    BY ONLY <1>2, <2>1, <2>3, <2>4, SplitInv, SplitAsked
<1>9. CASE FinishJobAndStartNext
  <2>1. /\ process = "up" /\ run.at = "told" /\ UNCHANGED <<index, display, settled, chosen, unsettled>>
        /\ queue' = [running |-> queue.waiting, waiting |-> NoJob]
        /\ run' = IF queue'.running = NoJob THEN NoRun ELSE Queued
    BY <1>9 DEF FinishJobAndStartNext, StartWaiting, encodingVars
  <2>2. /\ queue'.running = queue.waiting /\ queue'.waiting.kind = "None" /\ run'.at \in {"off", "queued"}
        /\ queue.waiting.kind # "Attach"
    BY <1>2, <2>1, RunsAre, JobsAre DEF JobsTyped
  <2>3. SplitIndex /\ SplitSettled /\ SplitJobs /\ Steady
    BY <2>1 DEF SplitInv, Steady
  <2>4. ~FullWaits' /\ (IsFull' <=> FullWaits)
    BY <2>2, KindsApart DEF FullWaits, IsFull
  <2>5. Fresh' => ~FullWaits /\ Fresh
    <3>1. FullWaits => queue'.running # NoJob
      BY <2>2, KindsApart, JobsAre DEF FullWaits
    <3>2. FullWaits => run'.at = "queued"
      BY <2>1, <3>1, RunsAre
    <3>3. Fresh' => ~FullWaits
      BY <2>4, <3>2 DEF Fresh
    <3> QED
      BY <2>1, <3>3 DEF Fresh
  <2>6. SplitIndex'
    <3>1. AsAsked /\ Fresh' => AsAsked'
      BY <2>1, <2>2 DEF AsAsked
    <3> QED
      BY <2>1, <2>2, <2>3, <2>5, <3>1 DEF SplitIndex
  <2>7. SplitSettled'
    BY <2>1, <2>2, <2>3 DEF SplitSettled, EncodingOf
  <2>8. SplitJobs'
    <3>1. SUFFICES ASSUME ~unsettled'
                   PROVE  SplitJobs'
      BY DEF SplitJobs
    <3>2. IsFull' /\ settled' = Final' => Splitted(queue.running)'
      BY <2>1, <2>2, <2>3, <2>4, <3>1 DEF SplitJobs, Splitted, Splitting, Final
    <3>3. Steady' \/ queue'.running.kind = "Partial" => ~FullWaits
      BY <2>2, KindsApart DEF Steady, FullWaits
    <3>4. index'.recorded /\ (Steady' \/ queue'.running.kind = "Partial")
             => Splits[settled'] = Splits[IndexEncoding(index')]
      BY <2>1, <2>3, <3>1, <3>3 DEF SplitJobs
    <3> QED
      BY <2>4, <3>2, <3>4 DEF SplitJobs
  <2> QED
    BY <2>6, <2>7, <2>8 DEF SplitInv
<1>10. CASE Shutdown
  BY <1>1, <1>10 DEF Shutdown
<1> QED
  BY <1>4, <1>5, <1>6, <1>7, <1>8, <1>9, <1>10, SplitWorker DEF Next, Delivery

LEMMA SplitInit ==
    ASSUME Init
    PROVE  SplitInv
<1>1. /\ index = Cleared /\ run = Queued /\ settled = NoEncoding
      /\ queue = [running |-> Attach(chosen), waiting |-> NoJob]
  BY DEF Init
<1>2. /\ run.at = "queued" /\ queue.waiting.kind = "None" /\ queue.running.kind = "Attach"
      /\ queue.running.encoding = chosen
  BY <1>1, RunsAre, JobsAre
<1>3. /\ ~index.recorded /\ IsFull /\ ~FullWaits /\ ~Fresh /\ ~Steady
  BY <1>1, <1>2, NotRecorded, KindsApart DEF IsFull, FullWaits, Fresh, Steady
<1>4. SplitIndex /\ SplitSettled
  BY <1>1, <1>2, <1>3 DEF SplitIndex, SplitSettled
<1>5. SplitJobs
  BY <1>2, <1>3 DEF SplitJobs, Splitted, Splitting, Final
<1> QED
  BY <1>4, <1>5 DEF SplitInv

\* Once no job runs, the Log File is split into Log Lines as the Encoding they
\* are decoded in splits it, however often an Encoding was chosen, whatever was
\* interrupted, failed, waited, was cached or changed on disk, unless since
\* that Encoding was settled all was to be read again for another reason, or in
\* an Encoding that splits it otherwise, or the run that was to read it left
\* it unread (setDisplayEncoding(), the job rule).
THEOREM SplitAsDecodedHolds == Spec => []SplitAsDecoded
<1> DEFINE Inv == TypeInv /\ RunInv /\ SplitInv
<1>1. Init => Inv
  BY TypeInit, RunInit, SplitInit
<1>2. Inv /\ [Next]_vars => Inv'
  BY TypeNext, RunNext, SplitNext
<1>3. Inv => SplitAsDecoded
  <2>1. SUFFICES ASSUME Inv, Quiet, ~unsettled, index.bytes # <<>>
                 PROVE  Splits[display] = Splits[index.split]
    BY DEF SplitAsDecoded
  <2>2. /\ process = "up" /\ run.at = "off" /\ queue.waiting.kind = "None" /\ queue.running.kind = "None"
    BY <2>1, JobsAre DEF Quiet, TypeInv, JobsTyped
  <2>3. SplitIndex /\ SplitSettled /\ SplitJobs
    BY <2>1, <2>2 DEF SplitInv
  <2>4. ~FullWaits /\ ~IsFull /\ Fresh /\ Steady
    BY <2>2, KindsApart DEF FullWaits, IsFull, Fresh, Steady
  <2>5. index.recorded /\ Splits[index.split] = Splits[IndexEncoding(index)]
    <3>1. Cleared.bytes = <<>> /\ Dropped(Cleared).bytes = <<>>
      BY NotRecorded
    <3> QED
      BY <2>1, <2>2, <2>3, <2>4, <3>1 DEF SplitIndex, AsAsked
  <2>6. display = settled
    BY <2>2, <2>3 DEF SplitSettled
  <2> QED
    BY <2>1, <2>3, <2>4, <2>5, <2>6 DEF SplitJobs
<1> QED
  BY <1>1, <1>2, <1>3, PTL DEF Spec

=============================================================================
