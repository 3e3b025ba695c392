------------------------------ MODULE LogIndex ------------------------------
(***************************************************************************)
(* The Index of a Log File and how it is kept: IndexingData and what an    *)
(* index run does to it (src/logdata/src/logdataworker.cpp), and how it is *)
(* compared with the Log File (src/logdata/src/indexedhash.cpp).           *)
(*                                                                         *)
(* A Log File is a sequence of halves of Log Lines, each stamped with the  *)
(* change that wrote it: a Log Line ends with its second half, and one     *)
(* whose second half is not written yet has no line feed.  An empty Log    *)
(* File stands for a missing one too.                                      *)
(***************************************************************************)
EXTENDS Sequences, IndexJobs

CONSTANTS
    Splits,         \* how each Encoding splits a Log File into Log Lines: its EncodingParameters
    Detected,       \* the Encoding the Log File's bytes are detected as
    Locale,         \* the locale's Encoding
    Undisplayed,    \* the Encoding Log Lines are decoded in until one is settled: ISO-8859-1
    DigestBlock     \* DigestBlockSize

ASSUME EncodingsAssumption == {Detected, Locale, Undisplayed} \subseteq Encodings
ASSUME DigestBlockAssumption == DigestBlock \in Nat /\ DigestBlock >= 2 /\ DigestBlock % 2 = 0

Lesser(a, b) == IF a < b THEN a ELSE b
Greater(a, b) == IF a < b THEN b ELSE a

\* IndexingData::clear().  Beside the Log Lines: the Encoding that split them,
\* the bytes each digest was taken of, those the full digest goes on from
\* (hashBuilder_) and those the other two go on from (headerAndTailDigests_),
\* and the modification time, 0 where none is kept.
Cleared == [bytes |-> <<>>, fake |-> 0, forced |-> NoEncoding, guess |-> NoEncoding, split |-> NoEncoding,
            recorded |-> FALSE, full |-> <<>>, header |-> <<>>, tail |-> <<>>,
            built |-> <<>>, fed |-> <<>>, modified |-> 0]

\* The Index a run leaves that was superseded, or could not open the Log File.
Dropped(ix) == [Cleared EXCEPT !.guess = Locale]

\* The Encoding that split the Log File into the Log Lines of the Index.
IndexEncoding(ix) == IF ix.forced # NoEncoding THEN ix.forced ELSE ix.guess

Whole(ix) == Len(ix.bytes) \div 2
\* getNbLines()
LineCount(ix) == Whole(ix) + (IF ix.fake > 0 THEN 1 ELSE 0)

\* The bytes of a Log Line, the first is 1: up to its line feed, or up to the
\* fake one of the last.
LineBytes(ix, line) ==
    LET end == IF line <= Whole(ix) THEN 2 * line ELSE Lesser(ix.fake, Len(ix.bytes))
    IN  SubSeq(ix.bytes, 2 * line - 1, end)

\* Every Log Line as it reads in an Encoding.
LinesOf(ix, encoding) ==
    [line \in 1..LineCount(ix) |->
        [bytes |-> LineBytes(ix, line), split |-> Splits[ix.split], read |-> encoding]]

\* addAll(), one block.
AddBlock(ix, block) ==
    LET guess == IF ix.guess = NoEncoding THEN Detected ELSE ix.guess
        built == ix.built \o block
    IN  [ix EXCEPT !.bytes = @ \o block, !.fake = 0, !.guess = guess,
                   !.split = IF ix.bytes # <<>> THEN @ ELSE IF ix.forced # NoEncoding THEN ix.forced ELSE guess,
                   !.built = built, !.full = built, !.fed = @ \o block]

\* Where the Log Line starts that has no line feed yet, after indexing from a
\* position on: state.pos.
OpenLine(ix, from) == Greater(from, 2 * Whole(ix))

\* HeaderAndTailDigests::tailRange(): where the tail of so many bytes starts.
TailOffset(size) ==
    LET halfBlock == DigestBlock \div 2
    IN  IF size < DigestBlock THEN 0 ELSE (size \div halfBlock - 1) * halfBlock

\* Where the bytes begin the running digests were taken of.
FedFrom(ix) == Len(ix.bytes) - Len(ix.fed)

\* Whether the running digests cover the tail of what was indexed from a
\* position on: not where they began past it, nor where they passed it over
\* as the Log File was longer when the run looked at its size.
CoversTail(ix, from, size) ==
    LET offset == TailOffset(Len(ix.bytes))
    IN  /\ FedFrom(ix) <= offset
        /\ offset = 0 \/ \A begins \in Greater(offset, from)..(Len(ix.bytes) - 1) :
                             begins % (DigestBlock \div 2) = 0 => TailOffset(size) <= begins

\* recordHeaderAndTail(): what the running digests do not cover is read from
\* the Log File again, which starts them over; as much of it as there is.
RecordHeaderAndTail(ix, from, size, logFile) ==
    LET end == Len(ix.bytes)
        offset == TailOffset(end)
        covered == CoversTail(ix, from, size)
        ReadAgain(first, last) == SubSeq(logFile, first, Lesser(last, Len(logFile)))
        startsOver == ~covered /\ Len(logFile) >= end
        fed == IF startsOver THEN ReadAgain(offset + 1, end) ELSE ix.fed
        headerEnd == Lesser(end, DigestBlock)
    IN  [ix EXCEPT
            !.tail = IF covered THEN SubSeq(fed, Len(fed) - (end - offset) + 1, Len(fed))
                     ELSE ReadAgain(offset + 1, end),
            !.header = IF Len(@) = DigestBlock THEN @
                       ELSE IF Len(fed) = end THEN SubSeq(fed, 1, headerEnd)
                       ELSE ReadAgain(1, headerEnd),
            !.fed = IF startsOver /\ offset > 0 /\ TailOffset(size) > offset THEN <<>> ELSE fed]

\* The end of doIndex() that was not superseded: a fake line feed where the
\* Log File ended when the run looked at its size, the digests, the
\* modification time now, the Encoding of a Log File nothing was read from.
Completed(ix, from, size, logFile, modified) ==
    [RecordHeaderAndTail(ix, from, size, logFile) EXCEPT
        !.fake = IF size > OpenLine(ix, from) THEN size ELSE @, !.recorded = TRUE,
        !.modified = IF Len(logFile) = Len(ix.bytes) THEN modified ELSE 0,
        !.guess = IF @ = NoEncoding THEN Detected ELSE @,
        !.split = IF @ = NoEncoding THEN Detected ELSE @]

\* recordedBytesMatch() of the header and the tail.
HeaderAndTailMatch(ix, logFile) ==
    /\ SubSeq(logFile, 1, Len(ix.header)) = ix.header
    /\ LET offset == TailOffset(Len(ix.bytes))
       IN  SubSeq(logFile, offset + 1, offset + Len(ix.tail)) = ix.tail

\* indexFit(), as the status a Check tells, comparing every byte of a Log File
\* that did not grow or not: a cleared Index has no digest any bytes match.
IndexFit(ix, logFile, everyByte) ==
    IF logFile = <<>> \/ ~ix.recorded \/ Len(logFile) < Len(ix.bytes) THEN "Truncated"
    ELSE IF Len(logFile) > Len(ix.bytes)
         THEN IF HeaderAndTailMatch(ix, logFile) THEN "DataAdded" ELSE "Truncated"
         ELSE IF IF everyByte THEN logFile = ix.full ELSE HeaderAndTailMatch(ix, logFile)
              THEN "Unchanged" ELSE "Truncated"

-----------------------------------------------------------------------------
(* The Index Cache (src/logdata/src/indexcache.cpp): an entry is the Index *)
(* as a run finds it there.                                                *)

\* No Log File fits a cleared Index.
NoEntry == Cleared

\* trySave(), with what loadFromCache() forgets forgotten.
Entry(ix) == [ix EXCEPT !.forced = NoEncoding, !.built = <<>>, !.fed = <<>>, !.modified = 0]
SavedEntries(ix) == IF LineCount(ix) > 0 THEN {Entry(ix)} ELSE {}

\* tryLoad(): an entry of an Index of nothing, or whose last Log Line ends past
\* what was indexed, is not handed out.
Sound(entry) == entry.bytes # <<>> /\ entry.header # <<>> /\ entry.fake <= Len(entry.bytes)

\* loadFromCache(), with forceEncoding().
LoadedFromCache(entry, forced) == [entry EXCEPT !.forced = forced]

\* resumeFrom(): where the last cached Log Line starts, which may have been
\* continued since, and whether the Encoding allows it: the one forced, and
\* the one a Log File is detected as whose first block was not cached whole.
ResumeOffset(entry) == IF LineCount(entry) > 1 THEN 2 * (LineCount(entry) - 1) ELSE 0
Resumable(entry, forced) ==
    /\ forced \in {NoEncoding, entry.guess}
    /\ Len(entry.bytes) < DigestBlock => entry.guess = Detected
ResumedFromCache(entry, forced, logFile) ==
    LET offset == ResumeOffset(entry)
        prefix == SubSeq(logFile, 1, offset)    \* digestOfPrefix()
    IN  [Cleared EXCEPT !.bytes = SubSeq(entry.bytes, 1, offset), !.guess = entry.guess, !.forced = forced,
                        !.split = entry.split, !.built = prefix, !.full = prefix]
=============================================================================
