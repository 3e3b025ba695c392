----------------------------- MODULE MCIndexing -----------------------------
\* Constants of Indexing for TLC: two Encodings that split a Log File alike,
\* and one that does not.
EXTENDS Indexing

MCOneEncoding == {"UTF-8"}
MCAlike == {"UTF-8", "Latin-1"}
MCEncodings == {"UTF-8", "Latin-1", "UTF-16"}
MCSplits == [encoding \in MCEncodings |-> IF encoding = "UTF-16" THEN 2 ELSE 1]
=============================================================================
