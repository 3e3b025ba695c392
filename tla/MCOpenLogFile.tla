--------------------------- MODULE MCOpenLogFile ---------------------------
\* Constants of OpenLogFile for TLC: two Searches, a logical combination with
\* Field Terms and a pattern that is invalid.
EXTENDS OpenLogFile
=============================================================================
