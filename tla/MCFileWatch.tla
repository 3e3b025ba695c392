---------------------------- MODULE MCFileWatch ----------------------------
\* Constants of FileWatch for TLC: its files are in one directory.
EXTENDS FileWatch

MCDirectory == [file \in Files |-> "logs"]
MCPolicies == {[native |-> TRUE, polling |-> TRUE], [native |-> FALSE, polling |-> TRUE]}
=============================================================================
