-------------------------- MODULE MCBackgroundRun --------------------------
\* Constants of BackgroundRun for TLC: three runs, so that a run is superseded
\* while the report of an earlier one is still in the mailbox.
EXTENDS BackgroundRun

MCPolicies == {"oldPolicy", "newPolicy"}
=============================================================================
