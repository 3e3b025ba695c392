----------------------------- MODULE MCOverview -----------------------------
\* Constants of Overview and its Displayed Lines for TLC.
EXTENDS Overview

MCVisibilities == {{"Mark"}, {"Match", "Mark", "Context"}}
=============================================================================
