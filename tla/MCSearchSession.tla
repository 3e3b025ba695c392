-------------------------- MODULE MCSearchSession --------------------------
\* Constants of SearchSession for TLC.  One pattern every Log Line matches, so
\* that results of another run show at once, and one that some match.
EXTENDS SearchSession

MCPatterns == {"all", "some"}
MCReadings == {{"all"}, {"all", "some"}}
MCRanges == {<<0, 1>>, <<0, 2>>}
MCRangesLong == {<<0, 2>>, <<0, 3>>}
MCOnePattern == {"some"}
MCTwoReadings == {{}, {"some"}}
=============================================================================
