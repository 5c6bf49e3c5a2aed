---------------------------- MODULE MCJobQueue ----------------------------
\* Small instances of JobQueue for TLC.
EXTENDS JobQueue, TLC

CONSTANTS j1, j2, p1, p2

MCJobs == {j1, j2}
MCProcs == {p1, p2}
MCUnregisteredOne == {j2}
=============================================================================
