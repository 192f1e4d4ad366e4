--------------------------- MODULE MCHitlsLoader ---------------------------
\* Three threads, so that a hold can outlast another one, and a delay of three
\* ticks, so that a hold can begin and end in the middle of a timed wait.
EXTENDS HitlsLoader
=============================================================================
