--------------------------- MODULE MCCalendarSync ---------------------------
(* CalendarSync on small instances: months of two ticks, past windows of two    *)
(* months, and one window of the two months from now on.                        *)
EXTENDS CalendarSync, TLC

CONSTANTS x, sm, d1, k1

Nobody == {}
OneEvent == {x}
OneMaster == {sm}
XInSeries == [ev \in Events |-> sm]
OneDaemon == {d1}
OneCli == {k1}

\* With five ticks of past, the windows at tick 6 are [-2,2), [2,6) and [6,10), at
\* tick 8 [0,4), [4,8) and [8,12).  At tick 6 the ranges of either set are in different
\* windows, the instant at the start of its own.
PastAndNow == {Window(4, 6), Window(6, 8)}
PastAndInstant == {Window(4, 6), Window(6, 6)}
FarPast == {Window(-2, 2), Window(0, 4)}
NoneBroken == {}

NoFault == {}
=============================================================================
