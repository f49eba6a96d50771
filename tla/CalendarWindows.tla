--------------------------- MODULE CalendarWindows ---------------------------
(***************************************************************************)
(* How internal/calendar/window.go cuts the horizon of the calendar        *)
(* synchroniser into delta windows.  Time is counted in ticks from some    *)
(* month start; every month has MonthLen of them.                          *)
(***************************************************************************)
EXTENDS Integers, FiniteSets

CONSTANT MonthLen

ASSUME MonthAssumption == MonthLen \in Nat \ {0}

\* A half-open range [start, end).
Window(s, e) == [start |-> s, end |-> e]

monthStart(t) == t - (t % MonthLen)

\* Mutant of clip: the last of the recent pieces keeps its size.
unclipped(t, recentEnd) == t

clip(t, recentEnd) == IF t > recentEnd THEN recentEnd ELSE t

\* The windows of a horizon: back from the current month while a window ends
\* after horizonStart, the two months from the current one in pieces, and on from
\* there while a window starts before horizonEnd.
Cut(cur, horizonStart, horizonEnd, recent, hist, future) ==
    LET recentEnd == cur + 2 * MonthLen
        steps     == 0 .. (horizonEnd - horizonStart + 2 * MonthLen)
    IN {Window(cur - (i + 1) * hist, cur - i * hist) :
            i \in {j \in steps : cur - j * hist > horizonStart}}
       \cup {Window(cur + i * recent, clip(cur + (i + 1) * recent, recentEnd)) :
            i \in {j \in steps : cur + j * recent < recentEnd}}
       \cup {Window(recentEnd + i * future, recentEnd + (i + 1) * future) :
            i \in {j \in steps : recentEnd + j * future < horizonEnd}}

\* A size that is not positive means the default.
size(months, default) == MonthLen * (IF months <= 0 THEN default ELSE months)

Windows(at, past, future, recentMonths, histMonths, futureMonths) ==
    Cut(monthStart(at), at - past, at + future,
        size(recentMonths, 1), size(histMonths, 3), size(futureMonths, 3))

\* Every tick of [at - past, at + future) is in exactly one of the windows.
Tiles(at, past, future, recentMonths, histMonths, futureMonths) ==
    LET ws == Windows(at, past, future, recentMonths, histMonths, futureMonths)
    IN \A t \in (at - past) .. (at + future - 1) :
           Cardinality({w \in ws : w.start <= t /\ t < w.end}) = 1

=============================================================================
