------------------------------ MODULE Calendar ------------------------------
(***************************************************************************)
(* Calendar days between two dates, and the age at which a currency fixing *)
(* is no longer used (watcher/src/fx.ts).  A date is a record of a year, a *)
(* month and a day.                                                        *)
(***************************************************************************)
EXTENDS Integers

CONSTANT FX_MAX_CALENDAR_DAYS

IsLeap(y) == (y % 400 = 0) \/ (y % 100 # 0 /\ y % 4 = 0)

DaysInMonth(y, m) ==
    IF m = 2 THEN (IF IsLeap(y) THEN 29 ELSE 28) ELSE IF m \in {4, 6, 9, 11} THEN 30 ELSE 31

\* parseCalendarDate accepts exactly these.
ValidDate(date) == date.m \in 1 .. 12 /\ date.d \in 1 .. DaysInMonth(date.y, date.m)

\* julianDay
JulianDay(y, m, d) ==
    LET a == (14 - m) \div 12
        yy == y + 4800 - a
        mm == m + 12 * a - 3
    IN d + (153 * mm + 2) \div 5 + 365 * yy + yy \div 4 - yy \div 100 + yy \div 400 - 32045

\* calendarDaysBetween
DaysBetween(earlier, later) ==
    JulianDay(later.y, later.m, later.d) - JulianDay(earlier.y, earlier.m, earlier.d)

\* fxFixingIsFresh: not after the slot's date, and at most so many days before it.
FixingIsFresh(fixing, slot) ==
    DaysBetween(fixing, slot) \in 0 .. FX_MAX_CALENDAR_DAYS

\* The day after a date, by the calendar alone.
NextDay(date) ==
    IF date.d < DaysInMonth(date.y, date.m) THEN [date EXCEPT !.d = @ + 1]
    ELSE IF date.m < 12 THEN [date EXCEPT !.m = @ + 1, !.d = 1]
    ELSE [y |-> date.y + 1, m |-> 1, d |-> 1]

=============================================================================
