------------------------------ MODULE GnssDate ------------------------------
(***************************************************************************)
(* The day number unix_seconds_from_utc computes from the date of a        *)
(* position (gps.rs and ublox.rs hold the same function), against a        *)
(* calendar that is counted day by day.                                    *)
(***************************************************************************)
EXTENDS Integers

CONSTANTS
  FirstYear,   \* the count starts on January 1st
  FirstDay,    \* days from January 1st 1970 to that day
  LastYear     \* bound: last year of the count

\* 365 days a year and a day for every leap year, of which 477 were before 1970
GnssDateAssumption ==
  /\ FirstYear \in Nat \ {0} /\ LastYear \in Nat
  /\ LET past == FirstYear - 1
     IN  FirstDay = 365 * (FirstYear - 1970) + (past \div 4) - (past \div 100) + (past \div 400) - 477

VARIABLES y, m, d, count
vars == <<y, m, d, count>>

\* Rust's division rounds towards zero.
Div(a, b) == IF a >= 0 THEN a \div b ELSE -((-a) \div b)

EraOff(yy) == Div(IF yy >= 0 THEN yy ELSE yy - 399, 400)
MonthIndex(month) == month + (IF month > 2 THEN -3 ELSE 9)

\* days of unix_seconds_from_utc
UnixDay(year, month, day) ==
  LET yy == IF month <= 2 THEN year - 1 ELSE year
      era == EraOff(yy)
      yoe == yy - era * 400
      doy == Div(153 * MonthIndex(month) + 2, 5) + day - 1
      doe == yoe * 365 + Div(yoe, 4) - Div(yoe, 100) + doy
  IN  era * 146097 + doe - 719468

\* The same function of ublox.rs.
UnixDayStm(year, month, day) == UnixDay(year, month, day)

-----------------------------------------------------------------------------
Leap == y % 4 = 0 /\ (y % 100 # 0 \/ y % 400 = 0)
DaysIn ==
  CASE m = 2 -> IF Leap THEN 29 ELSE 28
    [] m \in {4, 6, 9, 11} -> 30
    [] OTHER -> 31

Init == y = FirstYear /\ m = 1 /\ d = 1 /\ count = FirstDay

NextDay ==
  /\ y <= LastYear /\ count' = count + 1
  /\ IF d < DaysIn THEN d' = d + 1 /\ UNCHANGED <<m, y>>
     ELSE d' = 1 /\ IF m < 12 THEN m' = m + 1 /\ UNCHANGED y ELSE m' = 1 /\ y' = y + 1

Stop == y > LastYear /\ UNCHANGED vars

Next == NextDay \/ Stop
Spec == Init /\ [][Next]_vars

(* The day number is that of the calendar on every day of a 400 year cycle *)
(* and across the turn of an era.                                          *)
DayIsCounted == UnixDay(y, m, d) = count /\ UnixDayStm(y, m, d) = count
=============================================================================
