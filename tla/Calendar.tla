------------------------------ MODULE Calendar ------------------------------
(***************************************************************************)
(* The date of a number of seconds (format_time, lib/util.c), as "time"    *)
(* prints it (shell/cmd_time.c): one year after the other is taken off the *)
(* days, and then one month.                                               *)
(***************************************************************************)
EXTENDS Printf

CONSTANTS
  LongBits,      (* of an unsigned long: 32, which holds dates until 2106   *)
  SecsMin, SecsHour, SecsDay,   (* seconds of a minute, an hour and a day   *)
  Times          (* seconds and nanoseconds asked for                       *)

ASSUME CalendarAssumption ==
  /\ LongBits \in Nat /\ SecsMin \in Nat \ {0}
  /\ SecsHour % SecsMin = 0 /\ SecsDay % SecsHour = 0 /\ SecsMin < SecsHour /\ SecsHour < SecsDay

EPOCH_YR == 1970
Days == << "Sun", "Mon", "Tue", "Wed", "Thu", "Fri", "Sat" >>
Months == << "Jan", "Feb", "Mar", "Apr", "May", "Jun", "Jul", "Aug", "Sep", "Oct", "Nov", "Dec" >>

(* As in module Minic, <Operator>_<Fault> names a seeded fault.            *)
LeapYear_Julian(y) == y % 4 = 0
LeapYear(y) == y % 4 = 0 /\ (y % 100 # 0 \/ y % 400 = 0)

YearSize(y) == IF LeapYear(y) THEN 366 ELSE 365
MonthSize(y, m) ==
  IF m = 1 /\ LeapYear(y) THEN 29 ELSE << 31, 28, 31, 30, 31, 30, 31, 31, 30, 31, 30, 31 >>[m + 1]

VARIABLES
  asked,    (* the time in work                                             *)
  step,     (* where format_time is                                         *)
  dayno,    (* days not yet taken off                                       *)
  year, mon,
  shown     (* the text on the console                                      *)

timeVars == << asked, step, dayno, year, mon, shown >>

Nothing == [sec |-> 0, nsec |-> 0]

Clock(t) == (t.sec % 2 ^ LongBits) % SecsDay
DayNo(t) == (t.sec % 2 ^ LongBits) \div SecsDay

(* Day 0 was a Thursday.                                                   *)
WeekDay(t) == Days[((DayNo(t) + 4) % 7) + 1]

TimeFormat ==
  << Directive("s", FALSE, 0), Char(","), Char(" "), Directive("s", FALSE, 0), Char(" "), Directive("d", FALSE, 0),
     Char(","), Char(" "), Directive("d", FALSE, 0), Char(","), Char(" "), Directive("d", FALSE, 2), Char(":"),
     Directive("d", FALSE, 2), Char(":"), Directive("d", FALSE, 2) >>

CommandFormat == << Directive("s", FALSE, 0), Char(" "), Char("+"), Directive("d", FALSE, 0), Char(" "), Char("\n") >>

FormatTime ==
  /\ step = "idle"
  /\ \E t \in Times : asked' = t /\ dayno' = DayNo(t)
  /\ step' = "years" /\ year' = EPOCH_YR
  /\ UNCHANGED << mon, shown >>

NextYear ==
  /\ step = "years" /\ dayno >= YearSize(year)
  /\ dayno' = dayno - YearSize(year) /\ year' = year + 1
  /\ UNCHANGED << asked, step, mon, shown >>

LastYear ==
  /\ step = "years" /\ dayno < YearSize(year)
  /\ mon' = 0 /\ step' = "months"
  /\ UNCHANGED << asked, dayno, year, shown >>

NextMonth ==
  /\ step = "months" /\ dayno >= MonthSize(year, mon)
  /\ dayno' = dayno - MonthSize(year, mon) /\ mon' = mon + 1
  /\ UNCHANGED << asked, step, year, shown >>

Show ==
  LET clock == Clock(asked)
      text  == sprintf(TimeFormat,
                 << << WeekDay(asked) >>, << Months[mon + 1] >>, dayno + 1, year,
                    clock \div SecsHour, (clock % SecsHour) \div SecsMin, clock % SecsMin >>)
  IN
  /\ step = "months" /\ dayno < MonthSize(year, mon)
  /\ shown' = vprintf(<< >>, CommandFormat, << text, asked.nsec >>)
  /\ step' = "shown"
  /\ UNCHANGED << asked, dayno, year, mon >>

(* What was on the stack is forgotten; the text stays until the next.      *)
Return ==
  /\ step = "shown" /\ step' = "idle"
  /\ asked' = Nothing /\ dayno' = 0 /\ year' = EPOCH_YR /\ mon' = 0 /\ shown' = << >>

TimeInit ==
  asked = Nothing /\ step = "idle" /\ dayno = 0 /\ year = EPOCH_YR /\ mon = 0 /\ shown = << >>

TimeNext == FormatTime \/ NextYear \/ LastYear \/ NextMonth \/ Show \/ Return

-----------------------------------------------------------------------------
(* The civil calendar, for reference: the days from year 1 on, and those   *)
(* before a month, counted from March as month 0.                          *)
DaysBeforeYear(y) == LET p == y - 1 IN 365 * p + p \div 4 - p \div 100 + p \div 400
DayOf(y, m, d) ==
  LET fromMarch == (m + 10) % 12
      of        == IF m < 2 THEN y - 1 ELSE y
  IN  DaysBeforeYear(of + 1) + (153 * fromMarch + 2) \div 5 + d - 306

(* The text on the console names the civil date, the day of the week and   *)
(* the time of day of the seconds asked for, as far as they fit into an    *)
(* unsigned long, and the nanoseconds.                                     *)
TimeShown ==
  step = "shown" /\ asked.sec < 2 ^ LongBits =>
    LET f    == SelectSeq(FieldsOf(shown, {" ", ",", ":", "+", "\r", "\n"}), LAMBDA x : x # << >>)
        N(i) == ValueOf(f[i], 10)
        days == asked.sec \div SecsDay
    IN
    /\ \E m \in DOMAIN Months :
         f[2] = << Months[m] >> /\ DayOf(N(4), m - 1, N(3)) - DayOf(EPOCH_YR, 0, 1) = days
    /\ f[1] = << Days[((DayOf(EPOCH_YR, 0, 1) + days) % 7) + 1] >>
    /\ N(3) \in 1 .. 31
    /\ days * SecsDay + N(5) * SecsHour + N(6) * SecsMin + N(7) = asked.sec
    /\ N(6) < SecsHour \div SecsMin /\ N(7) < SecsMin /\ N(8) = asked.nsec
=============================================================================
