---------------------------- MODULE ResetSchedule ----------------------------
(***************************************************************************)
(* ResetScheduler: when the next automatic reset is due, as arithmetic on   *)
(* UTC time.  Time is counted in units from 1970-01-01 00:00 UTC, a day     *)
(* being Day units long; the code's unit is the second, and its reset days  *)
(* and hours are all multiples of a minute.                                 *)
(***************************************************************************)
EXTENDS Integers

CONSTANTS
  Day,          \* units in a day: 1440 when the unit is a minute
  WeeklyOffset  \* the weekly reset's time of day: 07:30, 450 in minutes

ASSUME DayAssumption == Day \in Nat \ {0} /\ WeeklyOffset \in 0 .. Day - 1

Modes == {"never", "on_addon_load", "minutes_after_unload", "on_daily_reset",
          "on_weekly_reset"}

\* time_point::max(), for the modes without a future timestamp; kept in
\* settings.json as 0.
NotApplicable == 0

\* gmtime_s and _mkgmtime: the day a time falls on and its weekday, counted
\* from Sunday.  1970-01-01 was a Thursday.
TodayMidnight(now) == now - (now % Day)
UtcWeekday(now)    == (4 + now \div Day) % 7

Monday == 1

NextDailyReset(now) == TodayMidnight(now) + Day

\* Slip: a candidate that has passed earlier today is kept.
NextWeeklyResetSameDay(now) ==
  TodayMidnight(now) + Day * ((Monday - UtcWeekday(now) + 7) % 7) + WeeklyOffset

\* The reset weekday of this week, counting today, or of the next one if that
\* time has passed.
NextWeeklyReset(now) ==
  LET days      == (Monday - UtcWeekday(now) + 7) % 7
      candidate == TodayMidnight(now) + Day * days + WeeklyOffset
  IN  IF candidate <= now THEN candidate + 7 * Day ELSE candidate

ComputeNextReset(now, mode, minutes) ==
  CASE mode = "minutes_after_unload" -> now + minutes
    [] mode = "on_daily_reset"       -> NextDailyReset(now)
    [] mode = "on_weekly_reset"      -> NextWeeklyReset(now)
    [] OTHER                         -> NotApplicable

-----------------------------------------------------------------------------
(* What the schedule is: the set of the moments at which a reset falls. *)

DailyBoundary(t)  == t % Day = 0
WeeklyBoundary(t) == t % Day = WeeklyOffset /\ UtcWeekday(t) = Monday

\* next is the first moment after now that P holds of, within a span of width.
IsFirstAfter(next, now, width, P(_)) ==
  /\ next > now
  /\ P(next)
  /\ \A t \in now + 1 .. now + width : P(t) => next <= t

=============================================================================
