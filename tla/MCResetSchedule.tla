--------------------------- MODULE MCResetSchedule ---------------------------
(***************************************************************************)
(* Every moment of a span of time, and the schedule computed from it.      *)
(***************************************************************************)
EXTENDS ResetSchedule

CONSTANT Span  \* bound: how many units of time are tried

VARIABLES
  clock,  \* the moment the schedule is asked at
  daily,  \* what it answers
  weekly

ClockInit ==
  /\ clock = 0
  /\ daily = NextDailyReset(0)
  /\ weekly = NextWeeklyReset(0)

ClockTick ==
  /\ clock < Span
  /\ clock' = clock + 1
  /\ daily' = NextDailyReset(clock')
  /\ weekly' = NextWeeklyReset(clock')

ClockSpec == ClockInit /\ [][ClockTick]_<<clock, daily, weekly>>

\* The daily reset computed at any moment is the first midnight after it
\* (NextDailyResetUtc), and the weekly one the first Monday 07:30, on that Monday
\* before and after 07:30 as well (NextWeeklyResetUtc).
TargetsAreFirst ==
  /\ IsFirstAfter(daily, clock, Day, DailyBoundary)
  /\ IsFirstAfter(weekly, clock, 7 * Day, WeeklyBoundary)

=============================================================================
