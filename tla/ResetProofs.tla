----------------------------- MODULE ResetProofs -----------------------------
(***************************************************************************)
(* The schedule is right at every moment, for every length of the day, and *)
(* the automatic reset keeps its promises whatever the length of a day,    *)
(* the countdown and the time that passes.                                 *)
(***************************************************************************)
EXTENDS AutoReset, MCResetSchedule, TLAPS

(* ResetSchedule. *)

\* Quotient and remainder.
LEMMA DivMod ==
  ASSUME NEW a \in Int, NEW b \in Nat \ {0}
  PROVE  a = b * (a \div b) + (a % b) /\ a % b \in 0 .. b - 1 /\ a \div b \in Int
  OBVIOUS

\* A time of day r on day q is on day q, at r.
LEMMA OnDay ==
  ASSUME NEW q \in Int, NEW r \in 0 .. Day - 1
  PROVE  (Day * q + r) % Day = r /\ (Day * q + r) \div Day = q
  BY DayAssumption

\* Days add up.
LEMMA DaysAdd ==
  ASSUME NEW p \in Int, NEW q \in Int
  PROVE  /\ Day * (p + q) = Day * p + Day * q
         /\ Day * p \in Int
         /\ p >= 0 => Day * p >= 0
  BY DayAssumption

\* Days that come one after the other are apart by a day at least.
LEMMA DaysApart ==
  ASSUME NEW p \in Int, NEW q \in Int, p <= q
  PROVE  Day * p <= Day * q
  BY DayAssumption

\* Midnight is where the day of a moment begins.
LEMMA MidnightFacts ==
  ASSUME NEW moment \in Nat
  PROVE  /\ moment \div Day \in Int
         /\ TodayMidnight(moment) = Day * (moment \div Day)
         /\ TodayMidnight(moment) <= moment
         /\ moment < TodayMidnight(moment) + Day
  BY DivMod, DayAssumption DEF TodayMidnight

\* The daily reset computed at any moment is the first midnight after it, over
\* any span of time (NextDailyResetUtc).
THEOREM NextDailyIsFirst ==
  ASSUME NEW moment \in Nat, NEW width \in Nat
  PROVE  IsFirstAfter(NextDailyReset(moment), moment, width, DailyBoundary)
<1> DEFINE d == moment \div Day
<1>1. d \in Int /\ NextDailyReset(moment) = Day * (d + 1) /\ Day * d <= moment
  <2>1. d \in Int /\ TodayMidnight(moment) = Day * d /\ Day * d <= moment
    BY MidnightFacts
  <2>2. Day * (d + 1) = Day * d + Day
    BY <2>1, DaysAdd, DayAssumption
  <2> QED BY <2>1, <2>2 DEF NextDailyReset
<1>2. NextDailyReset(moment) > moment
  BY MidnightFacts, DayAssumption DEF NextDailyReset
<1>3. DailyBoundary(NextDailyReset(moment))
  <2>1. (Day * (d + 1) + 0) % Day = 0
    BY <1>1, OnDay, DayAssumption
  <2> QED BY <1>1, <2>1, DayAssumption DEF DailyBoundary
<1>4. ASSUME NEW t \in moment + 1 .. moment + width, DailyBoundary(t)
      PROVE  NextDailyReset(moment) <= t
  <2> DEFINE q == t \div Day
  <2>1. t \in Int /\ q \in Int /\ t = Day * q
    BY <1>4, DivMod, DayAssumption DEF DailyBoundary
  <2>2. ~(q <= d)
    <3>1. SUFFICES ASSUME q <= d PROVE FALSE
      OBVIOUS
    <3>2. Day * q <= Day * d
      BY <1>1, <2>1, <3>1, DaysApart
    <3> QED BY <1>1, <1>4, <2>1, <3>2, DayAssumption
  <2>3. Day * (d + 1) <= Day * q
    <3>1. d + 1 \in Int /\ d + 1 <= q
      BY <1>1, <2>1, <2>2
    <3> HIDE DEF d, q
    <3> QED BY <2>1, <3>1, DaysApart
  <2> QED BY <1>1, <2>1, <2>3
<1> QED BY <1>2, <1>3, <1>4 DEF IsFirstAfter

\* The weekday repeats every seven days, and in no fewer.
LEMMA WeekdayFacts ==
  ASSUME NEW d \in Int
  PROVE  LET days == (Monday - ((4 + d) % 7) + 7) % 7
         IN  /\ days \in 0 .. 6
             /\ (4 + (d + days)) % 7 = Monday
             /\ (4 + (d + days + 7)) % 7 = Monday
  BY DEF Monday

LEMMA MondaysApart ==
  ASSUME NEW p \in Int, NEW q \in Int, p < q,
         (4 + p) % 7 = Monday, (4 + q) % 7 = Monday
  PROVE  p + 7 <= q
  BY DEF Monday

\* The weekly reset computed at any moment is the first Monday 07:30 after it,
\* over any span of time (NextWeeklyResetUtc).
THEOREM NextWeeklyIsFirst ==
  ASSUME NEW moment \in Nat, NEW width \in Nat
  PROVE  IsFirstAfter(NextWeeklyReset(moment), moment, width, WeeklyBoundary)
<1> DEFINE d == moment \div Day
           days == (Monday - UtcWeekday(moment) + 7) % 7
           candidate == TodayMidnight(moment) + Day * days + WeeklyOffset
           next == NextWeeklyReset(moment)
<1>1. /\ d \in Int /\ days \in 0 .. 6 /\ days \in Int
      /\ (4 + (d + days)) % 7 = Monday /\ (4 + (d + days + 7)) % 7 = Monday
  <2>1. d \in Int /\ UtcWeekday(moment) = (4 + d) % 7
    BY MidnightFacts DEF UtcWeekday
  <2>2. days = (Monday - ((4 + d) % 7) + 7) % 7
    BY <2>1
  <2> HIDE DEF d, days
  <2>3. /\ days \in 0 .. 6
        /\ (4 + (d + days)) % 7 = Monday /\ (4 + (d + days + 7)) % 7 = Monday
    BY <2>1, <2>2, WeekdayFacts
  <2> QED BY <2>1, <2>3
<1>2. /\ TodayMidnight(moment) = Day * d /\ Day * d <= moment /\ moment < Day * d + Day
      /\ Day * d \in Int /\ Day * days \in Int /\ 0 <= Day * days
  <2>1. TodayMidnight(moment) = Day * d /\ Day * d <= moment /\ moment < Day * d + Day
    BY MidnightFacts
  <2> HIDE DEF d, days
  <2>2. Day * d \in Int /\ Day * days \in Int /\ 0 <= Day * days
    <3>1. d \in Int /\ days \in Int /\ days >= 0
      BY <1>1
    <3> QED BY <3>1, DaysAdd
  <2> QED BY <2>1, <2>2
<1>3. candidate = Day * (d + days) + WeeklyOffset /\ candidate \in Int
  <2>1. candidate = Day * d + Day * days + WeeklyOffset
    BY <1>2
  <2> HIDE DEF d, days, candidate
  <2>2. Day * (d + days) = Day * d + Day * days
    BY <1>1, DaysAdd
  <2>3. WeeklyOffset \in Int
    BY DayAssumption
  <2> QED BY <1>2, <2>1, <2>2, <2>3
<1>4. PICK n \in Int : /\ next = Day * n + WeeklyOffset
                       /\ (4 + n) % 7 = Monday
                       /\ \/ candidate > moment /\ n = d + days
                          \/ candidate <= moment /\ n = d + days + 7
  <2>1. CASE candidate > moment
    <3>1. next = candidate
      BY <1>3, <2>1 DEF NextWeeklyReset
    <3>2. d + days \in Int
      BY <1>1
    <3> QED BY <1>1, <1>3, <2>1, <3>1, <3>2
  <2>2. CASE candidate <= moment
    <3>1. next = candidate + 7 * Day
      BY <1>3, <2>2 DEF NextWeeklyReset
    <3>2. next = Day * (d + days + 7) + WeeklyOffset /\ d + days + 7 \in Int
      <4>1. d + days \in Int /\ d + days + 7 \in Int /\ 7 \in Int
        BY <1>1
      <4>2. Day * ((d + days) + 7) = Day * (d + days) + Day * 7
        BY <4>1, DaysAdd
      <4>3. Day * (d + days) \in Int /\ Day \in Int /\ WeeklyOffset \in Int
        BY <4>1, DaysAdd, DayAssumption
      <4> HIDE DEF d, days
      <4> QED BY <1>3, <3>1, <4>1, <4>2, <4>3
    <3> HIDE DEF d, days, candidate, next
    <3> QED BY <1>1, <2>2, <3>2
  <2> QED BY <1>3, <2>1, <2>2
<1> HIDE DEF d, days, next
<1>5. next > moment
  <2>1. CASE candidate > moment
    BY <1>3, <1>4, <2>1
  <2>2. CASE candidate <= moment
    <3>1. next = candidate + 7 * Day
      BY <1>1, <1>3, <1>4, <2>2, DayAssumption
    <3> QED BY <1>2, <1>3, <3>1, DayAssumption
  <2> QED BY <1>3, <2>1, <2>2
<1>6. WeeklyBoundary(next)
  BY <1>4, OnDay, DayAssumption DEF WeeklyBoundary, UtcWeekday
<1>7. ASSUME NEW t \in moment + 1 .. moment + width, WeeklyBoundary(t), t < next
      PROVE  FALSE
  <2>1. PICK q \in Int : t = Day * q + WeeklyOffset /\ (4 + q) % 7 = Monday
    <3>1. t \in Int /\ t % Day = WeeklyOffset /\ (4 + t \div Day) % 7 = Monday
      BY <1>7 DEF WeeklyBoundary, UtcWeekday
    <3>2. t = Day * (t \div Day) + WeeklyOffset /\ t \div Day \in Int
      BY <3>1, DivMod, DayAssumption
    <3> QED BY <3>1, <3>2
  <2>2. q + 7 <= n
    <3>1. ~(n <= q)
      BY <1>4, <1>7, <2>1, DaysApart, DayAssumption
    <3> QED BY <1>4, <2>1, <3>1, MondaysApart
  <2>3. CASE candidate > moment
    <3>1. q <= d - 1 /\ d - 1 \in Int
      BY <1>1, <1>3, <1>4, <2>2, <2>3
    <3>2. Day * q <= Day * (d - 1)
      BY <3>1, DaysApart
    <3>3. Day * d = Day * (d - 1) + Day
      <4>1. d - 1 \in Int /\ 1 \in Int /\ (d - 1) + 1 = d
        BY <1>1
      <4>2. Day * ((d - 1) + 1) = Day * (d - 1) + Day * 1
        BY <4>1, DaysAdd
      <4> QED BY <4>1, <4>2, DayAssumption
    <3>4. /\ t \in Int /\ Day * q \in Int /\ Day * (d - 1) \in Int
          /\ WeeklyOffset \in Int /\ Day \in Int /\ WeeklyOffset < Day
      BY <1>7, <2>1, <3>1, DaysAdd, DayAssumption
    <3>5. t < Day * (d - 1) + Day
      BY <2>1, <3>2, <3>4
    <3>6. moment < t
      BY <1>7
    <3> QED BY <1>2, <3>3, <3>4, <3>5, <3>6
  <2>4. CASE candidate <= moment
    <3>1. q <= d + days /\ d + days \in Int
      BY <1>1, <1>3, <1>4, <2>2, <2>4
    <3>2. Day * q <= Day * (d + days)
      BY <3>1, DaysApart
    <3>3. /\ t \in Int /\ Day * q \in Int /\ Day * (d + days) \in Int
          /\ WeeklyOffset \in Int /\ moment < t
      BY <1>7, <2>1, <3>1, DaysAdd, DayAssumption
    <3> QED BY <1>3, <2>1, <2>4, <3>2, <3>3
  <2> QED BY <1>3, <2>3, <2>4
<1>8. next \in Int
  BY <1>4, DayAssumption
<1> QED BY <1>5, <1>6, <1>7, <1>8 DEF IsFirstAfter, next

\* The clock's time of day and weekday leave the weekly target an integer.
LEMMA WeeklyIsInt ==
  ASSUME NEW t \in Nat
  PROVE  NextWeeklyReset(t) \in Int
<1> DEFINE days == (Monday - UtcWeekday(t) + 7) % 7
           candidate == TodayMidnight(t) + Day * days + WeeklyOffset
<1>1. days \in Int
  BY MidnightFacts DEF UtcWeekday, Monday
<1> HIDE DEF days
<1>2. Day * days \in Int
  BY <1>1, DaysAdd
<1>3. TodayMidnight(t) \in Int
  BY MidnightFacts, DaysAdd
<1>4. candidate \in Int /\ Day \in Int
  BY <1>2, <1>3, DayAssumption
<1>5. NextWeeklyReset(t) = IF candidate <= t THEN candidate + 7 * Day ELSE candidate
  BY DEF NextWeeklyReset, days
<1> QED BY <1>4, <1>5

\* The targets are moments, and no boundary of their kind comes between now and
\* them, however far one looks.
LEMMA FirstOfAll ==
  ASSUME NEW moment \in Nat
  PROVE  /\ NextDailyReset(moment) \in Nat /\ NextDailyReset(moment) > moment
         /\ DailyBoundary(NextDailyReset(moment))
         /\ \A t \in Nat : t > moment /\ DailyBoundary(t) => NextDailyReset(moment) <= t
         /\ NextWeeklyReset(moment) \in Nat /\ NextWeeklyReset(moment) > moment
         /\ WeeklyBoundary(NextWeeklyReset(moment))
         /\ \A t \in Nat : t > moment /\ WeeklyBoundary(t) => NextWeeklyReset(moment) <= t
<1>1. NextDailyReset(moment) \in Int /\ NextWeeklyReset(moment) \in Int
  BY MidnightFacts, DaysAdd, DayAssumption, WeeklyIsInt DEF NextDailyReset
<1>2. \A t \in Nat : t > moment => t \in moment + 1 .. moment + t
  OBVIOUS
<1>3. /\ NextDailyReset(moment) > moment
      /\ DailyBoundary(NextDailyReset(moment))
      /\ \A t \in Nat : t > moment /\ DailyBoundary(t) => NextDailyReset(moment) <= t
  BY <1>2, NextDailyIsFirst DEF IsFirstAfter
<1>4. /\ NextWeeklyReset(moment) > moment
      /\ WeeklyBoundary(NextWeeklyReset(moment))
      /\ \A t \in Nat : t > moment /\ WeeklyBoundary(t) => NextWeeklyReset(moment) <= t
  BY <1>2, NextWeeklyIsFirst DEF IsFirstAfter
<1> QED BY <1>1, <1>3, <1>4

\* From a boundary the next one is a day, or a week, away.
LEMMA BoundaryToBoundary ==
  ASSUME NEW moment \in Nat
  PROVE  /\ DailyBoundary(moment) => NextDailyReset(moment) = moment + Day
         /\ WeeklyBoundary(moment) => NextWeeklyReset(moment) = moment + 7 * Day
<1>1. DailyBoundary(moment) => NextDailyReset(moment) = moment + Day
  BY DayAssumption DEF DailyBoundary, NextDailyReset, TodayMidnight
<1>2. ASSUME WeeklyBoundary(moment) PROVE NextWeeklyReset(moment) = moment + 7 * Day
  <2> DEFINE days == (Monday - UtcWeekday(moment) + 7) % 7
  <2>1. UtcWeekday(moment) = 1 /\ Monday = 1 /\ moment % Day = WeeklyOffset
    BY <1>2 DEF WeeklyBoundary, Monday
  <2>2. days = 0
    BY <2>1
  <2>3. Day * days = 0
    <3> HIDE DEF days
    <3> QED BY <2>2, DayAssumption
  <2>4. TodayMidnight(moment) + Day * days + WeeklyOffset = moment
    <3> HIDE DEF days
    <3> QED BY <2>1, <2>3, DayAssumption DEF TodayMidnight
  <2> QED BY <2>4, DayAssumption DEF NextWeeklyReset
<1> QED BY <1>1, <1>2

\* The schedule does not depend on when it is asked: until its boundary has come
\* every recomputation, by a reset, a Load() or a choice in the options, finds the
\* same target, from then on a later one, and targets that follow each other are
\* a day, or a week, apart (ComputeNextResetUtc).
THEOREM TargetsStand ==
  ASSUME NEW moment \in Nat, NEW later \in Nat, moment <= later
  PROVE  /\ later < NextDailyReset(moment) => NextDailyReset(later) = NextDailyReset(moment)
         /\ later < NextWeeklyReset(moment) => NextWeeklyReset(later) = NextWeeklyReset(moment)
         /\ NextDailyReset(moment) <= NextDailyReset(later)
         /\ NextWeeklyReset(moment) <= NextWeeklyReset(later)
         /\ NextDailyReset(NextDailyReset(moment)) = NextDailyReset(moment) + Day
         /\ NextWeeklyReset(NextWeeklyReset(moment)) = NextWeeklyReset(moment) + 7 * Day
<1>1. /\ later < NextDailyReset(moment) => NextDailyReset(later) = NextDailyReset(moment)
      /\ NextDailyReset(moment) <= NextDailyReset(later)
  <2> DEFINE n == NextDailyReset(moment)
             m == NextDailyReset(later)
  <2>1. /\ n \in Nat /\ DailyBoundary(n)
        /\ \A t \in Nat : t > moment /\ DailyBoundary(t) => n <= t
    BY FirstOfAll
  <2>2. /\ m \in Nat /\ m > later /\ DailyBoundary(m)
        /\ \A t \in Nat : t > later /\ DailyBoundary(t) => m <= t
    BY FirstOfAll
  <2> HIDE DEF n, m
  <2>3. n <= m /\ (later < n => m = n)
    BY <2>1, <2>2
  <2> QED BY <2>3 DEF n, m
<1>2. /\ later < NextWeeklyReset(moment) => NextWeeklyReset(later) = NextWeeklyReset(moment)
      /\ NextWeeklyReset(moment) <= NextWeeklyReset(later)
  <2> DEFINE n == NextWeeklyReset(moment)
             m == NextWeeklyReset(later)
  <2>1. /\ n \in Nat /\ WeeklyBoundary(n)
        /\ \A t \in Nat : t > moment /\ WeeklyBoundary(t) => n <= t
    BY FirstOfAll
  <2>2. /\ m \in Nat /\ m > later /\ WeeklyBoundary(m)
        /\ \A t \in Nat : t > later /\ WeeklyBoundary(t) => m <= t
    BY FirstOfAll
  <2> HIDE DEF n, m
  <2>3. n <= m /\ (later < n => m = n)
    BY <2>1, <2>2
  <2> QED BY <2>3 DEF n, m
<1>3. /\ NextDailyReset(NextDailyReset(moment)) = NextDailyReset(moment) + Day
      /\ NextWeeklyReset(NextWeeklyReset(moment)) = NextWeeklyReset(moment) + 7 * Day
  BY FirstOfAll, BoundaryToBoundary
<1> QED BY <1>1, <1>2, <1>3

-----------------------------------------------------------------------------
(* AutoReset. *)

\* The target of a schedule is the one computed when it was armed, if any.
OnSchedule(s) ==
  \/ s.next = NotApplicable
  \/ s.next = ComputeNextReset(s.armedAt, s.mode, Minutes)

\* Nothing recorded lies ahead of the clock, and no target was computed before
\* the reset it follows.
InThePast ==
  /\ session <= now
  /\ sessionFile <= now
  /\ copy <= now
  /\ lastCheck <= now
  /\ lastUnload <= now
  /\ settings.armedAt <= now
  /\ settings.resetAt <= now
  /\ settings.resetAt <= settings.armedAt

\* The countdown runs from the last Unload() at the earliest.
CountsDown ==
  settings.mode = "minutes_after_unload" /\ settings.next # NotApplicable =>
    settings.next >= lastUnload + Minutes

\* Between the reset and the schedule's record of it the session is the new
\* one, on disk too once it is saved, unless an autosave came in between.
ResetInHand ==
  /\ at \in {"saveReset", "rearm"} => session >= settings.resetAt
  /\ at = "rearm" /\ ~overtaken => sessionFile >= session

\* An instance that runs counts since the last recorded reset.
SessionIsCurrent ==
  /\ at \in Running /\ ~overtaken => session >= settings.resetAt
  /\ ~overtaken => sessionFile >= settings.resetAt

Inv ==
  /\ TypeOK
  /\ settings = settingsFile
  /\ OnSchedule(settings)
  /\ InThePast
  /\ CountsDown
  /\ ResetInHand
  /\ SessionIsCurrent
  /\ NoBoundaryMissed

-----------------------------------------------------------------------------
(* The schedule as computed. *)

\* A target computed from the schedule is a moment.
LEMMA ComputedIsTime ==
  ASSUME NEW t \in Nat, NEW m \in Modes
  PROVE  ComputeNextReset(t, m, Minutes) \in Nat
<1>1. NextDailyReset(t) > t /\ NextWeeklyReset(t) > t
  BY NextDailyIsFirst, NextWeeklyIsFirst DEF IsFirstAfter
<1>2. NextDailyReset(t) \in Int
  BY MidnightFacts, DaysAdd, DayAssumption DEF NextDailyReset
<1>3. NextWeeklyReset(t) \in Int
  BY WeeklyIsInt
<1> QED BY <1>1, <1>2, <1>3, MinutesAssumption
        DEF ComputeNextReset, Modes, NotApplicable

\* An armed schedule is the same one with a target from now on.
LEMMA ArmedFacts ==
  ASSUME NEW s \in Settings, now \in Time
  PROVE  /\ Armed(s) \in Settings
         /\ Armed(s).mode = s.mode
         /\ Armed(s).armedAt = now
         /\ Armed(s).resetAt = s.resetAt
         /\ OnSchedule(Armed(s))
         /\ s.mode = "minutes_after_unload" => Armed(s).next = now + Minutes
<1>1. now \in Nat
  BY TimeAssumption DEF Time
<1>2. ComputeNextReset(now, s.mode, Minutes) \in Nat
  BY <1>1, ComputedIsTime DEF Settings
<1>3. s.mode = "minutes_after_unload" =>
        ComputeNextReset(now, s.mode, Minutes) = now + Minutes
  BY DEF ComputeNextReset
<1> QED BY <1>2, <1>3 DEF Armed, Settings, OnSchedule

\* A schedule whose target is still to come has no boundary behind it.
LEMMA NothingBehind ==
  ASSUME NEW s \in Settings, now \in Time, OnSchedule(s), s.next # NotApplicable,
         now < s.next, NEW t \in s.armedAt + 1 .. now
  PROVE  ~Boundary(s.mode, t)
<1>1. s.armedAt \in Nat /\ now \in Nat /\ t \in Int /\ s.armedAt < t /\ t <= now
  BY TimeAssumption DEF Time, Settings
<1>2. s.next = ComputeNextReset(s.armedAt, s.mode, Minutes) /\ s.next \in Nat
  BY DEF OnSchedule, Settings
<1> DEFINE width == now - s.armedAt
<1>3. width \in Nat /\ s.armedAt + width = now
  BY <1>1
<1>4. CASE s.mode = "on_daily_reset"
  <2>1. s.next = NextDailyReset(s.armedAt)
    BY <1>2, <1>4 DEF ComputeNextReset
  <2>2. IsFirstAfter(NextDailyReset(s.armedAt), s.armedAt, width, DailyBoundary)
    BY <1>1, <1>3, NextDailyIsFirst
  <2>3. DailyBoundary(t) => s.next <= t
    BY <1>3, <2>1, <2>2 DEF IsFirstAfter
  <2> QED BY <1>1, <1>2, <1>4, <2>3 DEF Boundary
<1>5. CASE s.mode = "on_weekly_reset"
  <2>1. s.next = NextWeeklyReset(s.armedAt)
    BY <1>2, <1>5 DEF ComputeNextReset
  <2>2. IsFirstAfter(NextWeeklyReset(s.armedAt), s.armedAt, width, WeeklyBoundary)
    BY <1>1, <1>3, NextWeeklyIsFirst
  <2>3. WeeklyBoundary(t) => s.next <= t
    BY <1>3, <2>1, <2>2 DEF IsFirstAfter
  <2> QED BY <1>1, <1>2, <1>5, <2>3 DEF Boundary
<1>6. CASE s.mode \notin {"on_daily_reset", "on_weekly_reset"}
  BY <1>6 DEF Boundary
<1> QED BY <1>4, <1>5, <1>6

-----------------------------------------------------------------------------
(* The invariant. *)

LEMMA InitInv == Init => Inv
<1> SUFFICES ASSUME Init PROVE Inv
  OBVIOUS
<1>1. settings \in Settings /\ settings.next = NotApplicable
      /\ settings.armedAt = Start /\ settings.resetAt = Start
  BY TimeAssumption DEF Init, Settings, Time, NotApplicable
<1>2. TypeOK
  <2>1. Start \in Time
    BY TimeAssumption DEF Time
  <2> QED BY <1>1, <2>1 DEF Init, TypeOK
<1>3. Start \in Nat /\ -1 <= Start
  BY TimeAssumption
<1>4. InThePast
  BY <1>1, <1>3 DEF Init, InThePast, NoCopy
<1>5. ResetInHand /\ SessionIsCurrent
  BY <1>1, <1>3 DEF Init, ResetInHand, SessionIsCurrent, Running, Calls
<1> QED
  BY <1>1, <1>2, <1>4, <1>5
     DEF Init, Inv, OnSchedule, CountsDown, NoBoundaryMissed

LEMMA NextType == TypeOK /\ [Next]_vars => TypeOK'
<1> SUFFICES ASSUME TypeOK, [Next]_vars PROVE TypeOK'
  OBVIOUS
<1> USE DEF TypeOK
<1>1. now \in Time /\ settings \in Settings /\ Armed(settings) \in Settings
  BY ArmedFacts
<1>2. [Armed(settings) EXCEPT !.resetAt = session] \in Settings
  BY <1>1 DEF Settings
<1>3. ASSUME NEW m \in Modes PROVE Armed([settings EXCEPT !.mode = m]) \in Settings
  <2>1. [settings EXCEPT !.mode = m] \in Settings
    BY <1>1 DEF Settings
  <2> QED BY <1>1, <2>1, ArmedFacts
<1>4. CASE Tick
  BY <1>4, TimeAssumption DEF Tick, files, ghost, Time
<1>5. CASE BeginLoad
  BY <1>5 DEF BeginLoad, files, ghost, Running, Calls, Loaded, NoCopy
<1>6. CASE BeginFrameCheck
  BY <1>6 DEF BeginFrameCheck, files, ghost, Running, Calls, Loaded, NoCopy
<1>7. CASE CheckStep
  <2>1. CASE InitializeSchedule
    BY <1>1, <2>1 DEF InitializeSchedule, EndCheck, Running, Calls, Loaded
  <2>2. CASE NotDue
    BY <1>1, <2>2 DEF NotDue, EndCheck, files, Running, Calls, Loaded
  <2>3. CASE AutomaticReset
    BY <1>1, <2>3 DEF AutomaticReset, files, Running, Calls, Loaded
  <2>4. CASE SaveReset
    BY <1>1, <2>4 DEF SaveReset, Running, Calls, Loaded
  <2>5. CASE Rearm
    BY <1>2, <2>5 DEF Rearm, EndCheck, ghost, Running, Calls, Loaded
  <2> QED BY <1>7, <2>1, <2>2, <2>3, <2>4, <2>5 DEF CheckStep
<1>8. CASE \E m \in Modes : SelectMode(m)
  <2>1. PICK m \in Modes : SelectMode(m)
    BY <1>8
  <2>2. settings' \in Settings
    BY <1>3, <2>1 DEF SelectMode
  <2> QED BY <2>1, <2>2 DEF SelectMode, ghost, Loaded
<1>9. CASE ResetButton
  BY <1>9 DEF ResetButton, Loaded
<1>10. CASE AutosaveRead
  BY <1>10 DEF AutosaveRead, files, ghost, Loaded
<1>11. CASE AutosaveWrite
  BY <1>11, TimeAssumption DEF AutosaveWrite, Time, NoCopy, Loaded
<1>12. CASE BeginUnload
  BY <1>12 DEF BeginUnload, Joined, files, ghost, Running, Calls
<1>13. CASE UnloadSaveSettings
  BY <1>1, <1>13 DEF UnloadSaveSettings, UnloadSettings, Running, Calls, Loaded
<1>14. CASE UnloadSaveSession
  BY <1>14 DEF UnloadSaveSession, ghost, Running, Loaded
<1>15. CASE EndOfProcess
  BY <1>15 DEF EndOfProcess, files, NoCopy
<1>16. CASE UNCHANGED vars
  BY <1>16 DEF vars, files, ghost
<1> QED BY <1>4, <1>5, <1>6, <1>7, <1>8, <1>9, <1>10, <1>11, <1>12, <1>13, <1>14, <1>15,
           <1>16 DEF Next

\* What the types say of the moments recorded.
LEMMA Moments ==
  ASSUME TypeOK
  PROVE  /\ now \in Nat /\ session \in Nat /\ sessionFile \in Nat
         /\ lastCheck \in Nat /\ lastUnload \in Nat
         /\ settings.armedAt \in Nat /\ settings.resetAt \in Nat
         /\ settings.next \in Nat /\ settings.mode \in Modes
         /\ copy \in Nat \cup {NoCopy} /\ Minutes \in Nat
BY TimeAssumption, MinutesAssumption DEF TypeOK, Time, Settings

\* A step that leaves the schedule, the session, its file and the records be.
LEMMA SameRecords ==
  ASSUME Inv, Next,
         UNCHANGED <<settings, settingsFile, session, sessionFile, ghost>>,
         copy' \in {copy, session, NoCopy},
         now' >= now,
         at' \in {"saveReset", "rearm"} => at' = at,
         at' \in Running => at \in Running,
         at' = "idle" => at = "idle"
  PROVE  Inv'
<1>1. TypeOK'
  BY NextType DEF Inv
<1>2. now \in Nat /\ now' \in Nat /\ NoCopy <= now
  BY <1>1, TimeAssumption DEF Inv, TypeOK, Time, NoCopy
<1> USE Moments DEF Inv, ghost
<1>3. OnSchedule(settings)' /\ CountsDown'
  BY DEF OnSchedule, CountsDown
<1>4. InThePast'
  BY <1>2 DEF InThePast, NoCopy
<1>5. ResetInHand' /\ SessionIsCurrent'
  BY DEF ResetInHand, SessionIsCurrent
<1>6. NoBoundaryMissed'
  BY DEF NoBoundaryMissed
<1> QED BY <1>1, <1>3, <1>4, <1>5, <1>6

LEMMA NextInv == Inv /\ [Next]_vars => Inv'
<1> SUFFICES ASSUME Inv, [Next]_vars PROVE Inv'
  OBVIOUS
<1>1. TypeOK' /\ TypeOK
  BY NextType DEF Inv
<1>2. now \in Nat /\ now \in Time /\ settings \in Settings
  BY <1>1, Moments DEF TypeOK
<1>4. CASE Tick
  BY <1>2, <1>4, SameRecords DEF Tick, files, Next
<1>5. CASE BeginLoad
  <2> USE <1>5 DEF BeginLoad, files, ghost, Inv
  <2>1. OnSchedule(settings)' /\ CountsDown'
    BY DEF OnSchedule, CountsDown
  <2>2. InThePast'
    BY <1>1, TimeAssumption DEF InThePast
  <2>3. ResetInHand' /\ SessionIsCurrent'
    BY DEF ResetInHand, SessionIsCurrent
  <2> QED BY <1>1, <2>1, <2>2, <2>3 DEF NoBoundaryMissed
<1>6. CASE BeginFrameCheck
  BY <1>2, <1>6, SameRecords DEF BeginFrameCheck, files, Next, Running, Calls
<1>7. CASE InitializeSchedule
  <2> USE <1>7 DEF InitializeSchedule, EndCheck, Inv
  <2>1. OnSchedule(settings)' /\ CountsDown'
    BY <1>2, ArmedFacts, Moments DEF OnSchedule, CountsDown, InThePast
  <2>2. InThePast'
    BY <1>2, ArmedFacts, Moments DEF InThePast
  <2>3. ResetInHand' /\ SessionIsCurrent'
    BY <1>2, ArmedFacts DEF ResetInHand, SessionIsCurrent, Running, Calls
  <2>4. NoBoundaryMissed'
    BY <1>2, ArmedFacts, Moments DEF NoBoundaryMissed
  <2> QED BY <1>1, <2>1, <2>2, <2>3, <2>4
<1>8. CASE NotDue
  <2> USE <1>8 DEF NotDue, EndCheck, Inv, files
  <2>1. OnSchedule(settings)' /\ CountsDown'
    BY DEF OnSchedule, CountsDown
  <2>2. InThePast'
    BY <1>2, Moments DEF InThePast
  <2>3. ResetInHand' /\ SessionIsCurrent'
    BY DEF ResetInHand, SessionIsCurrent, Running, Calls
  <2>4. NoBoundaryMissed'
    <3>1. CASE settings.mode \in {"on_daily_reset", "on_weekly_reset"}
      <4>1. settings.next # NotApplicable
        BY <3>1 DEF Uninitialized
      <4>2. now < settings.next
        BY <1>2, <3>1, Moments DEF Due
      <4>3. \A t \in settings.armedAt + 1 .. now : ~Boundary(settings.mode, t)
        BY <1>2, <4>1, <4>2, NothingBehind
      <4> QED BY <4>3 DEF NoBoundaryMissed
    <3>2. CASE settings.mode \notin {"on_daily_reset", "on_weekly_reset"}
      BY <3>2 DEF NoBoundaryMissed, Boundary
    <3> QED BY <3>1, <3>2
  <2> QED BY <1>1, <2>1, <2>2, <2>3, <2>4
<1>9. CASE AutomaticReset
  <2> USE <1>9 DEF AutomaticReset, Inv, files
  <2>1. OnSchedule(settings)' /\ CountsDown'
    BY DEF OnSchedule, CountsDown
  <2>2. InThePast'
    BY <1>2, Moments DEF InThePast
  <2>3. ResetInHand' /\ SessionIsCurrent'
    BY DEF ResetInHand, SessionIsCurrent, InThePast
  <2> QED BY <1>1, <2>1, <2>2, <2>3 DEF NoBoundaryMissed
<1>10. CASE SaveReset
  <2> USE <1>10 DEF SaveReset, Inv
  <2>1. OnSchedule(settings)' /\ CountsDown'
    BY DEF OnSchedule, CountsDown
  <2>2. InThePast'
    BY DEF InThePast
  <2>3. ResetInHand' /\ SessionIsCurrent'
    BY <1>2, Moments DEF ResetInHand, SessionIsCurrent
  <2> QED BY <1>1, <2>1, <2>2, <2>3 DEF NoBoundaryMissed
<1>11. CASE Rearm
  <2> USE <1>11 DEF Rearm, EndCheck, Inv, ghost
  <2> DEFINE s == Armed(settings)
  <2>1. /\ settings' \in Settings
        /\ settings'.mode = s.mode /\ settings'.next = s.next
        /\ settings'.armedAt = s.armedAt /\ settings'.resetAt = session
    BY <1>1, <1>2, ArmedFacts DEF Settings, TypeOK
  <2>2. OnSchedule(settings)' /\ CountsDown'
    BY <1>2, <2>1, ArmedFacts, Moments DEF OnSchedule, CountsDown, InThePast
  <2>3. InThePast'
    BY <1>1, <1>2, <2>1, ArmedFacts, Moments DEF InThePast
  <2>4. ResetInHand' /\ SessionIsCurrent'
    BY <1>1, <2>1, Moments DEF ResetInHand, SessionIsCurrent
  <2>5. NoBoundaryMissed'
    BY <1>1, <1>2, <2>1, ArmedFacts, Moments DEF NoBoundaryMissed, InThePast
  <2> QED BY <1>1, <2>2, <2>3, <2>4, <2>5
<1>12. CASE \E m \in Modes : SelectMode(m)
  <2> USE DEF SelectMode, Inv, ghost
  <2>1. PICK m \in Modes : SelectMode(m)
    BY <1>12
  <2> DEFINE s == [settings EXCEPT !.mode = m]
  <2>2. s \in Settings /\ s.resetAt = settings.resetAt /\ s.mode = m
    BY <1>2 DEF Settings
  <2>3. settings' = Armed(s) /\ settingsFile' = settings'
    BY <2>1
  <2> HIDE DEF s
  <2>4. OnSchedule(settings)' /\ CountsDown'
    BY <1>2, <2>1, <2>2, <2>3, ArmedFacts, Moments DEF OnSchedule, CountsDown, InThePast
  <2>5. InThePast'
    BY <1>1, <1>2, <2>1, <2>2, <2>3, ArmedFacts, Moments DEF InThePast
  <2>6. ResetInHand' /\ SessionIsCurrent'
    BY <1>2, <2>1, <2>2, <2>3, ArmedFacts
       DEF ResetInHand, SessionIsCurrent, Running, Calls
  <2>7. NoBoundaryMissed'
    BY <1>1, <1>2, <2>1, <2>2, <2>3, ArmedFacts, Moments DEF NoBoundaryMissed, InThePast
  <2> QED BY <1>1, <2>1, <2>3, <2>4, <2>5, <2>6, <2>7
<1>13. CASE ResetButton
  <2> USE <1>13 DEF ResetButton, Inv
  <2>1. OnSchedule(settings)' /\ CountsDown'
    BY DEF OnSchedule, CountsDown
  <2>2. InThePast'
    BY <1>2 DEF InThePast
  <2>3. ResetInHand' /\ SessionIsCurrent'
    BY DEF ResetInHand, SessionIsCurrent, InThePast
  <2> QED BY <1>1, <2>1, <2>2, <2>3 DEF NoBoundaryMissed
<1>14. CASE AutosaveRead
  BY <1>2, <1>14, SameRecords DEF AutosaveRead, files, Next
<1>15. CASE AutosaveWrite
  <2> USE <1>15 DEF AutosaveWrite, Inv
  <2>1. OnSchedule(settings)' /\ CountsDown'
    BY DEF OnSchedule, CountsDown
  <2>2. InThePast'
    BY <1>2 DEF InThePast, NoCopy
  <2>3. at \in Running /\ (~overtaken' => ~overtaken /\ copy >= session)
    <3>1. at \in Running
      BY <1>1 DEF TypeOK, Loaded, Running, Calls
    <3>2. copy \in Nat /\ session \in Nat
      BY <1>1, Moments
    <3>3. overtaken' = (overtaken \/ copy < session)
      OBVIOUS
    <3>4. CASE copy < session
      BY <3>1, <3>3, <3>4
    <3>5. CASE copy >= session
      BY <3>1, <3>3, <3>5, Zenon
    <3> QED BY <3>2, <3>4, <3>5
  <2>4. ResetInHand' /\ SessionIsCurrent'
    BY <1>1, <2>3, Moments DEF ResetInHand, SessionIsCurrent, NoCopy
  <2> QED BY <1>1, <2>1, <2>2, <2>4 DEF NoBoundaryMissed
<1>16. CASE BeginUnload
  BY <1>2, <1>16, SameRecords DEF BeginUnload, files, Next, Running, Calls
<1>17. CASE UnloadSaveSettings
  <2> USE <1>17 DEF UnloadSaveSettings, UnloadSettings, Inv
  <2>1. OnSchedule(settings)' /\ CountsDown'
    BY <1>2, ArmedFacts, Moments DEF OnSchedule, CountsDown
  <2>2. InThePast'
    BY <1>2, ArmedFacts, Moments DEF InThePast
  <2>3. ResetInHand' /\ SessionIsCurrent'
    BY <1>2, ArmedFacts DEF ResetInHand, SessionIsCurrent, Running, Calls
  <2> QED BY <1>1, <2>1, <2>2, <2>3 DEF NoBoundaryMissed
<1>18. CASE UnloadSaveSession
  <2> USE <1>18 DEF UnloadSaveSession, Inv, ghost
  <2>1. OnSchedule(settings)' /\ CountsDown'
    BY DEF OnSchedule, CountsDown
  <2>2. InThePast'
    BY DEF InThePast
  <2>3. ResetInHand' /\ SessionIsCurrent'
    BY DEF ResetInHand, SessionIsCurrent, Running, Calls
  <2> QED BY <1>1, <2>1, <2>2, <2>3 DEF NoBoundaryMissed
<1>19. CASE EndOfProcess
  <2> USE <1>19 DEF EndOfProcess, Inv, files
  <2>1. OnSchedule(settings)' /\ CountsDown'
    BY DEF OnSchedule, CountsDown
  <2>2. InThePast'
    BY <1>2 DEF InThePast, NoCopy
  <2>3. ResetInHand' /\ SessionIsCurrent'
    BY DEF ResetInHand, SessionIsCurrent, Running, Calls
  <2> QED BY <1>1, <2>1, <2>2, <2>3 DEF NoBoundaryMissed
<1>20. CASE UNCHANGED vars
  <2> USE <1>20 DEF vars, files, ghost, Inv
  <2>1. OnSchedule(settings)' /\ CountsDown' /\ InThePast'
    BY DEF OnSchedule, CountsDown, InThePast
  <2>2. ResetInHand' /\ SessionIsCurrent' /\ NoBoundaryMissed'
    BY DEF ResetInHand, SessionIsCurrent, NoBoundaryMissed
  <2> QED BY <1>1, <2>1, <2>2
<1> QED BY <1>4, <1>5, <1>6, <1>7, <1>8, <1>9, <1>10, <1>11, <1>12, <1>13, <1>14, <1>15,
           <1>16, <1>17, <1>18, <1>19, <1>20 DEF Next, CheckStep

-----------------------------------------------------------------------------
(* The theorems. *)

LEMMA AlwaysInv == Spec => []Inv
<1> QED BY InitInv, NextInv, PTL DEF Spec

\* Every variable of the automatic reset keeps its type, and the autosave
\* thread holds a copy only while the addon is loaded: StopAutosaveThread() joins
\* it before Unload() goes on.
THEOREM TypesHold == Spec => []TypeOK
<1>1. Inv => TypeOK
  BY DEF Inv
<1> QED BY <1>1, AlwaysInv, PTL

\* However long a day, whatever the user chooses and whenever the process ends,
\* no reset boundary goes by unnoticed (CheckAndApplyAutomaticReset).
THEOREM BoundariesAreNotMissed == Spec => []NoBoundaryMissed
<1>1. Inv => NoBoundaryMissed
  BY DEF Inv
<1> QED BY <1>1, AlwaysInv, PTL

\* A reset that settings.json records as done is not undone by a crash: the
\* session is saved before the target that follows it (main.cpp's order of
\* SaveSessionState and SaveSettings), but for an autosave it overtook.
THEOREM ResetsStick == Spec => []ResetSticks
<1>1. Inv => ResetSticks
  BY DEF Inv, SessionIsCurrent, ResetSticks, Running
<1> QED BY <1>1, AlwaysInv, PTL

\* The target of a calendar schedule is a boundary after it was computed.
LEMMA TargetIsBoundary ==
  ASSUME NEW s \in Settings, OnSchedule(s), s.next # NotApplicable,
         s.mode \in {"on_daily_reset", "on_weekly_reset"}
  PROVE  s.next > s.armedAt /\ Boundary(s.mode, s.next)
<1>1. s.armedAt \in Nat /\ 0 \in Nat
  BY TimeAssumption DEF Time, Settings
<1>2. CASE s.mode = "on_daily_reset"
  <2>1. s.next = NextDailyReset(s.armedAt)
    BY <1>2 DEF OnSchedule, ComputeNextReset
  <2>2. IsFirstAfter(NextDailyReset(s.armedAt), s.armedAt, 0, DailyBoundary)
    BY <1>1, NextDailyIsFirst
  <2> QED BY <1>2, <2>1, <2>2 DEF IsFirstAfter, Boundary
<1>3. CASE s.mode = "on_weekly_reset"
  <2>1. s.next = NextWeeklyReset(s.armedAt)
    BY <1>3 DEF OnSchedule, ComputeNextReset
  <2>2. IsFirstAfter(NextWeeklyReset(s.armedAt), s.armedAt, 0, WeeklyBoundary)
    BY <1>1, NextWeeklyIsFirst
  <2> QED BY <1>3, <2>1, <2>2 DEF IsFirstAfter, Boundary
<1> QED BY <1>2, <1>3

\* The moment and the mode a reset is due at.
ResetIsDue ==
  \/ settings.mode = "on_addon_load" /\ loading
  \/ settings.mode = "minutes_after_unload" /\ loading /\ now >= lastUnload + Minutes
  \/ \E t \in settings.resetAt + 1 .. now : Boundary(settings.mode, t)

\* No automatic reset comes before its time and none comes twice: by "minutes
\* after unload" never sooner than the minutes after the last Unload(), by a
\* calendar schedule once for every boundary (CheckAndApplyAutomaticReset, Unload).
THEOREM ResetsComeWhenDue == Spec => ResetsAreDue
<1>1. ASSUME Inv, [Next]_vars, ResetStep PROVE ResetIsDue
  <2>1. AutomaticReset
    BY <1>1 DEF Inv, ResetStep, Next, CheckStep, Tick, BeginLoad, BeginFrameCheck,
                InitializeSchedule, NotDue, SaveReset, Rearm, EndCheck, SelectMode,
                ResetButton, AutosaveRead, AutosaveWrite, BeginUnload, UnloadSaveSettings,
                UnloadSaveSession, EndOfProcess, vars
  <2>2. /\ now \in Nat /\ settings.next \in Nat /\ lastUnload \in Nat /\ Minutes \in Nat
        /\ settings.armedAt \in Nat /\ settings.resetAt \in Nat /\ settings.mode \in Modes
        /\ settings \in Settings
    BY <1>1, Moments DEF Inv, TypeOK
  <2>3. ~Uninitialized /\ Due
    BY <2>1 DEF AutomaticReset
  <2>4. CASE settings.mode \in {"never", "on_addon_load"}
    BY <2>3, <2>4 DEF Due, ResetIsDue
  <2>5. CASE settings.mode = "minutes_after_unload"
    BY <1>1, <2>2, <2>3, <2>5 DEF Due, Uninitialized, ResetIsDue, Inv, CountsDown
  <2>6. CASE settings.mode \in {"on_daily_reset", "on_weekly_reset"}
    <3>1. settings.next # NotApplicable /\ now >= settings.next
      BY <2>3, <2>6 DEF Due, Uninitialized
    <3>2. settings.next > settings.armedAt /\ Boundary(settings.mode, settings.next)
      BY <1>1, <2>2, <2>6, <3>1, TargetIsBoundary DEF Inv
    <3>3. settings.resetAt <= settings.armedAt
      BY <1>1 DEF Inv, InThePast
    <3>4. settings.next \in settings.resetAt + 1 .. now
      BY <2>2, <3>1, <3>2, <3>3
    <3> QED BY <3>2, <3>4 DEF ResetIsDue
  <2> QED BY <2>2, <2>4, <2>5, <2>6 DEF Modes
<1>2. Inv /\ [Next]_vars => [ResetStep => ResetIsDue]_vars
  BY <1>1
<1> QED BY <1>2, AlwaysInv, PTL DEF Spec, ResetsAreDue, ResetIsDue

-----------------------------------------------------------------------------
(* MCResetSchedule: the schedule computed at one moment after the other.     *)

\* The clock is a moment and the targets are the ones computed at it.
ClockInv ==
  /\ clock \in Nat
  /\ daily = NextDailyReset(clock)
  /\ weekly = NextWeeklyReset(clock)

\* The targets computed at every moment are boundaries after it, and no boundary
\* comes sooner in the day and the week that follow (NextDailyResetUtc,
\* NextWeeklyResetUtc).
THEOREM TargetsAlwaysFirst == ClockSpec => []TargetsAreFirst
<1>1. ClockInit => ClockInv
  BY DEF ClockInit, ClockInv
<1>2. ClockInv /\ [ClockTick]_<<clock, daily, weekly>> => ClockInv'
  BY DEF ClockTick, ClockInv
<1>3. ClockInv => TargetsAreFirst
  <2> SUFFICES ASSUME ClockInv PROVE TargetsAreFirst
    OBVIOUS
  <2>1. clock \in Nat /\ Day \in Nat /\ 7 * Day \in Nat
    BY DayAssumption DEF ClockInv
  <2>2. IsFirstAfter(NextDailyReset(clock), clock, Day, DailyBoundary)
    BY <2>1, NextDailyIsFirst
  <2>3. IsFirstAfter(NextWeeklyReset(clock), clock, 7 * Day, WeeklyBoundary)
    BY <2>1, NextWeeklyIsFirst
  <2> QED BY <2>2, <2>3 DEF ClockInv, TargetsAreFirst
<1> QED BY <1>1, <1>2, <1>3, PTL DEF ClockSpec

=============================================================================
