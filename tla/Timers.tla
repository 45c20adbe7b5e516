-------------------------------- MODULE Timers --------------------------------
(***************************************************************************)
(* ftimer.c: n calls of f between two readings of a clock.  ftimer_itimer  *)
(* reads the interval timer, which counts down from MAX_ETIME and kills    *)
(* the process when it gets to 0; ftimer_gettod reads the time of day,     *)
(* which may be set meanwhile.  Times are in microseconds, and the clocks  *)
(* give them in seconds and microseconds.                                  *)
(*                                                                         *)
(* Of the three interval timers only the one of real time is read.  The    *)
(* others run no faster and are set to as much: they do not end before it. *)
(***************************************************************************)
EXTENDS Integers

CONSTANTS
  n,             \* calls of a measurement
  usec_per_sec, MAX_ETIME,
  Settings,      \* by how much the time of day may be set forward or back
  MaxTime        \* bound on the time of day

VARIABLES
  build,         \* how config.h has the program timed: "FCYC", "ITIMER" or "GETTOD"
  day,           \* time of day
  itimer, first, \* the interval timer, or 0 while not set; what it was set to
  start, calls,  \* locals
  at,            \* "idle", "start", "calls", "f", "killed"
  tmeas,         \* time of the last measurement, for n calls
  \* history:
  passed,        \* time between the readings, so far
  set,           \* the time of day has been set between them
  since_begin    \* time since the measurement began

clocks == <<day, itimer, first>>
watch == <<passed, since_begin, set>>
timer_vars == <<build, clocks, start, calls, at, tmeas, watch>>

timeval(t) == [sec |-> t \div usec_per_sec, usec |-> t % usec_per_sec]

diff_NoBorrow(a, b) ==
  usec_per_sec * (a.sec - b.sec) + (IF a.usec > b.usec THEN a.usec - b.usec ELSE 0)
diff(a, b) == usec_per_sec * (a.sec - b.sec) + (a.usec - b.usec)

-----------------------------------------------------------------------------
(* The clocks *)

Between == at \in {"calls", "f"}

\* SIGALRM ends a process that has no handler for it.
Pass ==
  /\ at # "killed" /\ day < MaxTime
  /\ day' = day + 1
  /\ passed' = IF Between THEN passed + 1 ELSE passed
  /\ since_begin' = since_begin + 1
  /\ itimer' = IF itimer = 0 THEN 0 ELSE itimer - 1
  /\ at' = IF itimer = 1 THEN "killed" ELSE at
  /\ UNCHANGED <<build, first, start, calls, tmeas, set>>

SetDay ==
  /\ build = "GETTOD" /\ Between /\ ~set /\ set' = TRUE
  /\ \E s \in Settings : day + s \in 0 .. MaxTime /\ day' = day + s
  /\ UNCHANGED <<build, itimer, first, start, calls, at, tmeas, passed, since_begin>>

init_etime_Once ==
  IF first = 0 THEN first' = MAX_ETIME /\ itimer' = MAX_ETIME ELSE UNCHANGED <<first, itimer>>
init_etime == first' = MAX_ETIME /\ itimer' = MAX_ETIME

get_etime == diff(timeval(first), timeval(itimer))

-----------------------------------------------------------------------------
(* ftimer_itimer and ftimer_gettod *)

ftimer ==
  /\ at = "idle" /\ at' = "start"
  /\ IF build = "ITIMER" THEN init_etime ELSE UNCHANGED <<itimer, first>>
  /\ since_begin' = 0
  /\ UNCHANGED <<build, day, start, calls, tmeas, passed, set>>

ReadStart ==
  /\ at = "start" /\ at' = "calls"
  /\ start' = IF build = "ITIMER" THEN get_etime ELSE day
  /\ calls' = 0
  /\ passed' = 0 /\ set' = FALSE
  /\ UNCHANGED <<build, clocks, tmeas, since_begin>>

Call ==
  /\ at = "calls" /\ calls < n /\ at' = "f"
  /\ UNCHANGED <<build, clocks, start, calls, tmeas, watch>>

CallReturns ==
  /\ at = "f" /\ at' = "calls" /\ calls' = calls + 1
  /\ UNCHANGED <<build, clocks, start, tmeas, watch>>

measured == IF build = "ITIMER" THEN get_etime - start ELSE diff(timeval(day), timeval(start))

\* The mean is tmeas / n.
ReadEnd ==
  /\ at = "calls" /\ calls = n /\ at' = "idle"
  /\ tmeas' = measured
  /\ UNCHANGED <<build, clocks, start, calls, watch>>

Killed == at = "killed" /\ UNCHANGED timer_vars

TimersInit ==
  /\ build \in {"FCYC", "ITIMER", "GETTOD"} /\ day = 0
  /\ itimer = 0 /\ first = 0 /\ start = 0 /\ calls = 0 /\ at = "idle" /\ tmeas = 0
  /\ passed = 0 /\ set = FALSE /\ since_begin = 0

Measuring_f == ReadStart \/ Call \/ CallReturns \/ ReadEnd

-----------------------------------------------------------------------------
(* Properties *)

\* A measurement is the time that passed between its two readings: with the
\* interval timer always, however long ago it was set first, and with the time of
\* day if that was not set in between, wherever its second changes.  The interval
\* timer ends the program only a day after the last measurement began, whenever
\* earlier ones did.
MeasuresCalls ==
  /\ at = "idle" /\ ~set => tmeas = passed
  /\ at = "killed" => since_begin = MAX_ETIME
=============================================================================
