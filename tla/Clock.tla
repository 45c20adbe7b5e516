-------------------------------- MODULE Clock --------------------------------
(***************************************************************************)
(* clock.c: the cycle counter read in two halves, and the counters that    *)
(* compensate for timer interrupts, among them callibrate, which estimates *)
(* what one interrupt costs.                                               *)
(*                                                                         *)
(* The process reads two clocks of the machine, never both at once: the    *)
(* cycle counter tsc and the ticks charged to it, utime.  Between any two  *)
(* of its reads the machine goes on: the process runs (Run), or a timer    *)
(* interrupt is served (Tick), which costs TickCost cycles and charges one *)
(* tick.                                                                   *)
(*                                                                         *)
(* Counter values are exact numbers, as they are in a double up to 2^53.   *)
(***************************************************************************)
EXTENDS Integers

CONSTANTS
  Platforms,                        \* "i386" or "alpha", the two counters of clock.c
  Word,                             \* number of values of an unsigned: 2^32
  NEVENT, THRESHOLD, RECORDTHRESH,  \* as in clock.c
  TickCost,                         \* cycles of a timer interrupt
  Period,                           \* cycles between two interrupts, at least
  Poll,                             \* cycles between two steps of clock.c, at most
  StartTscs,                        \* the counter when the program starts
  MaxElapsed                        \* bound on the cycles of a run

ASSUME ClockAssumption ==
  /\ Platforms \subseteq {"i386", "alpha"}
  /\ Word \in Nat \ {0}
  /\ NEVENT \in Nat /\ THRESHOLD \in Nat /\ RECORDTHRESH \in Nat
  /\ TickCost \in Nat /\ Period \in Nat /\ Poll \in Nat
  /\ StartTscs \subseteq Nat /\ MaxElapsed \in Nat

VARIABLES
  platform,            \* that clock.c was compiled for
  tsc, utime,          \* the machine's clocks
  boot,                \* tsc at the start of the program
  since_tick,          \* cycles since the last interrupt, up to Period
  slack,               \* cycles the process has run since its last step
  pc,                  \* where the process is
  cyc_hi, cyc_lo,      \* statics of clock.c; cyc_per_tick is a quotient <<num, den>>
  cyc_per_tick, start_tick,
  oldt, oldc, newt, e, \* locals of callibrate
  time,                \* local of get_comp_counter
  ctime,               \* what get_comp_counter returns, times cyc_per_tick's den
  started_at,          \* history: tsc at the last start_counter
  work, work_start, work_read
                       \* history: cycles not spent in interrupts, in all, at the
                       \* last start_counter and at the last get_counter

machine == <<platform, tsc, utime, boot, since_tick, work>>
counter == <<cyc_hi, cyc_lo, started_at, work_start>>
locals == <<oldt, oldc, newt, e>>
comp == <<start_tick, time, ctime, work_read>>
vars == <<machine, counter, locals, comp, cyc_per_tick, slack, pc>>

-----------------------------------------------------------------------------
(* The cycle counter *)

hi32(t) == IF platform = "i386" THEN (t \div Word) % Word ELSE 0
lo32(t) == t % Word

\* The difference of two unsigned numbers, as an unsigned number
Wrap(d) == IF d < 0 THEN d + Word ELSE d

start_counter ==
  /\ cyc_hi' = hi32(tsc) /\ cyc_lo' = lo32(tsc)
  /\ started_at' = tsc /\ work_start' = work

\* Subtraction of the halves nhi, nlo and chi, clo, with a borrow
minus_NoBorrow(nhi, nlo, chi, clo) == Wrap(nhi - chi) * Word + Wrap(nlo - clo)
minus(nhi, nlo, chi, clo) ==
  LET lo == Wrap(nlo - clo)
      borrow == IF lo > nlo THEN 1 ELSE 0
  IN  Wrap(nhi - chi - borrow) * Word + lo

get_counter == minus(hi32(tsc), lo32(tsc), cyc_hi, cyc_lo)

-----------------------------------------------------------------------------
(* The machine *)

\* Inside clock.c the process takes its next step within Poll cycles; f, between
\* the counters, and the caller outside them run as long as they like, and so do
\* others while it sleeps.  On Alpha the cycles of others do not count.
InClock == pc \notin {"idle", "f", "asleep"}
Counts == platform = "i386" \/ pc # "asleep"

Run ==
  /\ tsc < boot + MaxElapsed /\ Counts
  /\ InClock => slack < Poll
  /\ tsc' = tsc + 1 /\ work' = work + 1
  /\ since_tick' = IF since_tick < Period THEN since_tick + 1 ELSE Period
  /\ slack' = IF InClock THEN slack + 1 ELSE slack
  /\ UNCHANGED <<platform, utime, boot, counter, locals, comp, cyc_per_tick, pc>>

Tick ==
  /\ tsc + TickCost <= boot + MaxElapsed
  /\ since_tick = Period /\ Counts
  /\ tsc' = tsc + TickCost
  /\ utime' = IF pc = "asleep" THEN utime ELSE utime + 1
  /\ since_tick' = 0
  /\ UNCHANGED <<platform, boot, work, counter, locals, comp, cyc_per_tick, slack, pc>>

Steps(from, to) == pc = from /\ pc' = to /\ slack' = 0 /\ UNCHANGED machine

-----------------------------------------------------------------------------
(* mhz_full, which is called once and first (fsecs.c:32).  Its result is a     *)
(* quotient of get_counter when it wakes up.                                 *)

MhzSleep ==
  /\ tsc = boot /\ Steps("idle", "asleep")
  /\ start_counter
  /\ UNCHANGED <<locals, comp, cyc_per_tick>>

MhzWake ==
  /\ Steps("asleep", "idle")
  /\ started_at' = 0 /\ work_start' = 0
  /\ UNCHANGED <<cyc_hi, cyc_lo, locals, comp, cyc_per_tick>>

-----------------------------------------------------------------------------
(* callibrate *)

\* times(&t); oldc = t.tms_utime.  (Locals are 0 outside their function.)
CalTimes ==
  /\ Steps("cal_times", "cal_start")
  /\ oldc' = utime
  /\ UNCHANGED <<counter, oldt, newt, e, comp, cyc_per_tick>>

CalStart ==
  /\ Steps("cal_start", "cal_get")
  /\ start_counter
  /\ UNCHANGED <<locals, comp, cyc_per_tick>>

CalGet ==
  /\ Steps("cal_get", "cal_poll")
  /\ oldt' = get_counter /\ e' = 0
  /\ UNCHANGED <<counter, oldc, newt, comp, cyc_per_tick>>

\* The loop's test and the next reading.  A short gap is polled over again, from
\* the same oldt.
CalPoll ==
  /\ e < NEVENT
  /\ newt' = get_counter
  /\ Steps("cal_poll", IF newt' - oldt >= THRESHOLD THEN "cal_event" ELSE "cal_poll")
  /\ UNCHANGED <<counter, oldt, oldc, e, comp, cyc_per_tick>>

CalDone ==
  /\ e >= NEVENT
  /\ Steps("cal_poll", "comp_times")
  /\ oldt' = 0 /\ oldc' = 0 /\ newt' = 0 /\ e' = 0
  /\ UNCHANGED <<counter, comp, cyc_per_tick>>

\* cpt = c / t is kept if it is the smallest so far and more than RECORDTHRESH.
Record_Unfiltered(c, t) ==
  IF cyc_per_tick[1] = 0 \/ cyc_per_tick[1] * t > c * cyc_per_tick[2]
  THEN cyc_per_tick' = <<c, t>> ELSE UNCHANGED cyc_per_tick
Record(c, t) ==
  IF /\ cyc_per_tick[1] = 0 \/ cyc_per_tick[1] * t > c * cyc_per_tick[2]
     /\ c > RECORDTHRESH * t
  THEN cyc_per_tick' = <<c, t>> ELSE UNCHANGED cyc_per_tick

\* A gap: if ticks were charged it is an event.
CalEvent ==
  /\ Steps("cal_event", "cal_poll")
  /\ IF utime > oldc
     THEN Record(newt - oldt, utime - oldc) /\ e' = e + 1 /\ oldc' = utime
     ELSE UNCHANGED <<cyc_per_tick, e, oldc>>
  /\ oldt' = newt
  /\ UNCHANGED <<counter, newt, comp>>

-----------------------------------------------------------------------------
(* The compensated counter *)

StartComp ==
  /\ Steps("idle", IF cyc_per_tick[1] = 0 THEN "cal_times" ELSE "comp_times")
  /\ UNCHANGED <<counter, locals, comp, cyc_per_tick>>

\* times, then start_counter
CompTimes ==
  /\ Steps("comp_times", "comp_start")
  /\ start_tick' = utime
  /\ UNCHANGED <<counter, locals, time, ctime, work_read, cyc_per_tick>>

CompStart ==
  /\ Steps("comp_start", "f")
  /\ start_counter
  /\ UNCHANGED <<locals, comp, cyc_per_tick>>

\* get_comp_counter: get_counter, then times
GetCount ==
  /\ Steps("f", "get_times")
  /\ time' = get_counter /\ work_read' = work
  /\ UNCHANGED <<counter, locals, start_tick, ctime, cyc_per_tick>>

GetTimes_PartialTick ==
  /\ Steps("get_times", "returned")
  /\ LET ticks == IF utime > start_tick THEN utime - start_tick - 1 ELSE 0
     IN  ctime' = time * cyc_per_tick[2] - ticks * cyc_per_tick[1]
  /\ time' = 0
  /\ UNCHANGED <<counter, locals, start_tick, work_read, cyc_per_tick>>
GetTimes ==
  /\ Steps("get_times", "returned")
  /\ ctime' = time * cyc_per_tick[2] - (utime - start_tick) * cyc_per_tick[1]
  /\ time' = 0
  /\ UNCHANGED <<counter, locals, start_tick, work_read, cyc_per_tick>>

Back ==
  /\ Steps("returned", "idle")
  /\ ctime' = 0 /\ work_read' = 0
  /\ UNCHANGED <<counter, locals, start_tick, time, cyc_per_tick>>

Init ==
  /\ platform \in Platforms
  /\ boot \in StartTscs /\ tsc = boot /\ since_tick = 0 /\ utime = 0
  /\ work = 0 /\ slack = 0 /\ pc = "idle"
  /\ cyc_hi = 0 /\ cyc_lo = 0 /\ started_at = 0 /\ work_start = 0
  /\ cyc_per_tick = <<0, 1>> /\ start_tick = 0
  /\ oldt = 0 /\ oldc = 0 /\ newt = 0 /\ e = 0
  /\ time = 0 /\ ctime = 0 /\ work_read = 0

Next ==
  \/ Run \/ Tick \/ MhzSleep \/ MhzWake
  \/ CalTimes \/ CalStart \/ CalGet \/ CalPoll \/ CalDone \/ CalEvent
  \/ StartComp \/ CompTimes \/ CompStart \/ GetCount \/ GetTimes \/ Back

Spec == Init /\ [][Next]_vars

-----------------------------------------------------------------------------
(* Properties *)

\* What the counter can tell from started_at: 64 bits on i386.  On Alpha the 32
\* bits must not wrap, which they do every 9 seconds at 450 MHz (clock.c:98-100):
\* the borrow is then taken from a high half that is always 0.
Tellable ==
  IF platform = "i386" THEN tsc - started_at < Word * Word
  ELSE tsc \div Word = started_at \div Word

Started == pc \in {"cal_get", "cal_poll", "cal_event", "f", "asleep"}

\* While a start_counter is in force, get_counter is the number of cycles since
\* then: on i386 wherever the halves wrap in between.
CountIsElapsed ==
  Started /\ Tellable => get_counter = tsc - started_at

\* The estimate of callibrate is never below the real cost of an interrupt,
\* although ticks and cycles are read one after the other and an interrupt may
\* come in between.  (On Alpha only if the counter does not wrap.)
EstimateCoversTick ==
  platform = "i386" /\ cyc_per_tick[1] # 0 => cyc_per_tick[1] >= TickCost * cyc_per_tick[2]

\* A compensated time is never more than the cycles that the process itself has
\* run between the counters: every interrupt that is in the count is
\* subtracted, also one that comes between two reads at either end.
NeverOvercounts ==
  platform = "i386" /\ pc = "returned" /\ cyc_per_tick[1] # 0 =>
    ctime <= (work_read - work_start) * cyc_per_tick[2]
=============================================================================
