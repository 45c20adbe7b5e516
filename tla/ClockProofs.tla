----------------------------- MODULE ClockProofs -----------------------------
(***************************************************************************)
(* Theorems about clock.c: the subtraction in two halves is right for      *)
(* every word size, every start value and every interleaving with the      *)
(* machine, on i386 over any wrap of the halves and on Alpha up to one;    *)
(* and on i386 callibrate never underestimates the cost of an interrupt,   *)
(* so that the compensated counter never returns too much.                 *)
(*                                                                         *)
(* IInv is about the counter alone.  EInv follows callibrate: at most one  *)
(* interrupt falls between two of its events, and a gap between two        *)
(* readings that holds none is too short to be recorded.                   *)
(***************************************************************************)
EXTENDS Clock, TLAPS

\* Division with remainder
LEMMA DivMod ==
  ASSUME NEW n \in Nat, NEW w \in Nat \ {0}
  PROVE  /\ n \div w \in Nat /\ n % w \in 0 .. w - 1
         /\ n = w * (n \div w) + (n % w)
OBVIOUS

LEMMA MulDiff ==
  ASSUME NEW w \in Int, NEW a \in Int, NEW b \in Int, NEW x \in Int, x = a - b
  PROVE  w * x = w * a - w * b /\ w * a \in Int /\ w * b \in Int
OBVIOUS

LEMMA MulMono ==
  ASSUME NEW w \in Nat, NEW a \in Int, NEW b \in Int, a <= b
  PROVE  w * a <= w * b
OBVIOUS

\* The only multiple of w strictly between two neighbours of k * w is k * w.
LEMMA Multiple ==
  ASSUME NEW w \in Nat \ {0}, NEW x \in Int, NEW k \in Int,
         w * k - w < w * x, w * x < w * k + w
  PROVE  x = k
<1>1. ASSUME x <= k - 1 PROVE FALSE
  <2>1. w * x <= w * (k - 1)
    BY <1>1, MulMono
  <2>2. w * (k - 1) = w * k - w
    OBVIOUS
  <2> QED
    BY <2>1, <2>2
<1>2. ASSUME x >= k + 1 PROVE FALSE
  <2>1. w * (k + 1) <= w * x
    BY <1>2, MulMono
  <2>2. w * (k + 1) = w * k + w
    OBVIOUS
  <2> QED
    BY <2>1, <2>2
<1> QED
  BY <1>1, <1>2

\* A k < w that differs from h, above -w and below w, by a multiple of w is h
\* wrapped once.
LEMMA HighHalf ==
  ASSUME NEW w \in Nat \ {0}, NEW x \in Int, NEW h \in Int, NEW k \in 0 .. w - 1,
         -w <= h, h <= w - 1, k = w * x + h
  PROVE  k = IF h < 0 THEN h + w ELSE h
<1>1. w * x \in Int
  OBVIOUS
<1>2. CASE h >= 0
  <2>1. w * 0 - w < w * x /\ w * x < w * 0 + w
    BY <1>1, <1>2
  <2>2. x = 0
    BY <2>1, Multiple
  <2>3. w * x = 0
    BY <2>2
  <2> QED
    BY <1>2, <2>3
<1>3. CASE h < 0
  <2>1. w * 1 - w < w * x /\ w * x < w * 1 + w
    BY <1>1, <1>3
  <2>2. x = 1
    BY <2>1, Multiple
  <2>3. w * x = w
    BY <2>2
  <2> QED
    BY <1>3, <2>3
<1> QED
  BY <1>2, <1>3

\* The number of whole words in a difference below w * w is below w.
LEMMA WordsBelow ==
  ASSUME NEW w \in Nat \ {0}, NEW k \in Int, NEW lo \in 0 .. w - 1,
         w * k + lo >= 0, w * k + lo < w * w
  PROVE  k \in 0 .. w - 1
<1>0. w * k \in Int /\ w * w \in Int
  OBVIOUS
<1>1. ASSUME k >= w PROVE FALSE
  <2>1. w * w <= w * k
    BY <1>1, MulMono
  <2> QED
    BY <1>0, <2>1
<1>2. ASSUME k <= -1 PROVE FALSE
  <2>1. w * k <= w * (-1)
    BY <1>2, MulMono
  <2> QED
    BY <1>0, <2>1
<1> QED
  BY <1>1, <1>2

\* get_counter's subtraction, on the halves of two 64-bit readings s and t of
\* which t is the later one: any wrap of either half in between is undone.
LEMMA Subtraction ==
  ASSUME platform = "i386", NEW s \in Nat, NEW t \in Nat, s <= t, t - s < Word * Word
  PROVE  minus(hi32(t), lo32(t), hi32(s), lo32(s)) = t - s
<1>1. PICK w \in Nat \ {0} : w = Word
  BY ClockAssumption
<1>2. PICK qs \in Nat, rs \in 0 .. w - 1 : qs = s \div w /\ rs = s % w /\ s = w * qs + rs
  BY DivMod
<1>3. PICK qt \in Nat, rt \in 0 .. w - 1 : qt = t \div w /\ rt = t % w /\ t = w * qt + rt
  BY DivMod
<1>4. PICK us \in Nat, hs \in 0 .. w - 1 : hs = qs % w /\ qs = w * us + hs
  BY DivMod, ZenonT(60)
<1>5. PICK ut \in Nat, ht \in 0 .. w - 1 : ht = qt % w /\ qt = w * ut + ht
  BY DivMod, ZenonT(60)
<1>6. hi32(t) = ht /\ lo32(t) = rt /\ hi32(s) = hs /\ lo32(s) = rs
  BY <1>1, <1>2, <1>3, <1>4, <1>5 DEF hi32, lo32
<1>7. PICK b \in {0, 1} : b = IF rt < rs THEN 1 ELSE 0
  <2>1. (IF rt < rs THEN 1 ELSE 0) \in {0, 1}
    OBVIOUS
  <2> QED
    BY <2>1, Zenon
<1>8. PICK lo \in Int : lo = IF rt - rs < 0 THEN rt - rs + w ELSE rt - rs
  <2>1. (IF rt - rs < 0 THEN rt - rs + w ELSE rt - rs) \in Int
    OBVIOUS
  <2> QED
    BY <2>1, Zenon
<1>9. lo > rt <=> rt < rs
  BY <1>8
<1>10. minus(ht, rt, hs, rs) = (IF ht - hs - b < 0 THEN ht - hs - b + w ELSE ht - hs - b) * w + lo
  BY <1>1, <1>7, <1>8, <1>9 DEF minus, Wrap
<1>11. lo \in 0 .. w - 1 /\ lo = rt - rs + w * b
  <2>1. CASE rt < rs
    <3>1. b = 1 /\ w * b = w /\ lo = rt - rs + w
      BY <1>7, <1>8, <2>1
    <3> QED
      BY <2>1, <3>1
  <2>2. CASE rt >= rs
    <3>1. b = 0 /\ w * b = 0 /\ lo = rt - rs
      BY <1>7, <1>8, <2>2
    <3> QED
      BY <2>2, <3>1
  <2> QED
    BY <2>1, <2>2
\* k whole words and lo are the difference.
<1>12. PICK k \in Int : k = qt - qs - b
  <2>1. qt - qs - b \in Int
    OBVIOUS
  <2> QED
    BY <2>1, Zenon
<1>13. t - s = w * k + lo
  <2>1. w * k = w * qt - w * qs - w * b
    BY <1>12
  <2>2. w * qt \in Int /\ w * qs \in Int /\ w * b \in Int /\ w * k \in Int
    BY <1>12
  <2>3. s = w * qs + rs /\ t = w * qt + rt /\ lo = rt - rs + w * b
    BY <1>2, <1>3, <1>11
  <2> QED
    BY <2>1, <2>2, <2>3
<1>14. k \in 0 .. w - 1
  <2>1. t - s < w * w
    BY <1>1
  <2>2. w * k + lo >= 0 /\ w * k + lo < w * w
    BY <1>13, <2>1
  <2> QED
    BY <1>11, <2>2, WordsBelow
<1>15. k = IF ht - hs - b < 0 THEN ht - hs - b + w ELSE ht - hs - b
  <2>1. PICK x \in Int : x = ut - us
    <3>1. ut - us \in Int
      OBVIOUS
    <3> QED
      BY <3>1, Zenon
  <2>2. PICK h \in Int : h = ht - hs - b
    <3>1. ht - hs - b \in Int
      OBVIOUS
    <3> QED
      BY <3>1, Zenon
  <2>3. w * x = w * ut - w * us /\ w * x \in Int /\ w * ut \in Int /\ w * us \in Int
    BY <2>1, MulDiff
  <2>4. k = w * x + h
    BY <1>4, <1>5, <1>12, <2>2, <2>3, SMTT(30)
  <2>5. -w <= h /\ h <= w - 1
    BY <2>2
  <2>6. k = IF h < 0 THEN h + w ELSE h
    BY <1>14, <2>4, <2>5, HighHalf
  <2> QED
    BY <2>2, <2>6
<1>16. w * k = k * w /\ w * k \in Int
  OBVIOUS
<1> QED
  BY <1>6, <1>10, <1>13, <1>15, <1>16

\* On Alpha the high halves are 0; nothing is borrowed before the first wrap.
LEMMA SubtractionAlpha ==
  ASSUME platform = "alpha", NEW s \in Nat, NEW t \in Nat, s <= t, t \div Word = s \div Word
  PROVE  minus(hi32(t), lo32(t), hi32(s), lo32(s)) = t - s
<1>1. PICK w \in Nat \ {0} : w = Word
  BY ClockAssumption
<1>2. PICK q \in Nat, rs \in 0 .. w - 1 : q = s \div w /\ rs = s % w /\ s = w * q + rs
  BY DivMod
<1>3. PICK qt \in Nat, rt \in 0 .. w - 1 : qt = t \div w /\ rt = t % w /\ t = w * qt + rt
  BY DivMod, ZenonT(60)
<1>4. hi32(t) = 0 /\ lo32(t) = rt /\ hi32(s) = 0 /\ lo32(s) = rs
  BY <1>1, <1>2, <1>3 DEF hi32, lo32
<1>5. w * q \in Int /\ qt = q
  BY <1>1, <1>2, <1>3
<1>6. rs <= rt /\ t - s = rt - rs
  <2>1. t = w * q + rt
    BY <1>3, <1>5
  <2> QED
    BY <1>2, <1>5, <2>1
<1>7. minus(0, rt, 0, rs) = 0 * w + (rt - rs)
  BY <1>1, <1>6 DEF minus, Wrap
<1> QED
  BY <1>4, <1>6, <1>7

-----------------------------------------------------------------------------

\* What is kept of the last start_counter is the halves of the counter then.
IInv ==
  /\ platform \in {"i386", "alpha"} /\ tsc \in Nat
  /\ Started => /\ started_at \in Nat /\ started_at <= tsc
                /\ cyc_hi = hi32(started_at) /\ cyc_lo = lo32(started_at)

LEMMA InitIInv == Init => IInv
  BY ClockAssumption DEF Init, IInv, Started

LEMMA StepIInv == IInv /\ [Next]_vars => IInv'
<1> SUFFICES ASSUME IInv, [Next]_vars PROVE IInv'
  OBVIOUS
<1> USE DEF IInv, Started
<1>1. CASE Run
  BY <1>1 DEF Run, counter, hi32, lo32
<1>2. CASE Tick
  BY <1>2, ClockAssumption DEF Tick, counter, hi32, lo32
<1>3. CASE CalStart
  BY <1>3 DEF CalStart, Steps, machine, start_counter, hi32, lo32
<1>4. CASE CompStart
  BY <1>4 DEF CompStart, Steps, machine, start_counter, hi32, lo32
<1>5. CASE CalGet
  BY <1>5 DEF CalGet, Steps, machine, counter, hi32, lo32
<1>6. CASE CalPoll
  BY <1>6 DEF CalPoll, Steps, machine, counter, hi32, lo32
<1>7. CASE CalEvent
  BY <1>7 DEF CalEvent, Steps, machine, counter, hi32, lo32
<1>8. CASE CalTimes \/ CalDone \/ StartComp \/ CompTimes \/ GetCount \/ GetTimes \/ Back
  BY <1>8 DEF CalTimes, CalDone, StartComp, CompTimes, GetCount, GetTimes, Back, Steps, machine
<1>9. CASE UNCHANGED vars
  BY <1>9 DEF vars, machine, counter, hi32, lo32
<1>10. CASE MhzSleep
  BY <1>10 DEF MhzSleep, Steps, machine, start_counter, hi32, lo32
<1>11. CASE MhzWake
  BY <1>11 DEF MhzWake, Steps, machine
<1> QED
  BY <1>1, <1>2, <1>3, <1>4, <1>5, <1>6, <1>7, <1>8, <1>9, <1>10, <1>11 DEF Next

\* get_counter is the number of cycles since start_counter, for every size of the
\* words and wherever the count starts: on i386 for any span of 64 bits, on Alpha
\* as long as the 32 bits do not wrap (get_counter in clock.c).
THEOREM CounterExact == Spec => []CountIsElapsed
<1>1. IInv => CountIsElapsed
  BY Subtraction, SubtractionAlpha DEF IInv, CountIsElapsed, Tellable, get_counter
<1> QED
  BY <1>1, InitIInv, StepIInv, PTL DEF Spec

-----------------------------------------------------------------------------
(* callibrate and the compensated counter on i386 *)

\* The program ends before the 64-bit counter wraps around; a poll of the counter
\* is short beside the thresholds, which are short beside the timer's period.
Timing ==
  /\ MaxElapsed < Word * Word
  /\ THRESHOLD > 0
  /\ THRESHOLD + 2 * Poll <= RECORDTHRESH + 1
  /\ THRESHOLD + 4 * Poll <= Period

Calibrating == pc \in {"cal_start", "cal_get", "cal_poll", "cal_event"}

Bounds ==
  /\ boot \in Nat /\ boot <= tsc /\ tsc <= boot + MaxElapsed
  /\ Started => boot <= started_at
  /\ utime \in Nat /\ since_tick \in Nat /\ slack \in Nat /\ (InClock => slack <= Poll)
  /\ work \in Nat /\ work_start \in Nat /\ work_read \in Nat /\ start_tick \in Nat
  /\ oldt \in Nat /\ oldc \in Nat /\ newt \in Nat /\ time \in Nat
  /\ pc \notin {"cal_poll", "cal_event"} => newt = 0
  /\ cyc_per_tick \in Nat \X (Nat \ {0})

Gap == tsc - (started_at + oldt)                     \* since the last gap began
Seen == IF newt > oldt THEN newt - oldt ELSE 0      \* and at the last poll
Unseen == tsc - (started_at + newt)                  \* since the last poll

\* At most one tick has been charged since oldc, and the next one is not due.
OneTick ==
  /\ Calibrating => utime \in {oldc, oldc + 1}
  /\ utime # oldc =>
       /\ pc = "cal_start" => since_tick <= slack
       /\ pc = "cal_get" => since_tick <= Poll + slack
       /\ pc = "cal_poll" => since_tick <= 2 * Poll + Seen + slack
       /\ pc = "cal_event" => since_tick < THRESHOLD + 3 * Poll + slack

\* A gap without an interrupt in it is short.
Gaps ==
  /\ pc = "cal_poll" =>
       /\ Seen < THRESHOLD /\ Gap >= Seen + slack
       /\ Gap >= TickCost \/ Gap <= Seen + slack + Poll
  /\ pc = "cal_event" =>
       /\ newt - oldt >= TickCost \/ newt - oldt < THRESHOLD + 2 * Poll
       /\ Unseen >= 0 /\ (Unseen >= TickCost \/ Unseen <= slack)

Estimated == cyc_per_tick[1] # 0 => cyc_per_tick[1] >= TickCost * cyc_per_tick[2]

\* The cycles that the compensated counter reads are those of the process and of
\* the interrupts it subtracts.
Compensated ==
  /\ pc \in {"comp_start", "f", "get_times"} => start_tick <= utime
  /\ pc = "f" => tsc - started_at <= (work - work_start) + TickCost * (utime - start_tick)
  /\ pc = "get_times" => time <= (work_read - work_start) + TickCost * (utime - start_tick)
  /\ pc = "returned" /\ cyc_per_tick[1] # 0 =>
       ctime <= (work_read - work_start) * cyc_per_tick[2]

EInv == Bounds /\ OneTick /\ Gaps /\ Estimated /\ Compensated

\* What get_counter returns
LEMMA Reading ==
  ASSUME Timing, platform = "i386", IInv, Bounds, Started
  PROVE  get_counter = tsc - started_at /\ get_counter \in Nat /\ started_at \in Nat
<1>1. started_at \in Nat /\ tsc \in Nat /\ started_at <= tsc
  BY DEF IInv
<1>2. PICK ww \in Int : ww = Word * Word
  BY ClockAssumption
<1>3. tsc - started_at < ww
  BY <1>1, <1>2, ClockAssumption DEF Bounds, Timing
<1>4. minus(hi32(tsc), lo32(tsc), hi32(started_at), lo32(started_at)) = tsc - started_at
  BY <1>1, <1>2, <1>3, Subtraction
<1> QED BY <1>1, <1>4 DEF get_counter, IInv

LEMMA RunEst ==
  ASSUME Timing, platform = "i386", IInv, EInv, Run
  PROVE  EInv'
<1>1. /\ tsc < boot + MaxElapsed /\ tsc' = tsc + 1 /\ work' = work + 1
      /\ InClock => slack < Poll
      /\ since_tick' \in Nat /\ since_tick' <= since_tick + 1
      /\ slack' = IF InClock THEN slack + 1 ELSE slack
      /\ UNCHANGED <<utime, boot, pc, cyc_per_tick, started_at, work_start>>
      /\ UNCHANGED <<oldt, oldc, newt, e>> /\ UNCHANGED <<start_tick, time, ctime, work_read>>
      /\ tsc \in Nat
  <2>1. since_tick \in Nat /\ Period \in Nat
    BY ClockAssumption DEF EInv, Bounds
  <2>2. since_tick' = IF since_tick < Period THEN since_tick + 1 ELSE Period
    BY DEF Run
  <2>3. since_tick' \in Nat /\ since_tick' <= since_tick + 1
    BY <2>1, <2>2, ClockAssumption DEF EInv, Bounds
  <2> QED BY <2>3 DEF Run, counter, locals, comp, IInv
<1>2. Bounds'
  BY <1>1, ClockAssumption DEF EInv, Bounds, Started, InClock
<1>3. OneTick'
  BY <1>1, ClockAssumption DEF EInv, Bounds, OneTick, Calibrating, Seen, InClock
<1>4. Gaps'
  BY <1>1, ClockAssumption DEF EInv, IInv, Started, Bounds, Gaps, Gap, Seen, Unseen, InClock
<1>5. Estimated'
  BY <1>1 DEF EInv, Estimated
<1>6. Compensated'
  <2>1. PICK x \in Int : x = TickCost * (utime - start_tick)
    BY ClockAssumption DEF EInv, Bounds
  <2>2. pc = "f" => started_at \in Nat
    BY DEF IInv, Started
  <2> QED BY <1>1, <2>1, <2>2 DEF EInv, Bounds, Compensated
<1> QED BY <1>2, <1>3, <1>4, <1>5, <1>6 DEF EInv

LEMMA TickEst ==
  ASSUME Timing, platform = "i386", IInv, EInv, Tick
  PROVE  EInv'
<1>1. /\ tsc + TickCost <= boot + MaxElapsed /\ tsc' = tsc + TickCost
      /\ since_tick = Period /\ since_tick' = 0
      /\ utime' = IF pc = "asleep" THEN utime ELSE utime + 1
      /\ UNCHANGED <<work, slack, boot, pc, cyc_per_tick, started_at, work_start>>
      /\ UNCHANGED <<oldt, oldc, newt, e>> /\ UNCHANGED <<start_tick, time, ctime, work_read>>
      /\ tsc \in Nat /\ TickCost \in Nat
  BY ClockAssumption DEF Tick, counter, locals, comp, IInv
<1>2. Bounds'
  BY <1>1, ClockAssumption DEF EInv, Bounds, Started, InClock
<1>3. Calibrating => utime = oldc
  <2> SUFFICES ASSUME Calibrating, utime # oldc PROVE FALSE
    OBVIOUS
  <2>1. /\ slack \in Nat /\ slack <= Poll /\ THRESHOLD \in Nat /\ Poll \in Nat /\ Period \in Nat
        /\ THRESHOLD > 0 /\ THRESHOLD + 4 * Poll <= Period
    BY ClockAssumption DEF EInv, Bounds, InClock, Calibrating, Timing
  <2>2. CASE pc \in {"cal_start", "cal_get"}
    BY <1>1, <2>1, <2>2 DEF EInv, OneTick
  <2>3. CASE pc = "cal_poll"
    <3>1. Seen \in Nat /\ Seen < THRESHOLD
      BY <2>3 DEF EInv, Bounds, Gaps, Seen
    <3> QED BY <1>1, <2>1, <2>3, <3>1 DEF EInv, OneTick
  <2>4. CASE pc = "cal_event"
    BY <1>1, <2>1, <2>4 DEF EInv, OneTick
  <2> QED BY <2>2, <2>3, <2>4 DEF Calibrating
<1>4. OneTick'
  <2>1. CASE Calibrating
    <3>1. Seen \in Nat /\ slack \in Nat /\ Poll \in Nat /\ THRESHOLD \in Nat /\ THRESHOLD > 0 /\ Seen' = Seen
      BY <1>1, ClockAssumption DEF EInv, Bounds, Seen, Timing
    <3>2. utime' = oldc + 1 /\ oldc' = oldc /\ pc' = pc /\ slack' = slack /\ since_tick' = 0
      BY <1>1, <1>3, <2>1 DEF Calibrating
    <3> QED BY <3>1, <3>2 DEF OneTick
  <2>2. CASE ~Calibrating
    BY <1>1, <2>2 DEF OneTick, Calibrating
  <2> QED BY <2>1, <2>2
<1>5. Gaps'
  BY <1>1, ClockAssumption DEF EInv, IInv, Started, Bounds, Gaps, Gap, Seen, Unseen, InClock
<1>6. Estimated'
  BY <1>1 DEF EInv, Estimated
<1>7. Compensated'
  <2>1. PICK x \in Int : x = TickCost * (utime - start_tick)
    BY <1>1 DEF EInv, Bounds
  <2>2. TickCost * ((utime + 1) - start_tick) = x + TickCost
    BY <1>1, <2>1 DEF EInv, Bounds
  <2>3. pc = "f" => started_at \in Nat
    BY DEF IInv, Started
  <2> QED BY <1>1, <2>1, <2>2, <2>3 DEF EInv, Bounds, Compensated
<1> QED BY <1>2, <1>4, <1>5, <1>6, <1>7 DEF EInv

\* A step of clock.c takes no time.
LEMMA StepFacts ==
  ASSUME EInv, NEW from, NEW to, Steps(from, to)
  PROVE  /\ pc = from /\ pc' = to /\ slack' = 0
         /\ UNCHANGED <<tsc, utime, boot, since_tick, work>>
BY DEF Steps, machine

LEMMA CalTimesEst ==
  ASSUME Timing, platform = "i386", IInv, EInv, CalTimes
  PROVE  EInv'
<1>1. /\ pc = "cal_times" /\ pc' = "cal_start" /\ slack' = 0 /\ oldc' = utime
      /\ UNCHANGED <<tsc, utime, boot, since_tick, work, started_at, work_start, cyc_per_tick>>
      /\ UNCHANGED <<oldt, newt, start_tick, time, ctime, work_read>>
  BY DEF CalTimes, Steps, machine, counter, comp
<1>2. Bounds'
  BY <1>1, ClockAssumption DEF EInv, Bounds, Started, InClock
<1> QED BY <1>1, <1>2 DEF EInv, OneTick, Gaps, Estimated, Compensated, Calibrating, Bounds

LEMMA CalStartEst ==
  ASSUME Timing, platform = "i386", IInv, EInv, CalStart
  PROVE  EInv'
<1>1. /\ pc = "cal_start" /\ pc' = "cal_get" /\ slack' = 0 /\ started_at' = tsc /\ work_start' = work
      /\ UNCHANGED <<tsc, utime, boot, since_tick, work, cyc_per_tick>>
      /\ UNCHANGED <<oldt, oldc, newt, start_tick, time, ctime, work_read>>
  BY DEF CalStart, Steps, machine, start_counter, locals, comp
<1>2. Bounds'
  BY <1>1, ClockAssumption DEF EInv, Bounds, Started, InClock, IInv
<1>3. OneTick'
  BY <1>1, ClockAssumption DEF EInv, OneTick, Calibrating, Bounds, InClock
<1> QED BY <1>1, <1>2, <1>3 DEF EInv, Gaps, Estimated, Compensated

LEMMA CalGetEst ==
  ASSUME Timing, platform = "i386", IInv, EInv, CalGet
  PROVE  EInv'
<1>1. /\ pc = "cal_get" /\ pc' = "cal_poll" /\ slack' = 0 /\ oldt' = get_counter
      /\ UNCHANGED <<tsc, utime, boot, since_tick, work, started_at, work_start, cyc_per_tick>>
      /\ UNCHANGED <<oldc, newt, start_tick, time, ctime, work_read>>
  BY DEF CalGet, Steps, machine, counter, comp
<1>2. get_counter = tsc - started_at /\ get_counter \in Nat /\ started_at \in Nat /\ tsc \in Nat
  BY <1>1, Reading DEF EInv, Started, IInv
<1>3. Bounds'
  BY <1>1, <1>2, ClockAssumption DEF EInv, Bounds, Started, InClock
<1>4. newt = 0 /\ newt' = 0 /\ Seen' = 0 /\ Gap' = 0
  BY <1>1, <1>2 DEF EInv, Bounds, Seen, Gap
<1>5. OneTick'
  BY <1>1, <1>4, ClockAssumption DEF EInv, OneTick, Calibrating, Bounds, InClock
<1>6. Gaps'
  BY <1>1, <1>4, ClockAssumption DEF Gaps, Timing
<1> QED BY <1>1, <1>3, <1>5, <1>6 DEF EInv, Estimated, Compensated

LEMMA CalPollEst ==
  ASSUME Timing, platform = "i386", IInv, EInv, CalPoll
  PROVE  EInv'
<1>1. /\ pc = "cal_poll" /\ slack' = 0 /\ newt' = get_counter
      /\ pc' = IF newt' - oldt >= THRESHOLD THEN "cal_event" ELSE "cal_poll"
      /\ UNCHANGED <<tsc, utime, boot, since_tick, work, started_at, work_start, cyc_per_tick>>
      /\ UNCHANGED <<oldc, oldt, start_tick, time, ctime, work_read>>
  BY DEF CalPoll, Steps, machine, counter, comp
<1>2. get_counter = tsc - started_at /\ get_counter \in Nat /\ started_at \in Nat /\ tsc \in Nat
  BY <1>1, Reading DEF EInv, Started, IInv
<1>3. Bounds'
  BY <1>1, <1>2, ClockAssumption DEF EInv, Bounds, Started, InClock
<1>4. PICK g, seen, s \in Nat : g = Gap /\ seen = Seen /\ s = slack /\ g >= seen + s /\ seen < THRESHOLD
                               /\ s <= Poll /\ (g >= TickCost \/ g <= seen + s + Poll)
  <2>1. Gap \in Int /\ Seen \in Nat /\ slack \in Nat /\ slack <= Poll
    BY <1>1, <1>2 DEF EInv, Bounds, Gap, Seen, InClock
  <2>2. Seen < THRESHOLD /\ Gap >= Seen + slack /\ (Gap >= TickCost \/ Gap <= Seen + slack + Poll)
    BY <1>1 DEF EInv, Gaps
  <2>3. Gap \in Nat
    BY <2>1, <2>2
  <2> QED BY <2>1, <2>2, <2>3
<1>5. newt' - oldt' = g /\ Seen' = g /\ Gap' = g /\ Unseen' = 0
  BY <1>1, <1>2, <1>4 DEF Seen, Gap, Unseen, EInv, Bounds
<1>6. OneTick'
  <2>1. utime' \in {oldc', oldc' + 1}
    BY <1>1 DEF EInv, OneTick, Calibrating
  <2>2. utime' # oldc' => since_tick' \in Nat /\ since_tick' <= 2 * Poll + seen + s
    BY <1>1, <1>4 DEF EInv, OneTick, Bounds
  <2>3. utime' # oldc' => since_tick' <= 2 * Poll + g + 0 /\ since_tick' < THRESHOLD + 3 * Poll + 0
    <3>1. THRESHOLD \in Nat /\ Poll \in Nat /\ seen + s <= g /\ seen < THRESHOLD /\ s <= Poll
      BY <1>4, ClockAssumption
    <3> QED BY <2>2, <3>1
  <2> QED BY <1>1, <1>5, <2>1, <2>3 DEF OneTick
<1>7. Gaps'
  <2>1. pc' = "cal_poll" => g < THRESHOLD
    BY <1>1, <1>4, <1>5, ClockAssumption
  <2>2. /\ g >= g + 0 /\ (g >= TickCost \/ g <= g + 0 + Poll)
        /\ g >= TickCost \/ g < THRESHOLD + 2 * Poll
    <3>1. THRESHOLD \in Nat /\ Poll \in Nat /\ TickCost \in Nat
      BY ClockAssumption
    <3> QED BY <1>4, <3>1
  <2> QED BY <1>1, <1>5, <2>1, <2>2, ClockAssumption DEF Gaps
<1> QED BY <1>1, <1>3, <1>6, <1>7 DEF EInv, Estimated, Compensated

LEMMA CalDoneEst ==
  ASSUME Timing, platform = "i386", IInv, EInv, CalDone
  PROVE  EInv'
<1>1. /\ pc = "cal_poll" /\ pc' = "comp_times" /\ slack' = 0 /\ oldt' = 0 /\ oldc' = 0 /\ newt' = 0
      /\ UNCHANGED <<tsc, utime, boot, since_tick, work, started_at, work_start, cyc_per_tick>>
      /\ UNCHANGED <<start_tick, time, ctime, work_read>>
  BY DEF CalDone, Steps, machine, counter, comp
<1>2. Bounds'
  BY <1>1, ClockAssumption DEF EInv, Bounds, Started, InClock
<1> QED BY <1>1, <1>2 DEF EInv, OneTick, Gaps, Estimated, Compensated, Calibrating

\* An event enters at least what an interrupt costs.
LEMMA CalEventEst ==
  ASSUME Timing, platform = "i386", IInv, EInv, CalEvent
  PROVE  EInv'
<1>1. /\ pc = "cal_event" /\ pc' = "cal_poll" /\ slack' = 0 /\ oldt' = newt
      /\ UNCHANGED <<tsc, utime, boot, since_tick, work, started_at, work_start>>
      /\ UNCHANGED <<newt, start_tick, time, ctime, work_read>>
  BY DEF CalEvent, Steps, machine, counter, comp
<1>2. \/ utime > oldc /\ Record(newt - oldt, utime - oldc) /\ oldc' = utime
      \/ ~(utime > oldc) /\ UNCHANGED <<cyc_per_tick, oldc>>
  BY DEF CalEvent
<1>3. utime \in {oldc, oldc + 1} /\ utime \in Nat /\ oldc \in Nat /\ newt \in Nat /\ oldt \in Nat
  BY <1>1 DEF EInv, OneTick, Bounds, Calibrating
<1>4. /\ cyc_per_tick' \in Nat \X (Nat \ {0}) /\ Estimated' /\ utime' = oldc' /\ oldc' \in Nat
  <2>1. CASE utime > oldc /\ Record(newt - oldt, utime - oldc) /\ oldc' = utime
    <3>1. PICK c \in Int : c = newt - oldt /\ (c >= TickCost \/ c < THRESHOLD + 2 * Poll)
      BY <1>1, <1>3 DEF EInv, Gaps
    <3>2. utime - oldc = 1
      BY <1>3, <2>1
    <3>3. cyc_per_tick' = cyc_per_tick \/ (cyc_per_tick' = <<c, 1>> /\ c > RECORDTHRESH * 1)
      BY <2>1, <3>1, <3>2 DEF Record
    <3>4. CASE cyc_per_tick' = cyc_per_tick
      BY <1>1, <1>3, <2>1, <3>4 DEF EInv, Bounds, Estimated
    <3>5. CASE cyc_per_tick' = <<c, 1>> /\ c > RECORDTHRESH * 1
      <4>1. c >= TickCost /\ c \in Nat
        BY <3>1, <3>5, ClockAssumption DEF Timing
      <4>2. TickCost * 1 = TickCost
        BY ClockAssumption
      <4> QED BY <1>1, <1>3, <2>1, <3>5, <4>1, <4>2 DEF Estimated
    <3> QED BY <3>3, <3>4, <3>5
  <2>2. CASE ~(utime > oldc) /\ UNCHANGED <<cyc_per_tick, oldc>>
    BY <1>1, <1>3, <2>2 DEF EInv, Bounds, Estimated
  <2> QED BY <1>2, <2>1, <2>2
<1>5. Bounds'
  BY <1>1, <1>3, <1>4, ClockAssumption DEF EInv, Bounds, Started, InClock
<1>6. OneTick'
  BY <1>1, <1>4 DEF OneTick
<1>7. Gaps'
  <2>1. PICK u \in Int : u = Unseen /\ u >= 0 /\ (u >= TickCost \/ u <= Poll)
    <3>1. Unseen \in Int /\ slack \in Nat /\ slack <= Poll
      BY <1>1, <1>3 DEF EInv, Bounds, IInv, Started, Unseen, InClock
    <3>2. Unseen >= 0 /\ (Unseen >= TickCost \/ Unseen <= slack)
      BY <1>1 DEF EInv, Gaps
    <3>3. Unseen >= TickCost \/ Unseen <= Poll
      BY <3>1, <3>2, ClockAssumption
    <3> QED BY <3>1, <3>2, <3>3
  <2>2. Gap' = u /\ Seen' = 0
    BY <1>1, <1>3, <2>1 DEF Gap, Seen, Unseen
  <2> QED BY <1>1, <2>1, <2>2, ClockAssumption DEF Gaps, Timing
<1>8. Compensated'
  BY <1>1 DEF Compensated
<1> QED BY <1>4, <1>5, <1>6, <1>7, <1>8 DEF EInv

LEMMA CompEst ==
  ASSUME Timing, platform = "i386", IInv, EInv, CompTimes \/ CompStart \/ GetCount
  PROVE  EInv'
<1>1. /\ slack' = 0 /\ UNCHANGED <<tsc, utime, boot, since_tick, work, oldt, oldc, newt, cyc_per_tick>>
      /\ tsc \in Nat /\ utime \in Nat /\ TickCost \in Nat /\ start_tick \in Nat /\ work \in Nat
  BY ClockAssumption DEF CompTimes, CompStart, GetCount, Steps, machine, locals, EInv, Bounds, IInv
<1>2. CASE CompTimes
  <2>1. pc = "comp_times" /\ pc' = "comp_start" /\ start_tick' = utime
        /\ UNCHANGED <<started_at, work_start, time, ctime, work_read>>
    BY <1>2 DEF CompTimes, Steps, counter
  <2>2. Bounds'
    BY <1>1, <2>1, ClockAssumption DEF EInv, Bounds, Started, InClock
  <2> QED BY <1>1, <2>1, <2>2 DEF EInv, OneTick, Gaps, Estimated, Compensated, Calibrating
<1>3. CASE CompStart
  <2>1. pc = "comp_start" /\ pc' = "f" /\ started_at' = tsc /\ work_start' = work
        /\ UNCHANGED <<start_tick, time, ctime, work_read>>
    BY <1>3 DEF CompStart, Steps, comp, start_counter
  <2>2. Bounds'
    BY <1>1, <2>1, ClockAssumption DEF EInv, Bounds, Started, InClock
  <2>3. start_tick <= utime /\ TickCost * 0 <= TickCost * (utime - start_tick) /\ TickCost * 0 = 0
    <3>1. start_tick <= utime
      BY <2>1 DEF EInv, Compensated
    <3> QED BY <1>1, <3>1, MulMono
  <2>4. Compensated'
    BY <1>1, <2>1, <2>3 DEF Compensated
  <2> QED BY <1>1, <2>1, <2>2, <2>4 DEF EInv, OneTick, Gaps, Estimated, Calibrating
<1>4. CASE GetCount
  <2>1. pc = "f" /\ pc' = "get_times" /\ time' = get_counter /\ work_read' = work
        /\ UNCHANGED <<started_at, work_start, start_tick, ctime>>
    BY <1>4 DEF GetCount, Steps, counter
  <2>2. get_counter = tsc - started_at /\ get_counter \in Nat
    BY <2>1, Reading DEF EInv, Started
  <2>3. Bounds'
    BY <1>1, <2>1, <2>2, ClockAssumption DEF EInv, Bounds, Started, InClock
  <2>4. Compensated'
    BY <1>1, <2>1, <2>2 DEF EInv, Compensated
  <2> QED BY <1>1, <2>1, <2>3, <2>4 DEF EInv, OneTick, Gaps, Estimated, Calibrating
<1> QED BY <1>2, <1>3, <1>4

\* The interrupts are subtracted at no less than they cost.
LEMMA Subtracted ==
  ASSUME NEW n \in Nat, NEW d \in Nat, NEW c \in Nat, n >= c * d,
         NEW x \in Int, NEW y \in Int, NEW k \in Nat, x <= y + c * k
  PROVE  x * d - k * n <= y * d
<1>1. PICK ck \in Int : ck = c * k
  OBVIOUS
<1>2. d * x <= d * (y + ck)
  BY <1>1, MulMono
<1>3. d * (y + ck) = d * y + d * ck
  OBVIOUS
<1>4. d * ck = k * (c * d)
  BY <1>1
<1>5. k * (c * d) <= k * n
  <2>1. c * d \in Int
    OBVIOUS
  <2> QED BY <2>1, MulMono
<1>6. PICK dx, dy, kn, kcd \in Int : dx = d * x /\ dy = d * y /\ kn = k * n /\ kcd = k * (c * d)
  OBVIOUS
<1>7. dx <= dy + kcd /\ kcd <= kn
  BY <1>2, <1>3, <1>4, <1>5, <1>6
<1>8. dx - kn <= dy
  BY <1>7
<1> QED BY <1>6, <1>8

LEMMA GetTimesEst ==
  ASSUME Timing, platform = "i386", IInv, EInv, GetTimes
  PROVE  EInv'
<1>1. /\ pc = "get_times" /\ pc' = "returned" /\ slack' = 0 /\ time' = 0
      /\ ctime' = time * cyc_per_tick[2] - (utime - start_tick) * cyc_per_tick[1]
      /\ UNCHANGED <<tsc, utime, boot, since_tick, work, oldt, oldc, newt, cyc_per_tick>>
      /\ UNCHANGED <<started_at, work_start, start_tick, work_read>>
  BY DEF GetTimes, Steps, machine, locals, counter
<1>2. Bounds'
  BY <1>1, ClockAssumption DEF EInv, Bounds, Started, InClock
<1>3. ASSUME cyc_per_tick[1] # 0
      PROVE  ctime' <= (work_read - work_start) * cyc_per_tick[2]
  <2>1. cyc_per_tick[1] \in Nat /\ cyc_per_tick[2] \in Nat /\ TickCost \in Nat
    BY ClockAssumption DEF EInv, Bounds
  <2>2. PICK y \in Int, k \in Nat : y = work_read - work_start /\ k = utime - start_tick
    BY <1>1 DEF EInv, Bounds, Compensated
  <2>3. time \in Int /\ time <= y + TickCost * k
    BY <1>1, <2>2 DEF EInv, Bounds, Compensated
  <2>4. cyc_per_tick[1] >= TickCost * cyc_per_tick[2]
    BY <1>3 DEF EInv, Estimated
  <2>5. time * cyc_per_tick[2] - k * cyc_per_tick[1] <= y * cyc_per_tick[2]
    BY <2>1, <2>3, <2>4, Subtracted
  <2> QED BY <1>1, <2>2, <2>5
<1>4. Compensated'
  BY <1>1, <1>3 DEF Compensated
<1> QED BY <1>1, <1>2, <1>4 DEF EInv, OneTick, Gaps, Estimated, Calibrating

LEMMA IdleEst ==
  ASSUME Timing, platform = "i386", IInv, EInv, MhzSleep \/ MhzWake \/ StartComp \/ Back
  PROVE  EInv'
<1>1. /\ slack' = 0 /\ UNCHANGED <<tsc, utime, boot, since_tick, work, oldt, oldc, newt, cyc_per_tick>>
      /\ UNCHANGED <<start_tick, time>> /\ ctime' \in {ctime, 0} /\ work_read' \in {work_read, 0}
      /\ pc \notin {"cal_poll", "cal_event"}
      /\ pc' \in {"asleep", "idle", "cal_times", "comp_times"}
  BY DEF MhzSleep, MhzWake, StartComp, Back, Steps, machine, locals, comp
<1>2. /\ work_start' \in {work_start, work, 0}
      /\ pc' = "asleep" => started_at' = tsc
  BY DEF MhzSleep, MhzWake, StartComp, Back, Steps, counter, start_counter
<1>3. Bounds'
  BY <1>1, <1>2, ClockAssumption DEF EInv, Bounds, Started, InClock, IInv
<1> QED BY <1>1, <1>3 DEF EInv, OneTick, Gaps, Estimated, Compensated, Calibrating

LEMMA InitEst == Init => EInv
  BY ClockAssumption DEF Init, EInv, Bounds, OneTick, Gaps, Estimated, Compensated, Calibrating,
     Started, InClock

LEMMA StepEst ==
  ASSUME Timing, platform = "i386", IInv, EInv, [Next]_vars
  PROVE  EInv'
<1>1. CASE UNCHANGED vars
  <2>1. /\ UNCHANGED <<tsc, utime, boot, since_tick, work, oldt, oldc, newt, cyc_per_tick, pc, slack>>
        /\ UNCHANGED <<started_at, work_start, start_tick, time, ctime, work_read>>
    BY <1>1 DEF vars, machine, counter, locals, comp
  <2> QED BY <2>1 DEF EInv, Bounds, OneTick, Gaps, Estimated, Compensated, Calibrating, Started,
                      InClock, Gap, Seen, Unseen
<1> QED
  BY <1>1, RunEst, TickEst, CalTimesEst, CalStartEst, CalGetEst, CalPollEst, CalDoneEst,
     CalEventEst, CompEst, GetTimesEst, IdleEst DEF Next

LEMMA PlatformKept == [Next]_vars => platform' = platform
BY DEF Next, vars, machine, Run, Tick, MhzSleep, MhzWake, CalTimes, CalStart, CalGet, CalPoll, CalDone,
       CalEvent, StartComp, CompTimes, CompStart, GetCount, GetTimes, Back, Steps

LEMMA SpecEst ==
  ASSUME Timing
  PROVE  Spec => [](platform = "i386" => EInv)
<1>1. Init => (platform = "i386" => EInv)
  BY InitEst
<1>2. IInv /\ (platform = "i386" => EInv) /\ [Next]_vars => (platform = "i386" => EInv)'
  BY StepEst, PlatformKept
<1> QED BY <1>1, <1>2, InitIInv, StepIInv, PTL DEF Spec

\* callibrate in clock.c, on i386: wherever the interrupts come between its reads
\* of the two clocks, its estimate is no less than what an interrupt costs.
THEOREM EstimateIsSafe ==
  ASSUME Timing
  PROVE  Spec => []EstimateCoversTick
<1>1. (platform = "i386" => EInv) => EstimateCoversTick
  BY DEF EInv, Estimated, EstimateCoversTick
<1> QED BY <1>1, SpecEst, PTL

\* get_comp_counter in clock.c, on i386: it never returns more cycles than the
\* process itself has run since start_comp_counter.
THEOREM CompensationIsSafe ==
  ASSUME Timing
  PROVE  Spec => []NeverOvercounts
<1>1. (platform = "i386" => EInv) => NeverOvercounts
  BY DEF EInv, Compensated, NeverOvercounts
<1> QED BY <1>1, SpecEst, PTL
=============================================================================
