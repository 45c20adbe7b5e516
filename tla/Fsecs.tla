-------------------------------- MODULE Fsecs --------------------------------
(***************************************************************************)
(* fsecs.c: the running time of a function, measured by the package that   *)
(* config.h has chosen: K-best sampling of cycles (KBest), divided by the  *)
(* clock rate that was estimated at the start, or one of the timers of     *)
(* ftimer.c (Timers).  The parameters of fcyc may be set by others too.    *)
(***************************************************************************)
EXTENDS KBest, Timers

CONSTANTS
  FcycK, FcycMaxSamples, FcycEpsilon,   \* what init_fsecs sets: 3, 20 and 0.01
  Mhzs                                  \* answers of mhz

ASSUME FsecsAssumption ==
  /\ FcycK \in Ks /\ FcycMaxSamples \in MaxSamples /\ FcycEpsilon \in Epsilons
  /\ n \in Nat \ {0} /\ usec_per_sec \in Nat \ {0} /\ MAX_ETIME \in Nat \ {0}
  /\ Settings \subseteq Int /\ MaxTime \in Nat

VARIABLES
  Mhz,       \* static of fsecs.c, or 0
  ready      \* init_fsecs has been called

fsecs_vars == <<vars, timer_vars, Mhz, ready>>

init_fsecs ==
  /\ ~ready /\ ready' = TRUE
  /\ IF build = "FCYC"
     THEN /\ kbest' = FcycK /\ maxsamples' = FcycMaxSamples /\ epsilon' = FcycEpsilon
          /\ compensate' = TRUE /\ clear_cache' = TRUE
          /\ Mhz' \in Mhzs
          /\ UNCHANGED <<cache_block, cache, sampler, pc, result, drawn>>
     ELSE UNCHANGED <<vars, Mhz>>
  /\ UNCHANGED <<timer_vars>>

fsecs ==
  /\ ready
  /\ IF build = "FCYC" THEN Begin /\ UNCHANGED timer_vars
                       ELSE ftimer /\ UNCHANGED vars
  /\ UNCHANGED <<Mhz, ready>>

Cycles ==
  /\ Measure
  /\ UNCHANGED <<timer_vars, Mhz, ready>>

Time ==
  /\ Measuring_f
  /\ UNCHANGED <<vars, Mhz, ready>>

\* What fsecs returned last, as a quotient
secs == IF build = "FCYC" THEN <<result, Mhz>> ELSE <<tmeas, n>>

FcycAlone == ready /\ build = "FCYC" /\ (clear_fails \/ SetCacheSize \/ SetParams \/ Exited)
ClocksAlone == build # "FCYC" /\ (Pass \/ SetDay \/ Killed)

FsecsInit ==
  /\ Init /\ TimersInit
  /\ build # "FCYC" => params = <<FcycK, FcycMaxSamples, FcycEpsilon, FALSE, FALSE, cache_block>>
  /\ Mhz = 0 /\ ready = FALSE

FsecsNext ==
  \/ init_fsecs \/ fsecs \/ Cycles \/ Time
  \/ FcycAlone /\ UNCHANGED <<timer_vars, Mhz, ready>>
  \/ ClocksAlone /\ UNCHANGED <<vars, Mhz, ready>>

\* A measurement that has begun goes on; malloc need not fail.
FsecsSpec == FsecsInit /\ [][FsecsNext]_fsecs_vars /\ WF_fsecs_vars(Cycles)
=============================================================================
