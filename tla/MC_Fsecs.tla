------------------------------- MODULE MC_Fsecs -------------------------------
(* fsecs.c over fcyc.c with few parameters and times, any change of the      *)
(* parameters between measurements, and over ftimer.c with a day of 4        *)
(* microseconds, of which 3 are a second.                                   *)
EXTENDS Fsecs

MCEpsilons == {<<0, 1>>, <<1, 2>>}
MCFcycEpsilon == <<1, 2>>
MCMaxSamples == {-1, 2, 4}
\* Compensated times may be negative.
MCCompCounts == {-2, 3, 5}
MCSettings == {-2, 1}
=============================================================================
