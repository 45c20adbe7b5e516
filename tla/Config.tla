------------------------------- MODULE Config -------------------------------
(***************************************************************************)
(* config.h: the settings that memlib.c and mdriver.c are compiled with.   *)
(* mm.c does not include config.h and defines ALIGNMENT again, as 8 too;   *)
(* both definitions are the one constant here.                             *)
(***************************************************************************)
EXTENDS Integers

CONSTANTS
  ALIGNMENT,   \* "Alignment requirement in bytes (either 4 or 8)"
  MAX_HEAP     \* "Maximum heap size in bytes"

ASSUME ConfigAssumption ==
  /\ ALIGNMENT \in {4, 8}
  /\ MAX_HEAP \in Nat
=============================================================================
