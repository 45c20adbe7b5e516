------------------------------ MODULE ReadTraces ------------------------------
(***************************************************************************)
(* main of mdriver.c up to a trace record: the command line (CommandLine), *)
(* and read_trace on a file that it chose (TraceFile).  A file that cannot *)
(* be opened ends the program.                                             *)
(***************************************************************************)
EXTENDS TraceFile, CommandLine

CONSTANTS Probes    \* files for which the command lines are varied

ASSUME ReadTracesAssumption ==
  /\ Probes \subseteq Files /\ MaxOptions \in Nat
  /\ "" \notin Names \cup Dirs /\ "./" \notin Dirs

Parse == MainNext /\ UNCHANGED vars

\* fopen: file is what it finds at tracedir/tracefiles, if anything
OpenFails ==
  /\ main_pc = "loop" /\ pc = "reading" /\ pos = 0 /\ op_index = 0
  /\ main_pc' = "exit1"
  /\ UNCHANGED <<vars, team, char_signed, given, files, flags, asked>>

Read ==
  /\ main_pc = "loop" /\ Next
  /\ UNCHANGED main_vars

Gone == main_pc \in {"exit0", "exit1"} /\ UNCHANGED <<vars, main_vars>>

ReadTracesInit ==
  /\ Init /\ MainInit
  /\ file \notin Probes => char_signed /\ team = {"teamname", "name1", "id1"}

ReadTracesNext ==
  \/ Parse /\ (file \in Probes \/ given' = given)
  \/ OpenFails \/ Read \/ Gone

ReadTracesSpec == ReadTracesInit /\ [][ReadTracesNext]_<<vars, main_vars>>
=============================================================================
