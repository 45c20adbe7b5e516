----------------------------- MODULE CommandLine -----------------------------
(***************************************************************************)
(* mdriver.c: the options of main, the check of the team, and which trace  *)
(* files the program then reads: those of its default list in the          *)
(* directory of -t, or the one of -f relative to the current directory.    *)
(*                                                                         *)
(* Options that change only what is printed (g, v, V) are one option here. *)
(***************************************************************************)
EXTENDS Integers

CONSTANTS
  Names, Dirs,     \* arguments of -f and of -t
  TRACEDIR, DEFAULT_TRACEFILES,
  MaxOptions       \* bound on the options given

VARIABLES
  team,            \* the fields of the struct team of mm.c that are not empty
  char_signed,     \* type char is signed
  given,           \* options read
  tracedir, tracefiles, num_tracefiles, team_check, run_libc,   \* of main; NULL is ""
  main_pc,         \* "options", "team", "loop"; "exit0", "exit1"
  asked_dir, asked_file   \* history: the last arguments of -t and of -f, or ""

asked == <<asked_dir, asked_file>>
flags == <<team_check, run_libc>>
files == <<tracedir, tracefiles, num_tracefiles>>
main_vars == <<team, char_signed, given, files, flags, main_pc, asked>>

-----------------------------------------------------------------------------
(* getopt answers an option *)

opt_f(name) ==
  /\ num_tracefiles' = 1 /\ tracefiles' = name
  /\ tracedir' = "./"
  /\ asked_file' = name
  /\ UNCHANGED <<flags, main_pc, asked_dir>>

opt_t_Always(dir) ==
  /\ tracedir' = dir /\ asked_dir' = dir
  /\ UNCHANGED <<tracefiles, num_tracefiles, flags, main_pc, asked_file>>
opt_t(dir) ==
  /\ tracedir' = IF num_tracefiles = 1 THEN tracedir ELSE dir
  /\ asked_dir' = dir
  /\ UNCHANGED <<tracefiles, num_tracefiles, flags, main_pc, asked_file>>

opt_a == team_check' = FALSE /\ UNCHANGED <<files, run_libc, main_pc, asked>>
opt_l == run_libc' = TRUE /\ UNCHANGED <<files, team_check, main_pc, asked>>
opt_gvV == UNCHANGED <<files, flags, main_pc, asked>>

\* -h, and a character that is no option or lacks its argument
usage == main_pc' \in {"exit0", "exit1"} /\ UNCHANGED <<files, flags, asked>>

Option ==
  /\ main_pc = "options" /\ given < MaxOptions /\ given' = given + 1
  /\ \/ \E name \in Names : opt_f(name)
     \/ \E dir \in Dirs : opt_t(dir)
     \/ opt_a \/ opt_l \/ opt_gvV \/ usage
  /\ UNCHANGED <<team, char_signed>>

\* getopt answers -1.  Its answer is kept in a char: where that is unsigned it is
\* not EOF, and falls to the default case of the switch.
NoMoreOptions ==
  /\ main_pc = "options"
  /\ main_pc' = IF char_signed THEN "team" ELSE "exit1"
  /\ UNCHANGED <<team, char_signed, given, files, flags, asked>>

-----------------------------------------------------------------------------
\* The first member in full, the second in full or not at all
team_complete ==
  /\ {"teamname", "name1", "id1"} \subseteq team
  /\ "name2" \in team <=> "id2" \in team

\* Check of the team; the default trace files if no -f was given.
Setup ==
  /\ main_pc = "team"
  /\ IF team_check /\ ~team_complete
     THEN main_pc' = "exit1" /\ UNCHANGED files
     ELSE /\ main_pc' = "loop"
          /\ tracefiles' = IF tracefiles = "" THEN DEFAULT_TRACEFILES ELSE tracefiles
          /\ num_tracefiles' = IF tracefiles = "" THEN 11 ELSE num_tracefiles
          /\ UNCHANGED tracedir
  /\ UNCHANGED <<team, char_signed, given, flags, asked>>

MainInit ==
  /\ team \in SUBSET {"teamname", "name1", "id1", "name2", "id2"}
  /\ char_signed \in BOOLEAN
  /\ given = 0
  /\ tracedir = TRACEDIR /\ tracefiles = "" /\ num_tracefiles = 0
  /\ team_check = TRUE /\ run_libc = FALSE
  /\ main_pc = "options" /\ asked_dir = "" /\ asked_file = ""

MainNext == Option \/ NoMoreOptions \/ Setup

-----------------------------------------------------------------------------
(* Properties *)

\* What is read is what was asked for, in whatever order the options came: the
\* file of the last -f from the current directory, also with a -t before or
\* after it, and else the default files from the directory of the last -t.
\* (config.h:13, mdriver.c:166, 175)
AskedIsRead ==
  main_pc = "loop" =>
    IF asked_file # "" THEN tracefiles = asked_file /\ tracedir = "./"
    ELSE /\ tracefiles = DEFAULT_TRACEFILES
         /\ tracedir = IF asked_dir # "" THEN asked_dir ELSE TRACEDIR
=============================================================================
