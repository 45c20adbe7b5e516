--------------------------- MODULE MC_ReadTraces ----------------------------
(* read_trace on every file of up to MaxLines lines: a word with up to two   *)
(* numbers after it, of which some are missing or too many.  Command lines   *)
(* are varied for one file.                                                 *)
EXTENDS ReadTraces

CONSTANTS MaxLines, HeaderIds, HeaderOps

NumberLists == UNION {[1 .. n -> {num(0), num(1)}] : n \in 0 .. 2}
Lines == {<<word(c)>> \o ns : c \in {"a", "r", "f"}, ns \in NumberLists} \cup {<<word("x")>>}

RECURSIVE Texts(_)
Texts(n) == IF n = 0 THEN {<<>>}
            ELSE LET less == Texts(n - 1) IN less \cup {t \o l : t \in less, l \in Lines}

MCFiles == [num_ids : HeaderIds, num_ops : HeaderOps, tokens : Texts(MaxLines)]
MCProbes == {[num_ids |-> 1, num_ops |-> 1, tokens |-> <<word("a"), num(0), num(1)>>]}
=============================================================================
