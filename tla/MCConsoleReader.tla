-------------------------- MODULE MCConsoleReader --------------------------
(* The user types Ctrl-C, a two-byte letter and a character outside the BMP, *)
(* which takes two records; a read returns at most two records.             *)
EXTENDS ConsoleReader

MCCodePoints == {3, 233, 128512}
MCLiveCodePoints == {0, 128512}
MCAlarmSeconds == {0, 1}
MCGarbage == {0, 55297}
=============================================================================
