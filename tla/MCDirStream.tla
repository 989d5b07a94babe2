---------------------------- MODULE MCDirStream ----------------------------
(* Two threads share a stream over a directory of at most three names, two  *)
(* of which fit the buffer: a scan needs two queries or more.               *)
EXTENDS DirStream, TLC

CONSTANTS t1, t2
MCThreads == {t1, t2}
ThreadSymmetry == Permutations(MCThreads)
=============================================================================
