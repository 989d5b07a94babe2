---------------------------- MODULE HeapClients ----------------------------
(***************************************************************************)
(* One thread that calls glob, globfree, scandir and UTF-8 wrappers in any *)
(* order and keeps what it is given: the functions share the heap, and     *)
(* errno, which each of them finds as others have left it.                 *)
(***************************************************************************)
EXTENDS Glob, ScanDir, ConvBuf

vars == <<heapVars, globVars, scanVars, convVars>>

Init == HeapInit /\ GlobInit /\ ScanInit /\ ConvInit

Next ==
    \/ GlobNext /\ UNCHANGED <<scanVars, convVars>>
    \/ ScanNext /\ UNCHANGED <<globVars, convVars>>
    \/ ConvNext /\ UNCHANGED <<globVars, scanVars>>

Spec == Init /\ [][Next]_vars

-----------------------------------------------------------------------------
(* Properties *)

Paths == IF g.pathv = NULL THEN {}
         ELSE {g.pathv} \cup {Vector[g.offs + i] : i \in 1..g.pathc}
List == IF list.res = NULL THEN {} ELSE {list.res} \cup {heap[list.res].slots[i] : i \in 1..list.n}

\* Between calls everything that is allocated can be freed by the caller, and what
\* the caller would free is allocated, once each: whatever failed half way, glob,
\* scandir and the wrappers have freed what they do not hand over, and closed their
\* directories.  The only blocks that are lost are name buffers of calls of glob
\* that ended inside a directory (glob.c:125 and 139 return without freeing them).
NothingLost ==
    running = "caller" =>
        /\ Paths \cup List \subseteq Allocated /\ Paths \cap List = {}
        /\ Cardinality(Paths) = (IF g.pathv = NULL THEN 0 ELSE g.pathc + 1)
        /\ \A b \in Allocated \ (Paths \cup List) : heap[b].is = "namebuf" /\ faults > 0
=============================================================================
