------------------------------ MODULE Rotation ------------------------------
(* What exchange (src/misc/getopt.c) does to argv, in one step: module Getopt *)
(* uses it, module Exchange has the loop that implements it.                  *)
EXTENDS Integers

\* a, in which [bottom, middle) and [middle, top) have changed places.
Exchanged(a, bottom, middle, top) ==
    [k \in DOMAIN a |->
        IF bottom <= k /\ k < bottom + (top - middle) THEN a[k + (middle - bottom)]
        ELSE IF bottom + (top - middle) <= k /\ k < top THEN a[k - (top - middle)]
        ELSE a[k]]
=============================================================================
