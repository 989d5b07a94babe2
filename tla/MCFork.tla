------------------------------- MODULE MCFork -------------------------------
(* Instances of Fork for TLC. *)
EXTENDS Fork

MCStdHandles == {2}
FilesOnly == {"file"}
EventsOnly == {"event"}
FilesAndProcesses == {"file", "Process"}
MCInitialKinds == {"file", "console", "Process"}

\* Three pointers into blocks of one or more regions, of which the clone has some.
MCLayouts ==
    {l \in [alloc : {<<1, 1, 1, 1>>, <<1, 1, 1, 2>>, <<1, 0, 2, 2>>},
            attr : [1..4 -> {"NOACCESS", "READ", "READWRITE"}],
            cloned : {{}, {1}, {2}},
            pointers : [1..3 -> 0..4]] :
        \A p \in 1..4 : l.alloc[p] = 0 => l.attr[p] = "NOACCESS"}

OneLayout == {[alloc |-> <<1>>, attr |-> <<"READ">>, cloned |-> {1}, pointers |-> <<1>>]}
=============================================================================
