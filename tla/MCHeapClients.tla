--------------------------- MODULE MCHeapClients ---------------------------
(* An instance of HeapClients for TLC. *)
EXTENDS HeapClients

Entry1(name, d_type) == [name |-> name, d_type |-> d_type]

\* 2/ holds 2 and 1, 3 is a link to a file, 1 a file.
MCTree ==
    << >> :> <<Entry1(2, "DT_DIR"), Entry1(3, "DT_LNK"), Entry1(1, "DT_REG")>>
    @@ <<2>> :> <<Entry1(2, "DT_REG"), Entry1(1, "DT_REG")>>

MCPatterns == {<<{1, 2, 3}>>, <<{2, 3}, {1, 2}>>, <<{1, 2, 3}, {}>>, <<{2}, {3}>>, <<{}>>}
MCFlagSets == {{}, {"APPEND"}, {"ERR", "MARK"}, {"NOCHECK", "NOSORT"}}

MCListings == {<<3, 5, 1>>, <<5>>}
MCSelected == {1, 2, 3}

Text(len, out) == [len |-> len, out |-> out]
MCWideTexts == {Text(4, 12), Text(5, 15), Text(9, 9)}
MCByteTexts == {Text(6, 6), Text(7, 7)}
=============================================================================
