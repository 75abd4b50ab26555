--------------------------- MODULE MCContractExport -------------------------
(***************************************************************************)
(* A module with a document of its own and up to two others, on the same  *)
(* registry or another.  A registry that describes a route the table lacks*)
(* fails the generation.                                                   *)
(***************************************************************************)
EXTENDS ContractExport, TLC

CONSTANTS r1, r2, p1, p2, p3, Old

Of(registry, path) == [registry |-> registry, path |-> path, valid |-> TRUE]

MCOwn == <<Of(r1, p1)>>

MCContracts ==
    {Of(r1, p2), Of(r2, p2), Of(r2, p1), Of(r2, p3), Of(NoRegistry, p3),
     [Of(r2, p3) EXCEPT !.valid = FALSE]}

MCBytes(t, v, contract) == IF v > t THEN Failed ELSE <<contract, t, v>>

MCData == {<<c, t, v>> : c \in Contract, t \in Versions, v \in Versions} \cup {<<Old>>}

\* One file holds an older document, the others are absent.
MCCommitted == {[p \in Paths |-> IF p = p1 THEN <<Old>> ELSE Missing]}

MCSymmetry == Permutations(Calls)
=============================================================================
