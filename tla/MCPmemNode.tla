----------------------------- MODULE MCPmemNode -----------------------------
(* PmemNode for TLC.                                                       *)
EXTENDS PmemNode, TLC

\* A region that is no multiple of the alignment (6), one that is partly taken by
\* a raw namespace, and a read-only one that an fsdax namespace fills.
MCRegionSize == <<16, 18, 12>>

Used(r, first, size, mode) ==
    [region |-> r, start |-> first, size |-> size, name |-> "", mode |-> mode,
     state |-> "active", data |-> "user"]

MCForeign == {Used(2, 0, 6, "raw"), Used(3, 0, 12, "fsdax")}

\* A storage class for file I/O that keeps the data, an ephemeral volume, and
\* parameters that exclude each other.
MCMaps ==
    {UsageModel :> "FileIO" @@ EraseAfter :> "0" @@ PersistencyModel :> "none",
     Size :> 11 @@ Ephemeral :> "true" @@ PodName :> "pod" @@ KataContainers :> "T",
     KataContainers :> "true" @@ UsageModel :> "FileIO"}

Symmetry == Permutations(Ids)
=============================================================================
