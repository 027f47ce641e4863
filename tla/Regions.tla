------------------------------ MODULE Regions -------------------------------
(***************************************************************************)
(* PMEM regions and the namespaces in them, pkg/ndctl: alignment, free     *)
(* space and the steps in which a namespace is created and destroyed.      *)
(*                                                                         *)
(* libndctl and the kernel are external.  A namespace takes a contiguous   *)
(* extent of its region.  A new one is made out of the region's seed: the  *)
(* seed gets a size, then a name, and a region has a new seed only after   *)
(* the old one was enabled.  Only enabled regions are modelled.            *)
(***************************************************************************)
EXTENDS VolumeIds, Integers, FiniteSets, FiniteSetsExt

CONSTANTS
    NumRegions,
    RegionSize,         \* RegionSize[r]
    ReadOnly,           \* the read-only regions
    fsdaxalign, interleave, rawRegionAlign,   \* of each region
    FallbackAlign,      \* used when the region has no alignment
    BttOverhead,        \* what a namespace in sector mode needs for itself
    Foreign             \* the namespaces that others have created

Regions == 1 .. NumRegions

pmemCSINamespaceName == "pmem-csi"
NamespaceNames == Ids \cup {pmemCSINamespaceName, ""}

Namespaces ==
    [region : Regions, start : Nat, size : Nat \ {0},
     name : NamespaceNames,
     mode : {"raw", "fsdax", "sector"},
     state : {"seed", "active", "disabled"},
     data : {"stale",   \* whatever was in that place before
             "clear",   \* wiped: nothing will be recognized
             "pv",      \* physical volume of the region's volume group
             "user"}]   \* data of a user

ASSUME RegionsAssumption ==
    /\ NumRegions \in Nat \ {0}
    /\ RegionSize \in [Regions -> Nat]
    /\ ReadOnly \subseteq Regions
    /\ {fsdaxalign, interleave, FallbackAlign} \subseteq Nat \ {0}
    /\ {rawRegionAlign, BttOverhead} \subseteq Nat
    /\ Ids \cap {pmemCSINamespaceName, "", None} = {}
    \* An admin may prepare namespaces for the driver.
    /\ IsFiniteSet(Foreign)
    /\ Foreign \subseteq {n \in Namespaces :
                            /\ n.name \notin Ids /\ n.state # "seed"
                            /\ n.name = pmemCSINamespaceName => n.data # "user"}
    /\ \A m, n \in Foreign : m # n /\ m.region = n.region =>
          m.start + m.size <= n.start \/ n.start + n.size <= m.start

VARIABLE ns     \* all namespaces with a size

-----------------------------------------------------------------------------
GCD[a, b \in Nat] == IF b = 0 THEN a ELSE GCD[b, a % b]

LCM(a, b) == (a * b) \div GCD[a, b]

\* CalculateAlignment
align == LCM(fsdaxalign * interleave,
             IF rawRegionAlign <= 1 THEN FallbackAlign ELSE rawRegionAlign)

\* The smallest namespace has space for what sector mode needs.
ASSUME AlignAssumption == align \in Nat \ {0} /\ BttOverhead < align

AlignDown(size) == (size \div align) * align

\* Mutant: an aligned size is rounded up, too.
AlignUpAlways(size) == (size \div align + 1) * align

AlignUp(size) ==
    IF size = 0 \/ size % align # 0 THEN (size \div align + 1) * align ELSE size

AllNamespaces(r) == {n \in ns : n.region = r}
ActiveNamespaces(r) == {n \in ns : n.region = r /\ n.state = "active"}

\* The first one with that name, if there is one.
GetNamespaceByName(name) ==
    {n \in ns : n.name = name /\ \A m \in ns : m.name = name => n.region <= m.region}

\* The amount of PMEM that the namespace uses, in sector mode the usable size.
RawSize(n) == IF n.mode = "sector" THEN n.size - BttOverhead ELSE n.size

\* The sum of their sizes: the number of the units that they have.
TotalSize(S) == Cardinality(UNION {{n} \X (1 .. RawSize(n)) : n \in S})

FreeSpace(r, taken) ==
    (0 .. RegionSize[r] - 1)
        \ UNION {n.start .. n.start + n.size - 1 : n \in {m \in taken : m.region = r}}

\* First and last address of the maximal free extents.
Extents(r, taken) ==
    LET free == FreeSpace(r, taken)
        first == {a \in free : a - 1 \notin free}
        last == {a \in free : a + 1 \notin free}
    IN  {e \in first \X last : e[1] .. e[2] \subseteq free}

AvailableSize(r) == Cardinality(FreeSpace(r, ns))
MaxAvailableExtent(r) == Max({0} \cup {e[2] - e[1] + 1 : e \in Extents(r, ns)})

\* CreateNamespace passes its checks.
CanCreate(r, size) == r \notin ReadOnly /\ AlignUp(size) <= MaxAvailableExtent(r)

-----------------------------------------------------------------------------
Seed(r) == {n \in ns : n.region = r /\ n.state = "seed"}

\* CreateNamespace: SetUUID and SetSize of the seed namespace.  A seed that an
\* interrupted call has left behind is used again.
SetSize(r, size) ==
    /\ CanCreate(r, size)
    /\ \E e \in Extents(r, ns \ Seed(r)) :
          /\ e[2] - e[1] + 1 >= AlignUp(size)
          /\ ns' = (ns \ Seed(r)) \cup
                   {[region |-> r, start |-> e[1], size |-> AlignUp(size),
                     name |-> IF Seed(r) = {} THEN "" ELSE (CHOOSE n \in Seed(r) : TRUE).name,
                     mode |-> "raw", state |-> "seed", data |-> "stale"]}

SetAltName(r, name) ==
    ns' = (ns \ Seed(r)) \cup {[n EXCEPT !.name = name] : n \in Seed(r)}

\* The rest of CreateNamespace up to Enable.
Enable(r, mode) ==
    ns' = (ns \ Seed(r)) \cup {[n EXCEPT !.mode = mode, !.state = "active"] : n \in Seed(r)}

\* "reset seed on failure": the result of deleting it is ignored, so it may stay.
ResetSeed(r) == ns' = ns \ Seed(r) \/ UNCHANGED ns

\* DestroyNamespace disables the namespace before it deletes it.
DestroyNamespace(name) == ns' = ns \ GetNamespaceByName(name)

DisableNamespace(name) ==
    LET found == GetNamespaceByName(name)
    IN  ns' = (ns \ found) \cup {[n EXCEPT !.state = "disabled"] : n \in found}

\* All namespaces in changed get the data d.
SetData(changed, d) == ns' = (ns \ changed) \cup {[n EXCEPT !.data = d] : n \in changed}

=============================================================================
