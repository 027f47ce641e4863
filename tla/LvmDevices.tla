----------------------------- MODULE LvmDevices -----------------------------
(***************************************************************************)
(* The LVM device manager, pkg/pmem-device-manager/pmd-lvm.go: logical     *)
(* volumes (LVs) named by volume ID in the driver's volume groups      *)
(* (VGs), and the manager's in-memory cache of them.                       *)
(*                                                                         *)
(* Each operator is one step of CreateDevice, DeleteDevice or start-up;    *)
(* NodeController puts them in order.  The lvcreate, lvremove, lvs and vgs *)
(* commands are atomic.  A VG is known by its place in the output of lvs   *)
(* and vgs, which both sort by VG name.                                    *)
(***************************************************************************)
EXTENDS VolumeIds, Integers, FiniteSets, FiniteSetsExt

CONSTANTS
    NumVGs,     \* number of volume groups
    VGSize,     \* VGSize[vg]: bytes that the VG can hand out
    lvmAlign    \* allocation unit

VGs == 1 .. NumVGs

ASSUME LvmAssumption ==
    /\ NumVGs \in Nat
    /\ VGSize \in [VGs -> Nat]
    /\ lvmAlign \in Nat \ {0}
    /\ IsFiniteSet(Ids)

VARIABLES
    lvs,        \* lvs[id][vg]: size of LV id in vg, 0 if there is none
    uncleared,  \* the <<id, vg>> whose LV may still start with old data
    devices     \* the cache: devices[id] is the VG of id's device, or 0

lvmVars == <<lvs, uncleared, devices>>

LvmTypeOK ==
    /\ lvs \in [Ids -> [VGs -> Nat]]
    /\ uncleared \subseteq Ids \X VGs
    /\ devices \in [Ids -> 0 .. NumVGs]

LvmInit ==
    /\ lvs = [id \in Ids |-> [vg \in VGs |-> 0]]
    /\ uncleared = {}
    /\ devices = [id \in Ids |-> 0]

-----------------------------------------------------------------------------
\* vg_free as reported by vgs.
VGFree(vg) == VGSize[vg] - MapThenSumSet(LAMBDA id : lvs[id][vg], Ids)

\* The size is rounded up to the alignment, but is at least one unit.
Align(size) ==
    LET up == ((size + lvmAlign - 1) \div lvmAlign) * lvmAlign
    IN  IF up = 0 THEN lvmAlign ELSE up

\* Mutant: the free space is not rounded down to the alignment.
MaxVolumeSizeUnaligned ==
    LET largest[vg \in 0 .. NumVGs] ==
            IF vg = 0 THEN 0
            ELSE IF VGFree(vg) > largest[vg - 1] THEN VGFree(vg) ELSE largest[vg - 1]
    IN  largest[NumVGs]

\* GetCapacity: the VGs are visited in order.
MaxVolumeSize ==
    LET largest[vg \in 0 .. NumVGs] ==
            IF vg = 0 THEN 0
            ELSE IF VGFree(vg) > largest[vg - 1]
                   THEN (VGFree(vg) \div lvmAlign) * lvmAlign
                   ELSE largest[vg - 1]
    IN  largest[NumVGs]

\* VGs in which lvcreate can make an LV of that name and size.
Eligible(id, size) == {vg \in VGs : VGFree(vg) >= Align(size) /\ lvs[id][vg] = 0}

\* lvcreate: new LV, which may start with data of an earlier one.
LvCreate(id, vg, size) ==
    /\ lvs' = [lvs EXCEPT ![id][vg] = Align(size)]
    /\ uncleared' = uncleared \cup {<<id, vg>>}
    /\ UNCHANGED devices

\* waitDeviceAppears and clearDevice succeeded; the device is added to the cache.
LvReady(id, vg) ==
    /\ uncleared' = uncleared \ {<<id, vg>>}
    /\ devices' = [devices EXCEPT ![id] = vg]
    /\ UNCHANGED lvs

\* clearDevice in DeleteDevice.
LvClear(id) ==
    /\ uncleared' = uncleared \ {<<id, devices[id]>>}
    /\ UNCHANGED <<lvs, devices>>

\* lvremove, then the device is dropped from the cache.
LvRemove(id) ==
    /\ lvs' = [lvs EXCEPT ![id][devices[id]] = 0]
    /\ uncleared' = uncleared \ {<<id, devices[id]>>}
    /\ devices' = [devices EXCEPT ![id] = 0]

\* The device that the output of lvs gives for a name: parseLVSOutput keeps
\* the last line.
ListedDevice(id) ==
    IF \A vg \in VGs : lvs[id][vg] = 0
      THEN 0
      ELSE CHOOSE vg \in VGs : lvs[id][vg] > 0 /\ \A v \in VGs : lvs[id][v] > 0 => v <= vg

\* Start-up: the cache is filled from lvs.
LvLoad ==
    /\ devices' = [id \in Ids |-> ListedDevice(id)]
    /\ UNCHANGED <<lvs, uncleared>>

=============================================================================
