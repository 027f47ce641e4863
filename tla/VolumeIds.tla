------------------------------ MODULE VolumeIds -----------------------------
(* What the modules of the node driver share.                              *)
CONSTANTS
    Ids,        \* volume IDs, as in VolumeId of the CSI calls
    None        \* absence of a value
=============================================================================
