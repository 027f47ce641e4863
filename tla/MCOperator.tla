----------------------------- MODULE MCOperator -----------------------------
(* Operator for TLC.                                                       *)
EXTENDS Operator

\* Defaults, all settings that matter, and an invalid device mode.
MCSpecs ==
    {[deviceMode |-> "", image |-> "", labels |-> {}],
     [deviceMode |-> "direct", image |-> "other", labels |-> {"label"}],
     [deviceMode |-> "unknown", image |-> "", labels |-> {}]}
=============================================================================
