-------------------------------- MODULE MCVm --------------------------------
(* Instances of Vm for TLC.                                                *)
EXTENDS Vm

OnePage == {0}
(* Nothing is looked at after the first slip.                              *)
NoSlip == slips = {}
=============================================================================
