---------------------------- MODULE MCFrameStream ----------------------------
(* FrameStream for TLC: the devices are interchangeable.                   *)
EXTENDS FrameStream, TLC

DeviceSymmetry == Permutations(Device)
=============================================================================
