---------------------------- MODULE MCNativePool ----------------------------
(* Instances of NativePool for TLC: the decoder with two buffers of a call *)
(* and the analysis with one it does not wipe.                             *)
EXTENDS NativePool, TLC

MCKinds == {"decode", "feed"}
=============================================================================
