-------------------------------- MODULE MCIke -------------------------------
(***************************************************************************)
(* Instances of IkeControl: each task may be a dead-peer probe, a Child SA *)
(* rekey or an IKE SA rekey, the operations that a session runs on timers  *)
(* of their own.                                                           *)
(***************************************************************************)
EXTENDS IkeControl

TwoRequestsEach == Tasks \X {1, 2}
=============================================================================
