---------------------------- MODULE MCImageCreate ----------------------------
(* Instances of ImageCreate for TLC.                                       *)
EXTENDS ImageCreate

(* Windows Server 2019 and the later release 1909.                         *)
OlderFirst == <<17763, 18363>>
=============================================================================
