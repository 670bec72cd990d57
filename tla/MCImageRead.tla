----------------------------- MODULE MCImageRead -----------------------------
(* Instances of ImageRead for TLC.                                         *)
EXTENDS ImageRead

(* Two workers of different Windows releases.                              *)
TwoReleases == <<"1809", "1909">>

(* Two workers of the same release, as in a pool of identical hosts.       *)
OneRelease == <<"1809", "1809">>

(* The os_build that ImageCreate records for every worker.                 *)
RecordedBuilds == <<0, 0>>

(* Bound: no build hangs.  (The run release looks at builds that do.)      *)
BuildsEnd == \A w \in Workers : build[w] # "hung"
=============================================================================
