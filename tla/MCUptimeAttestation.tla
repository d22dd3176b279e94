------------------------ MODULE MCUptimeAttestation -------------------------
(* Instances of UptimeAttestation for TLC, with 2^64 scaled down to Word. *)
EXTENDS UptimeAttestation

(* Every uint64, so that a start plus the duration may wrap around. *)
MCEpochStart == 0..(Word - 1)

(* Both ends of the valid range, and the first invalid score. *)
MCBps == {0, BPS_DENOMINATOR, BPS_DENOMINATOR + 1}
=============================================================================
