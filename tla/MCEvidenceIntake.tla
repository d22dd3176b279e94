-------------------------- MODULE MCEvidenceIntake --------------------------
(* Instances of EvidenceIntake for TLC. *)
EXTENDS EvidenceIntake, TLC

CONSTANTS z1, up, down, later, report, w1, w2, t1, t2

(* Two sensors that contradict each other, one of them heard again later,  *)
(* and a person who confirms the outage.  A sweep reads two sensor rows,   *)
(* so that its limit may cut the newest off.                               *)
MCAbout ==
    LET e(w, src, s, v, t) == [zone |-> z1, witness |-> w, source |-> src,
                               status |-> s, voltage |-> v, at |-> t]
    IN [r \in {up, down, later, report} |->
          CASE r = up     -> e("d1", "sensor", "grid_up", 180, 1)
            [] r = down   -> e("d2", "sensor", "grid_down", 5, 0)
            [] r = later  -> e("d1", "sensor", "unknown", NoVoltage, 2)
            [] r = report -> e("p1", "reporter", "grid_down", NoVoltage, 1)]

(* The first payload is sent twice, by t1 and t2. *)
MCRequest == {t1, t2, "t3", "t4", "t5"}
MCReadingOf == [t \in MCRequest |->
    CASE t \in {t1, t2} -> down [] t = "t3" -> up [] t = "t4" -> later [] t = "t5" -> report]

Alike == Permutations({w1, w2}) \cup Permutations({t1, t2})
=============================================================================
