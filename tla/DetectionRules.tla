--------------------------- MODULE DetectionRules ---------------------------
(***************************************************************************)
(* The deterministic rules of api/detection: what a single reading is      *)
(* worth, how other witnesses confirm or contest it (rules.ts), and what   *)
(* counts as a silence of a zone's sensors (heartbeat.ts).                 *)
(*                                                                         *)
(* Times are in units of the model; confidences are in 1/10000, which is   *)
(* what roundConfidence keeps of them.                                     *)
(***************************************************************************)
EXTENDS Integers, FiniteSets

CONSTANTS
    Reading,            \* payloads that may be sent, one per idempotency key
    About,              \* what each says: [zone, witness, source, status, voltage, at]
    NoVoltage,          \* a payload without a voltage
    AgreementWindow,    \* AGREEMENT_WINDOW_MS
    GapLength           \* HEARTBEAT_GAP_MS

ASSUME RulesAssumption ==
    /\ \A r \in Reading :
          /\ About[r].source \in {"sensor", "reporter"}
          /\ About[r].status \in {"grid_up", "grid_down", "unknown"}
          /\ About[r].voltage \in Nat \cup {NoVoltage}
          /\ About[r].at \in Nat
    /\ AgreementWindow \in Nat
    /\ GapLength \in Nat \ {0}

MinOf(a, b) == IF a < b THEN a ELSE b

Close(q, r) ==
    /\ About[q].at - About[r].at <= AgreementWindow
    /\ About[r].at - About[q].at <= AgreementWindow

-----------------------------------------------------------------------------
(* rules.ts.  A witness is evidenceSourceIdentity: the device, or the      *)
(* wallet of a person; `confidence_hint` is never stored.                  *)
confidenceForEvidence(r) ==
    LET e == About[r]
        known == e.voltage # NoVoltage IN
    IF e.source = "reporter" THEN 6500
    ELSE IF e.status = "grid_down" /\ known /\ e.voltage <= 5 THEN 9500
    ELSE IF e.status = "grid_up" /\ known /\ e.voltage >= 180 THEN 9000
    ELSE 7200

(* What other witnesses of the zone say at about the time of r. *)
others(r, recent) ==
    {q \in recent : /\ q # r /\ Close(q, r)
                    /\ About[q].zone = About[r].zone
                    /\ About[q].status # "unknown"
                    /\ About[q].witness # About[r].witness}

Conflicting(q, r) ==
    /\ {About[q].status, About[r].status} = {"grid_up", "grid_down"}
    /\ q \in others(r, {q})

agreementBonus(r, recent) ==
    LET agreeing == {q \in others(r, recent) : About[q].status = About[r].status}
        same == {About[q].witness : q \in {p \in agreeing : About[p].source = About[r].source}}
        cross == {About[q].witness : q \in {p \in agreeing : About[p].source # About[r].source}}
    IN MinOf(400 * Cardinality(same) + 800 * Cardinality(cross), 1600)

(* Fault: the sum is not capped. *)
applyAgreement_NoCap(base, bonus, contested) ==
    IF contested THEN MinOf(base + bonus, 8000) ELSE base + bonus

(* MAX_AGREED_CONFIDENCE is 0.97, CONFLICT_CONFIDENCE_CEILING 0.8. *)
applyAgreement(base, bonus, contested) ==
    MinOf(base + bonus, IF contested THEN 8000 ELSE 9700)

scoreAgreement(r, recent) ==
    applyAgreement(confidenceForEvidence(r), agreementBonus(r, recent),
                   \E q \in recent : Conflicting(q, r))

-----------------------------------------------------------------------------
(* heartbeat.ts.  Any reading of any sensor is a heartbeat of its zone.    *)
beatsOf(z, rows) == {r \in rows : About[r].zone = z /\ About[r].source = "sensor"}

(* The distinct sensors heard within one gap length before a silence.      *)
nodesReportingBefore(beats, start) ==
    {About[r].witness : r \in {b \in beats : /\ About[b].at <= start
                                             /\ start - About[b].at <= GapLength}}

(* 0.6 and up to 0.2 more as the silence grows to three gap lengths, 0.06  *)
(* for every further node, 0.8 at most for a single one.                   *)
gapConfidence(length, nodes) ==
    LET overrun == MinOf(length - GapLength, 2 * GapLength)
        byLength == 6000 + (2000 * overrun + GapLength) \div (2 * GapLength)
        confidence == byLength + 600 * (nodes - 1)
    IN MinOf(confidence, IF nodes < 2 THEN 8000 ELSE 9500)

(* Fault: a silence ends with any later heartbeat, or is open after any.   *)
silences_FromAny(beats, now) ==
    LET at == {About[r].at : r \in beats}
    IN {g \in at \X (at \cup {now}) : g[2] - g[1] > GapLength}

(* Start and end of every stretch without a heartbeat that is longer than  *)
(* a gap length; the one still open ends now.                              *)
silences(beats, now) ==
    LET at == {About[r].at : r \in beats}
        quiet(a, b) == b - a > GapLength /\ ~\E m \in at : a < m /\ m < b
    IN {g \in at \X at : quiet(g[1], g[2])}
       \cup {<<a, now>> : a \in {l \in at : quiet(l, now) /\ \A m \in at : m <= l}}

detectHeartbeatGapCandidates(z, rows, now) ==
    {[zone |-> z, start |-> g[1], end |-> g[2],
      confidence |-> gapConfidence(g[2] - g[1],
                        Cardinality(nodesReportingBefore(beatsOf(z, rows), g[1]))),
      created |-> now]
     : g \in silences(beatsOf(z, rows), now)}

=============================================================================
