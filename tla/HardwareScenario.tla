--------------------------- MODULE HardwareScenario ---------------------------
(***************************************************************************)
(* The acceptance run of the repository: scripts/simulate-hardware.ts       *)
(* plays the constant scenario of scripts/hardware-scenario.ts against the  *)
(* API and checks every answer against a confidence worked out by hand.    *)
(* The API's side of it is DetectionRules on what is stored already.       *)
(*                                                                         *)
(* Times are seconds; a run has a clock and a --run-offset.                *)
(***************************************************************************)
EXTENDS Integers, Sequences, FiniteSets

CONSTANTS
    Invocation,     \* invocations of the simulator
    Runs,           \* their clock and --run-offset
    Unmeasured      \* the voltage an offline meter leaves out

ASSUME ScenarioAssumption ==
    /\ Unmeasured \notin Nat
    /\ \A i \in Invocation : Runs[i].clock \in Nat /\ Runs[i].clock >= 3600
                             /\ Runs[i].offset \in Nat

MINUTE == 60
HOUR == 3600

NoCandidate == 0    \* otherwise an expectation is a confidence

sensor(act, band, at, zone, meter, status, voltage, expect) ==
    [act |-> act, band |-> band, at |-> at * MINUTE, zone |-> zone, source |-> "sensor",
     witness |-> <<"device", zone, meter>>, status |-> status, voltage |-> voltage,
     expect |-> expect]

(* Reporters and WhatsApp senders of a zone share its reporter wallet. *)
report(act, band, at, zone, status, expect) ==
    [act |-> act, band |-> band, at |-> at * MINUTE, zone |-> zone, source |-> "reporter",
     witness |-> <<"wallet", zone>>, status |-> status, voltage |-> Unmeasured,
     expect |-> expect]

(* DEMO_NATIONAL_ZONES: two feeders per distribution company. *)
ZoneIndex == 0..22
baselineStatus(z) ==
    IF z \in {1, 4, 7, 12, 16, 19} THEN "grid_down"
    ELSE IF z \in {2, 14, 22} THEN "unknown" ELSE "grid_up"

(* Fault: the baseline is sent ten minutes later. *)
baseline_Later(z) ==
    CASE baselineStatus(z) = "grid_up" ->
             sensor("S1", "sealed", 15, z, 0, "grid_up", 10700, 9000)
      [] baselineStatus(z) = "grid_down" ->
             sensor("S1", "sealed", 15, z, 0, "grid_down", 0, 9500)
      [] OTHER -> sensor("S1", "sealed", 15, z, 0, "unknown", Unmeasured, NoCandidate)

baseline(z) ==
    CASE baselineStatus(z) = "grid_up" ->
             sensor("S1", "sealed", 5, z, 0, "grid_up", 10700, 9000)
      [] baselineStatus(z) = "grid_down" ->
             sensor("S1", "sealed", 5, z, 0, "grid_down", 0, 9500)
      [] OTHER -> sensor("S1", "sealed", 5, z, 0, "unknown", Unmeasured, NoCandidate)

NATIONAL_BASELINE == [i \in 1..23 |-> baseline(i - 1)]

SEALED_ACTS == <<
    sensor("S2",  "sealed", 20, 0, 0, "grid_down", 0,     9500),
    sensor("S3",  "sealed", 22, 0, 1, "grid_down", 3,     9700),
    sensor("S4a", "sealed", 36, 0, 0, "grid_up",   10700, 9000),
    sensor("S4b", "sealed", 38, 0, 1, "grid_up",   10700, 9400),
    report("S5a", "sealed", 30, 10, "grid_down",          6500),
    sensor("S5b", "sealed", 33, 10, 0, "grid_down", 0,    9700),
    report("S6",  "sealed", 50, 6, "grid_down",           6500) >>

LIVE_ACTS == <<
    report("L1a", "live", -10, 19, "grid_up",             6500),
    sensor("L1b", "live", -8, 19, 0, "grid_down", 0,      8000),
    sensor("L1c", "live", -4, 19, 0, "grid_down", 0,      8000),
    report("L2",  "live", -6, 12, "grid_down",            6500),
    report("L3",  "live", -5, 8, "grid_down",             6500),
    sensor("L4",  "live", -3, 14, 0, "unknown", Unmeasured,  NoCandidate),
    sensor("L5a", "live", -11, 16, 0, "unknown", Unmeasured, NoCandidate),
    sensor("L5b", "live", -2, 16, 0, "unknown", Unmeasured,  NoCandidate) >>

SCENARIO_EVENTS == NATIONAL_BASELINE \o SEALED_ACTS \o LIVE_ACTS

floorToHour(t) == (t \div HOUR) * HOUR
sealedEpochStart(run) == floorToHour(run.clock) - HOUR

(* buildScenario: the i-th event of a run, anchored to its clock. *)
resolved(run, i) ==
    LET event == SCENARIO_EVENTS[i]
        anchor == IF event.band = "sealed" THEN sealedEpochStart(run) ELSE run.clock
    IN [event EXCEPT !.at = anchor + @ + run.offset]

(* A request by run and event; its idempotency key is the witness and the second. *)
Telemetry == Invocation \X (DOMAIN SCENARIO_EVENTS)
Payload == [x \in Telemetry |-> resolved(Runs[x[1]], x[2])]
sameKey(x, y) == Payload[x].witness = Payload[y].witness /\ Payload[x].at = Payload[y].at

Api == INSTANCE DetectionRules
         WITH Reading <- Telemetry, About <- Payload, NoVoltage <- Unmeasured,
              AgreementWindow <- 10 * MINUTE, GapLength <- 6 * MINUTE

VARIABLES
    turn,           \* the invocation, the first one, and what it does next
    evidence,       \* the requests whose evidence is stored
    candidates,     \* what came of them: [request, decision]
    queued,         \* epochs queued for the chain: zone and hour
    submitted,      \* those that were sent
    rounds,         \* calls of submit-pending
    checks          \* the results: act or check, and outcome

svars == <<turn, evidence, candidates, queued, submitted, rounds, checks>>

ScenarioInit ==
    /\ \E i \in Invocation : turn = [run |-> i, first |-> i, step |-> "send", event |-> 1]
    /\ evidence = {} /\ candidates = {} /\ queued = {} /\ submitted = {} /\ rounds = 0 /\ checks = {}

record(name, status) == checks' = checks \cup {<<turn.run, name, status>>}

decisionFor(confidence) ==
    IF confidence >= 8500 THEN "approve"
    ELSE IF confidence >= 5000 THEN "escalate" ELSE "reject"

hourOf(x) == <<Payload[x].zone, floorToHour(Payload[x].at)>>

Duplicate == -1
inZone(x) == {y \in evidence : SCENARIO_EVENTS[y[2]].zone = SCENARIO_EVENTS[x[2]].zone}

(* What the API finds: a duplicate, or the confidence of a candidate or 0. *)
answer(x) ==
    IF \E y \in inZone(x) : sameKey(x, y) THEN Duplicate
    ELSE IF Payload[x].status = "unknown" THEN 0 ELSE Api!scoreAgreement(x, inZone(x))

(* verifyEvent: the confidence that is expected, or a key that was used. *)
verifyEvent(event, confidence) ==
    record(event.act, IF confidence = event.expect THEN "pass" ELSE "fail")

(* A reading is stored, its candidate detected and decided by the gate. *)
ingest(x, confidence) ==
    /\ evidence' = evidence \cup {x}
    /\ candidates' = IF confidence = 0 THEN candidates
          ELSE candidates \cup {[request |-> x, decision |-> decisionFor(confidence)]}
    /\ queued' = IF decisionFor(confidence) = "approve" THEN queued \cup {hourOf(x)} ELSE queued

(* One request at a time, so that a reading meets those sent before it. *)
sendEvent ==
    LET x == <<turn.run, turn.event>> IN
    /\ turn.step = "send"
    /\ turn' = IF turn.event = Len(SCENARIO_EVENTS) THEN [turn EXCEPT !.step = "replay"]
             ELSE [turn EXCEPT !.event = @ + 1]
    /\ \E reply \in {answer(x)} :
          IF reply = Duplicate
          THEN record(Payload[x].act, "warn") /\ UNCHANGED <<evidence, candidates, queued>>
          ELSE verifyEvent(Payload[x], reply) /\ ingest(x, reply)
    /\ UNCHANGED <<submitted, rounds>>

Act(name) == {x \in Telemetry : x[1] = turn.run /\ Payload[x].act = name}

(* S2 once more: it must be a duplicate. *)
checkIdempotentReplay ==
    /\ turn.step = "replay"
    /\ turn' = [turn EXCEPT !.step = "review"]
    /\ record("replay", IF \A x \in Act("S2") : \E y \in evidence : sameKey(x, y)
                        THEN "pass" ELSE "fail")
    /\ UNCHANGED <<evidence, candidates, queued, submitted, rounds>>

EscalatedActs == {"S5a", "S6", "L1a", "L1b", "L1c", "L2", "L3"}

(* The reviewer approves S6, which queues its hour, and rejects L2. *)
resolveReviewQueue ==
    LET awaiting(name) == {c \in candidates : c.request \in Act(name) /\ c.decision = "escalate"}
        resolve(name, verdict) == {[c EXCEPT !.decision = verdict] : c \in awaiting(name)}
        closed == awaiting("S6") \cup awaiting("L2")
    IN
    /\ turn.step = "review"
    /\ turn' = [turn EXCEPT !.step = "chain"]
    /\ candidates' = (candidates \ closed) \cup resolve("S6", "approve") \cup resolve("L2", "reject")
    /\ queued' = queued \cup {hourOf(c.request) : c \in awaiting("S6")}
    /\ record("review", IF \A a \in EscalatedActs : awaiting(a) # {} THEN "pass" ELSE "warn")
    /\ UNCHANGED <<evidence, submitted, rounds>>

(* POST submit-pending takes up to five epochs that are over and not sent. *)
Submittable == {q \in queued \ submitted : q[2] + HOUR <= Runs[turn.run].clock}

(* The five that were queued first, hours and zones in the order they are sent. *)
Five(S) ==
    {q \in S : Cardinality({p \in S : p[2] < q[2] \/ (p[2] = q[2] /\ p[1] < q[1])}) < 5}

(* Fault: the rounds do not reach the end of the national baseline. *)
roundsLeft_Three == rounds < 3
roundsLeft == rounds < 8

(* Rounds of it, until one finds nothing. *)
driveChain ==
    /\ turn.step = "chain"
    /\ submitted' = IF roundsLeft THEN submitted \cup Five(Submittable) ELSE submitted
    /\ rounds' = rounds + 1
    /\ turn' = IF roundsLeft /\ Submittable # {} THEN turn ELSE [turn EXCEPT !.step = "done"]
    /\ UNCHANGED <<evidence, candidates, queued, checks>>

(* The API's own sweep every two minutes, which may come in between. *)
backgroundSweep ==
    /\ turn.step = "chain" /\ Submittable # {}
    /\ submitted' = submitted \cup Five(Submittable)
    /\ UNCHANGED <<turn, evidence, candidates, queued, rounds, checks>>

Again(i) ==
    /\ turn.step = "done"
    /\ Runs[i].clock > Runs[turn.run].clock
    /\ turn' = [turn EXCEPT !.run = i, !.step = "send", !.event = 1]
    /\ rounds' = 0
    /\ UNCHANGED <<evidence, candidates, queued, submitted, checks>>

ScenarioNext ==
    \/ sendEvent \/ checkIdempotentReplay \/ resolveReviewQueue
    \/ driveChain \/ backgroundSweep \/ \E i \in Invocation : Again(i)

ScenarioSpec == ScenarioInit /\ [][ScenarioNext]_svars

-----------------------------------------------------------------------------
Finished == turn.step = "done"
checksOf(run, status) == {c \in checks : c[1] = run /\ c[3] = status}

(* The scenario is spaced so that the agreement window fires exactly where  *)
(* its expectations say (hardware-scenario.ts:245-249): whatever the minute *)
(* at which it is started, the first run sees the confidences it expects.  *)
FirstRunPasses == checksOf(turn.first, "fail") = {}

(* "Anything here is expected to escalate or produce no candidate at all"   *)
(* (hardware-scenario.ts:19): however often it is run, no run queues an     *)
(* hour that is not over, which the chain would refuse.                    *)
OnlySealedHoursQueued == \A q \in queued : q[2] + HOUR <= Runs[turn.run].clock

(* Eight rounds of five are enough for every epoch a run queues. *)
RunDrainsTheQueue == Finished => queued \subseteq submitted

(* The heartbeat sweep that follows a run by up to six minutes, looking     *)
(* back eighteen, finds the nine minutes of silence of L5a and L5b, at the  *)
(* confidence the scenario says, and no other silence that has ended:      *)
(* nothing in the sealed hour is recent enough.                            *)
SweepFindsTheSilence ==
    Finished /\ turn.run = turn.first =>
        \A delay \in {0, 60, 180, 359} :
           LET now == Runs[turn.run].clock + delay
               beats == {x \in evidence : Payload[x].at >= now - 18 * MINUTE}
               over == {g \in UNION {Api!detectHeartbeatGapCandidates(z, beats, now) :
                                       z \in ZoneIndex} : g.end # now}
           IN {<<g.zone, g.confidence>> : g \in over} = {<<16, 6500>>}

(* "Use a new --run-offset for a fresh run" (README.md:494), which passes   *)
(* as the first did.                                                       *)
FreshRunPasses == \A i \in Invocation : checksOf(i, "fail") = {}
=============================================================================
