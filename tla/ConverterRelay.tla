---------------------------- MODULE ConverterRelay ----------------------------
(***************************************************************************)
(* The sensor board's self-healing (hardware.ino): once both meters are     *)
(* silent it cuts the converter's power by a relay, pauses after a number   *)
(* of attempts, and restarts the board when that does not help.  The       *)
(* counters are in RAM.                                                    *)
(***************************************************************************)
EXTENDS Integers

CONSTANTS
    PauseAfter,     \* MAX_RELAY_CYCLES_BEFORE_PAUSING
    RebootAfter,    \* FULL_FAILURE_CYCLES_BEFORE_REBOOT
    MaxSilent       \* bound: silent publish cycles of one outage

ASSUME RelayAssumption == {PauseAfter, RebootAfter, MaxSilent} \subseteq Nat \ {0}

VARIABLES
    failures,       \* consecutiveFullFailures
    relayAttempts,  \* relayCycleAttempts
    cyclesOfBoot,   \* history: relay cycles of this outage since the board started
    cyclesOfOutage, \* history: relay cycles of this outage
    silent          \* history: silent publish cycles of this outage

rvars == <<failures, relayAttempts, cyclesOfBoot, cyclesOfOutage, silent>>

RelayInit ==
    /\ failures = 0 /\ relayAttempts = 0
    /\ cyclesOfBoot = 0 /\ cyclesOfOutage = 0 /\ silent = 0

(* Fault: the attempt that pauses cycles the converter once more. *)
selfHeal_OneMore ==
    IF relayAttempts <= PauseAfter
    THEN /\ relayAttempts' = relayAttempts + 1
         /\ cyclesOfBoot' = cyclesOfBoot + 1
         /\ cyclesOfOutage' = cyclesOfOutage + 1
    ELSE UNCHANGED <<relayAttempts, cyclesOfBoot, cyclesOfOutage>>

(* A silent cycle's repair: cut the power, or pause (the counter passes the *)
(* cap once), or nothing.                                                  *)
selfHeal ==
    \/ /\ relayAttempts < PauseAfter
       /\ relayAttempts' = relayAttempts + 1
       /\ cyclesOfBoot' = cyclesOfBoot + 1
       /\ cyclesOfOutage' = cyclesOfOutage + 1
    \/ /\ relayAttempts = PauseAfter
       /\ relayAttempts' = relayAttempts + 1
       /\ UNCHANGED <<cyclesOfBoot, cyclesOfOutage>>
    \/ /\ relayAttempts > PauseAfter
       /\ UNCHANGED <<relayAttempts, cyclesOfBoot, cyclesOfOutage>>

BothSilent ==
    /\ silent < MaxSilent
    /\ failures < RebootAfter
    /\ failures' = failures + 1
    /\ silent' = silent + 1
    /\ selfHeal

(* Fault: one meter that answers does not end the outage. *)
Recovered_KeepCount ==
    /\ failures < RebootAfter
    /\ failures' = 0
    /\ cyclesOfBoot' = 0 /\ cyclesOfOutage' = 0 /\ silent' = 0
    /\ UNCHANGED relayAttempts

(* One of the meters answers. *)
Recovered ==
    /\ failures < RebootAfter
    /\ failures' = 0 /\ relayAttempts' = 0
    /\ cyclesOfBoot' = 0 /\ cyclesOfOutage' = 0 /\ silent' = 0

(* ESP.restart() at the end of the last of them, or a power cut at any time. *)
RestartBoard ==
    /\ failures' = 0 /\ relayAttempts' = 0 /\ cyclesOfBoot' = 0
    /\ UNCHANGED <<cyclesOfOutage, silent>>

RelayNext == BothSilent \/ Recovered \/ RestartBoard
RelaySpec == RelayInit /\ [][RelayNext]_rvars

-----------------------------------------------------------------------------
(* Properties *)

(* Types of the counters. *)
RelayTypeOK ==
    /\ failures \in 0..RebootAfter
    /\ relayAttempts \in 0..(PauseAfter + 1)
    /\ {cyclesOfBoot, cyclesOfOutage, silent} \subseteq Nat

Least(a, b) == IF a < b THEN a ELSE b

(* Between two starts of the board an outage gets as many relay cycles as   *)
(* it has silent cycles, up to the cap: recovery arms the relay again, and  *)
(* silence never goes on unrepaired below it.                              *)
CyclesOfBootCapped == cyclesOfBoot = Least(failures, PauseAfter)

(* hardware.ino:365 "stop actively power-cycling after this many attempts   *)
(* in one outage".                                                         *)
CyclesOfOutageCapped == cyclesOfOutage <= PauseAfter
=============================================================================
