----------------------------- MODULE MCDelivery -----------------------------
(* What carries readings and notices, for TLC: the firmware's queue, its    *)
(* converter's relay, the notification rows, and the page that shows what  *)
(* arrives.  They share no state, so one run serves for all: a behaviour   *)
(* follows one of them from its start.                                     *)
EXTENDS FirmwareQueue, ConverterRelay, NotificationOutbox, LiveView, TLC

CONSTANTS r1, r2, r3

(* LiveView: the zone goes down and comes back within a second. *)
MCObservedAt == r1 :> 1 @@ r2 :> 2 @@ r3 :> 2
MCStatusOf == r1 :> "up" @@ r2 :> "down" @@ r3 :> "up"

VARIABLE running
deliveryvars == <<running, qvars, rvars, nvars, lvars>>

Init ==
    /\ running \in {"queue", "relay", "outbox", "view"}
    /\ QueueInit /\ RelayInit /\ OutboxInit /\ ViewInit

Next ==
    \/ /\ running = "queue" /\ QueueNext
       /\ UNCHANGED <<running, rvars, nvars, lvars>>
    \/ /\ running = "relay" /\ RelayNext
       /\ UNCHANGED <<running, qvars, nvars, lvars>>
    \/ /\ running = "outbox" /\ OutboxNext
       /\ UNCHANGED <<running, qvars, rvars, lvars>>
    \/ /\ running = "view" /\ ViewNext
       /\ UNCHANGED <<running, qvars, rvars, nvars>>

(* QueueFairness and OutboxFairness, of the one that runs. *)
Fairness ==
    /\ WF_qvars(running = "queue" /\ boardStep)
    /\ \A e \in Event :
          /\ WF_nvars(running = "outbox" /\ requestStep(e))
          /\ WF_nvars(running = "outbox" /\ taskStep(e))

Spec == Init /\ [][Next]_deliveryvars /\ Fairness
=============================================================================
