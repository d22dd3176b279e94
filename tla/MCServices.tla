----------------------------- MODULE MCServices -----------------------------
(* The services around the pipeline, for TLC.  Each has its own tables or  *)
(* maps and is modelled with what it meets of the others, so one run       *)
(* serves for all: a behaviour follows one of them from its start.         *)
EXTENDS RateLimiter, ReviewDesk, DemoRun, MemoryMode, ProviderMirror, Sessions,
        HardwareScenario, AgentReview, NotificationPages

CONSTANTS e1, e2, e3

(* ReviewDesk: an event the gate escalates. *)
MCConfidenceOf == [e \in Event |-> "mid"]

(* MemoryMode: an approval, an escalation and a preview of one epoch. *)
MCEpochOf == [e \in Evidence |-> "hour"]
MCConfidence == [e \in Evidence |-> IF e = e2 THEN "middle" ELSE "high"]

(* Sessions: the account is the seed's reviewer. *)
MCSeedRole == [i \in Identity |-> 2]

(* HardwareScenario: on the hour, within it, at its end, and into the next *)
(* one, with every offset that --run-offset is called with.                *)
Run(c, o) == [clock |-> c, offset |-> o]
MCRuns == <<Run(3600, 0), Run(3660, 1), Run(4500, 0), Run(7199, 2), Run(7260, 0)>>

(* AgentReview: a sensor, a person who says two things at the end of the   *)
(* window, and a sensor that spoke before it.                              *)
MCMessage == {"sensed", "said", "unsaid", "before"}
MCContent ==
    LET content(p, s, st, a) == [provider |-> p, source |-> s, status |-> st, at |-> a] IN
    [m \in MCMessage |->
        CASE m = "sensed" -> content("d1", "sensor", "grid_down", 1)
          [] m = "said"   -> content("p1", "reporter", "grid_down", 2)
          [] m = "unsaid" -> content("p1", "reporter", "grid_up", 2)
          [] m = "before" -> content("d2", "sensor", "grid_up", 0)]

(* NotificationPages: notices for the webhook, which settle under the      *)
(* reader, more at a time than a page holds.                               *)
MCArrivals == {<<"chain_committed", "webhook">>}

VARIABLE running
servicevars == <<lvars, deskvars, demovars, memvars, mirrorvars, sessvars, svars, reviewvars, pagevars>>

Init ==
    /\ running \in {"limiter", "desk", "demo", "memory", "providers", "sessions",
                    "scenario", "review", "pages"}
    /\ LimiterInit /\ DeskInit /\ DemoInit /\ MemoryInit /\ SessionsInit /\ ReviewInit
    /\ PagesInit
    /\ MirrorInit /\ (running = "providers" \/ providers = EmptyTable)
    /\ ScenarioInit /\ (running = "scenario" \/ turn.run = 1)

Next ==
    \/ /\ running = "limiter" /\ LimiterNext
       /\ UNCHANGED <<running, deskvars, demovars, memvars, mirrorvars, sessvars, svars, reviewvars, pagevars>>
    \/ /\ running = "desk" /\ DeskNext
       /\ UNCHANGED <<running, lvars, demovars, memvars, mirrorvars, sessvars, svars, reviewvars, pagevars>>
    \/ /\ running = "demo" /\ DemoNext
       /\ UNCHANGED <<running, lvars, deskvars, memvars, mirrorvars, sessvars, svars, reviewvars, pagevars>>
    \/ /\ running = "memory" /\ MemoryNext
       /\ UNCHANGED <<running, lvars, deskvars, demovars, mirrorvars, sessvars, svars, reviewvars, pagevars>>
    \/ /\ running = "providers" /\ MirrorNext
       /\ UNCHANGED <<running, lvars, deskvars, demovars, memvars, sessvars, svars, reviewvars, pagevars>>
    \/ /\ running = "sessions" /\ SessionsNext
       /\ UNCHANGED <<running, lvars, deskvars, demovars, memvars, mirrorvars, svars, reviewvars, pagevars>>
    \/ /\ running = "scenario" /\ ScenarioNext
       /\ UNCHANGED <<running, lvars, deskvars, demovars, memvars, mirrorvars, sessvars, reviewvars, pagevars>>
    \/ /\ running = "review" /\ ReviewNext
       /\ UNCHANGED <<running, lvars, deskvars, demovars, memvars, mirrorvars, sessvars, svars, pagevars>>
    \/ /\ running = "pages" /\ PagesNext
       /\ UNCHANGED <<running, lvars, deskvars, demovars, memvars, mirrorvars, sessvars, svars, reviewvars>>

Spec == Init /\ [][Next]_<<running, servicevars>>
=============================================================================
