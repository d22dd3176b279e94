------------------------------- MODULE LiveView -------------------------------
(***************************************************************************)
(* What one browser shows as a zone's status: the socket gateway            *)
(* (api/realtime/socket.ts), the client's handlers (web/src/lib/realtime.ts),*)
(* its store and the ["zones"] query (Dashboard.tsx), against the readings  *)
(* the API has stored.                                                     *)
(***************************************************************************)
EXTENDS Integers, Sequences

CONSTANTS
    Reading,        \* readings of the zone
    NoReading,
    NoData,
    ObservedAt,     \* [Reading -> Int]
    StatusOf,       \* [Reading -> statuses]
    MaxFetches      \* bound: queries of the tab

Refresh == "refresh"            \* chain.committed, as far as statuses go

ASSUME ViewAssumption ==
    /\ {NoReading, NoData, Refresh} \cap Reading = {} /\ NoReading # NoData
    /\ ObservedAt \in [Reading -> Int]

VARIABLES
    observed,       \* evidence_events of the zone
    unpublished,    \* stored, and their request has not emitted yet
    tab,            \* whether the dashboard is mounted
    link,           \* its socket: "down" or "up"
    wire,           \* messages sent to it and not handled
    overlay,        \* the dashboard store's realtimeStatuses of the zone
    cache,          \* the zone's latestStatus in the query's data
    failed,         \* the query is in error
    fetch,          \* the query in flight: "idle", "asked", or "read" with
    answer,         \*   what the server read
    fetches,
    rest,           \* history: what the last answer said
    missed,         \* history: a status change did not reach the open tab
    disordered      \* history: a reading was emitted after a later one

apivars == <<observed, unpublished>>
queryvars == <<cache, failed, fetch, answer, fetches, rest>>
tabVars == <<tab, link, wire, overlay, queryvars>>
lvars == <<apivars, tabVars, missed, disordered>>

LastStatus(r) == IF r = NoReading THEN "unknown" ELSE StatusOf[r]

(* What listZones may return: one of the newest by observed_at, whenever it *)
(* was stored.                                                             *)
latest(S) ==
    IF S = {} THEN {NoReading} ELSE {r \in S : \A s \in S : ObservedAt[s] <= ObservedAt[r]}

ViewInit ==
    /\ observed = {} /\ unpublished = {}
    /\ tab = "closed" /\ link = "down" /\ wire = <<>>
    /\ overlay = NoReading /\ cache = NoData /\ failed = FALSE
    /\ fetch = "idle" /\ answer = NoReading /\ fetches = 0
    /\ rest = NoReading /\ missed = FALSE /\ disordered = FALSE

-----------------------------------------------------------------------------
(* The API *)

Store(r) ==
    /\ r \notin observed
    /\ observed' = observed \cup {r}
    /\ unpublished' = unpublished \cup {r}
    /\ UNCHANGED <<tabVars, missed, disordered>>

(* evidence.received, to every socket that is connected now.                *)
emitStatus(r) ==
    /\ r \in unpublished
    /\ unpublished' = unpublished \ {r}
    /\ wire' = IF link = "up" THEN Append(wire, r) ELSE wire
    /\ missed' = (missed \/ (link = "down" /\ fetches > 0))
    /\ disordered' = (disordered
                        \/ \E s \in observed \ unpublished : ObservedAt[s] > ObservedAt[r])
    /\ UNCHANGED <<observed, tab, link, overlay, queryvars>>

emitCommitted ==
    /\ link = "up" /\ Len(wire) < 2
    /\ wire' = Append(wire, Refresh)
    /\ UNCHANGED <<apivars, tab, link, overlay, queryvars, missed, disordered>>

-----------------------------------------------------------------------------
(* The tab *)

(* A query that starts with no data is pending again, not in error.        *)
Ask ==
    /\ fetches < MaxFetches
    /\ fetch' = "asked" /\ fetches' = fetches + 1
    /\ failed' = (failed /\ cache # NoData)
    /\ UNCHANGED <<cache, answer, rest>>

(* A query that is mounted is fetched again at once, one in flight is       *)
(* cancelled if there is data; where none is mounted it waits for a mount.  *)
invalidateZones ==
    IF tab = "open" /\ (fetch = "idle" \/ cache # NoData) THEN Ask ELSE UNCHANGED queryvars

(* Mounting the page, and returning to the window, fetch unless a query is  *)
(* in flight.                                                              *)
Fetch == IF fetch = "idle" THEN Ask ELSE UNCHANGED queryvars

OpenPage ==
    /\ tab = "closed"
    /\ tab' = "open"
    /\ Fetch
    /\ UNCHANGED <<apivars, link, wire, overlay, missed, disordered>>

FocusWindow ==
    /\ tab = "open" /\ fetch = "idle"
    /\ Fetch
    /\ UNCHANGED <<apivars, tab, link, wire, overlay, missed, disordered>>

ConnectSocket ==
    /\ tab = "open" /\ link = "down"
    /\ link' = "up"
    /\ UNCHANGED <<apivars, tab, wire, overlay, queryvars, missed, disordered>>

(* connect_error: the API is not reached, and the query is asked all the same. *)
ConnectError ==
    /\ tab = "open" /\ link = "down"
    /\ invalidateZones
    /\ UNCHANGED <<apivars, tab, link, wire, overlay, missed, disordered>>

Dropped == missed' = (missed \/ \E i \in 1..Len(wire) : wire[i] # Refresh)

(* The connection breaks: messages under way are lost, the handler refetches. *)
Disconnect ==
    /\ link = "up"
    /\ link' = "down" /\ wire' = <<>>
    /\ Dropped
    /\ invalidateZones
    /\ UNCHANGED <<apivars, tab, overlay, disordered>>

(* Leaving the page closes its socket, whose disconnect is handled while    *)
(* the page's query is still mounted; the store and the cache stay.        *)
ClosePage ==
    /\ tab = "open"
    /\ tab' = "closed"
    /\ link' = "down" /\ wire' = <<>>
    /\ Dropped
    /\ IF link = "up" THEN invalidateZones ELSE UNCHANGED queryvars
    /\ UNCHANGED <<apivars, overlay, disordered>>

(* gcTime: a query no page has used for a while is dropped.                *)
Collect ==
    /\ tab = "closed" /\ fetch = "idle"
    /\ cache' = NoData /\ failed' = FALSE
    /\ UNCHANGED <<apivars, tab, link, wire, overlay, fetch, answer, fetches, rest, missed, disordered>>

(* zone.status_changed: applyRealtimeStatus, and setQueryData where there is *)
(* data to update, which is then no longer in error.                       *)
onStatusChanged ==
    /\ wire # <<>> /\ Head(wire) # Refresh
    /\ overlay' = Head(wire)
    /\ IF cache = NoData THEN UNCHANGED <<cache, failed>>
       ELSE cache' = Head(wire) /\ failed' = FALSE
    /\ wire' = Tail(wire)
    /\ UNCHANGED <<apivars, tab, link, fetch, answer, fetches, rest, missed, disordered>>

onCommitted ==
    /\ wire # <<>> /\ Head(wire) = Refresh
    /\ wire' = Tail(wire)
    /\ invalidateZones
    /\ UNCHANGED <<apivars, tab, link, overlay, missed, disordered>>

listZones ==
    /\ fetch = "asked"
    /\ fetch' = "read"
    /\ answer' \in latest(observed)
    /\ UNCHANGED <<apivars, tab, link, wire, overlay, cache, failed, fetches, rest, missed, disordered>>

ApplyAnswer ==
    /\ fetch = "read"
    /\ fetch' = "idle"
    /\ cache' = answer /\ rest' = answer /\ failed' = FALSE
    /\ UNCHANGED <<apivars, tab, link, wire, overlay, answer, fetches, missed, disordered>>

(* The request and its one retry fail, before or after the server read it:  *)
(* a first failure alone is only a later request.                          *)
ZonesFail ==
    /\ fetch # "idle"
    /\ fetch' = "idle"
    /\ failed' = TRUE
    /\ UNCHANGED <<apivars, tab, link, wire, overlay, cache, answer, fetches, rest, missed, disordered>>

(* isError: the page shows sampleZones, and says "Demo data active".       *)
usingDemoFallback == failed

(* Fault: the page shows the cached query only. *)
shownReading_CacheOnly == cache

(* realtimeStatuses[zone.id] ?? zone.latestStatus, where the zone is shown. *)
shownReading == IF cache # NoData /\ overlay # NoReading THEN overlay ELSE cache

ViewNext ==
    \/ \E r \in Reading : Store(r) \/ emitStatus(r)
    \/ emitCommitted \/ OpenPage \/ FocusWindow \/ ConnectSocket \/ ConnectError
    \/ Disconnect \/ ClosePage \/ Collect \/ onStatusChanged \/ onCommitted
    \/ listZones \/ ApplyAnswer \/ ZonesFail

ViewSpec == ViewInit /\ [][ViewNext]_lvars

-----------------------------------------------------------------------------
(* Properties *)

(* Types of the gateway's and the tab's state.                              *)
ViewTypeOK ==
    /\ observed \subseteq Reading /\ unpublished \subseteq observed
    /\ tab \in {"closed", "open"} /\ link \in {"down", "up"}
    /\ link = "up" => tab = "open"
    /\ wire \in Seq(Reading \cup {Refresh})
    /\ {overlay, answer, rest} \subseteq Reading \cup {NoReading}
    /\ cache \in Reading \cup {NoReading, NoData} /\ failed \in BOOLEAN
    /\ fetch \in {"idle", "asked", "read"} /\ fetches \in 0..MaxFetches
    /\ {missed, disordered} \subseteq BOOLEAN

Settled ==
    /\ tab = "open" /\ fetch = "idle"
    /\ unpublished = {} /\ wire = <<>>

ShowsNewest ==
    shownReading # NoData /\ LastStatus(shownReading) \in {LastStatus(r) : r \in latest(observed)}

(* A tab that missed no status change, of a zone whose readings were        *)
(* emitted in the order they were observed, shows a newest status once      *)
(* nothing is under way, or says that it shows demo data: even when an      *)
(* answer the server read before a change arrives after it, and when the    *)
(* API fails and comes back (Dashboard.tsx:23-27).                          *)
UnbrokenViewIsCurrent ==
    Settled /\ ~missed /\ ~disordered => usingDemoFallback \/ ShowsNewest

(* docs/realtime.md:20 "the dashboard can recover with normal              *)
(* polling/refetch behavior": a tab whose last refetch answered with a      *)
(* newest reading shows it.                                                *)
RefetchRecoversView ==
    Settled /\ ~failed /\ rest \in latest(observed) => ShowsNewest
=============================================================================
