-------------------------- MODULE NotificationPages --------------------------
(***************************************************************************)
(* The notification page (web/notifications/NotificationCenter.tsx) over   *)
(* the outbox.  It shows a filtered list in pages; the list is fetched     *)
(* again on a timer, and rows arrive and change while the reviewer pages.  *)
(***************************************************************************)
EXTENDS Integers, Sequences, FiniteSets

CONSTANTS
    NoticeKind, \* the kinds of the rows
    Outcomes,   \* the ends of a delivery: "sent", "failed"
    PerPage,    \* NOTIFICATIONS_PER_PAGE
    ListLimit,  \* the `limit` of listNotifications
    Arrivals,   \* the kinds and channels of the rows that may arrive
    MaxRows     \* bounds the rows that arrive

ASSUME PagesAssumption ==
    /\ PerPage \in Nat \ {0} /\ ListLimit \in Nat \ {0} /\ MaxRows \in Nat
    /\ Outcomes \subseteq {"sent", "failed"}
    /\ Arrivals \subseteq NoticeKind \X {"outbox", "webhook"}

Notification ==
    [kind : NoticeKind, channel : {"outbox", "webhook"}, status : {"queued"} \cup Outcomes]
DeliveryFilter == {"all", "in-app", "queued"} \cup Outcomes

VARIABLES
    outbox,         \* notification_outbox, in the order of creation
    notifications,  \* the rows the page has fetched, by their place in outbox
    kindFilter, deliveryFilter, page,   \* the page's state
    wanted,         \* history: rows that matched when the filters were set
    seen,           \* history: rows shown since then
    overtaken       \* history: since then, more rows than a page holds left
                    \*   the filtered list from one fetch to the next

pagevars == <<outbox, notifications, kindFilter, deliveryFilter, page, wanted, seen, overtaken>>

(* Fault: the filter asks for the status alone. *)
matchesFilters_StatusOnly(n, kind, delivery) ==
    /\ kind \in {"all", n.kind}
    /\ delivery = "in-app" => n.channel = "outbox"
    /\ delivery \in {"queued", "sent", "failed"} => n.status = delivery

(* matchesFilters; the search text is one more filter a row's kind meets.  *)
matchesFilters(n, kind, delivery) ==
    /\ kind \in {"all", n.kind}
    /\ delivery = "in-app" => n.channel = "outbox"
    /\ delivery \in {"queued", "sent", "failed"} =>
          n.channel = "webhook" /\ n.status = delivery

(* The rows that pass, by their place in outbox; the page lists the newest *)
(* first, so a row is as far down as there are rows from it on.            *)
filteredNotifications ==
    {i \in DOMAIN notifications : matchesFilters(notifications[i], kindFilter, deliveryFilter)}

placeInList(i) == Cardinality({j \in filteredNotifications : j >= i})

(* Math.max(1, Math.ceil(length / NOTIFICATIONS_PER_PAGE)) *)
totalPages ==
    LET pages == (Cardinality(filteredNotifications) + PerPage - 1) \div PerPage
    IN  IF pages = 0 THEN 1 ELSE pages

(* Fault: the page is kept when the list gets shorter. *)
currentPage_Kept == page

currentPage == IF page < totalPages THEN page ELSE totalPages

(* Fault: a page starts after the page's number of rows. *)
pageStart_Next == currentPage * PerPage

pageStart == (currentPage - 1) * PerPage

(* slice(pageStart, pageStart + NOTIFICATIONS_PER_PAGE) *)
visibleNotifications ==
    {i \in filteredNotifications : placeInList(i) \in pageStart + 1..pageStart + PerPage}

(* The badge of a row: getDeliveryState. *)
getDeliveryState(n) == IF n.channel = "outbox" THEN "in-app" ELSE n.status

PagesInit ==
    /\ outbox = <<>> /\ notifications = <<>>
    /\ kindFilter = "all" /\ deliveryFilter = "all" /\ page = 1
    /\ wanted = {} /\ seen = {} /\ overtaken = FALSE

-----------------------------------------------------------------------------
(* The API: storeNotification, and the marks that settle a row. *)
Arrive(kind, channel) ==
    /\ Len(outbox) < MaxRows
    /\ outbox' = Append(outbox, [kind |-> kind, channel |-> channel, status |-> "queued"])
    /\ UNCHANGED <<notifications, kindFilter, deliveryFilter, page, wanted, seen, overtaken>>

Settle(i, status) ==
    /\ outbox[i].status = "queued"
    /\ outbox' = [outbox EXCEPT ![i].status = status]
    /\ UNCHANGED <<notifications, kindFilter, deliveryFilter, page, wanted, seen, overtaken>>

(* `order by created_at desc limit` *)
listNotifications ==
    [i \in {j \in DOMAIN outbox : j > Len(outbox) - ListLimit} |-> outbox[i]]

(* refetchInterval: 15 s.  What the page shows next has been seen. *)
Refetch ==
    /\ notifications' = listNotifications
    /\ UNCHANGED <<outbox, kindFilter, deliveryFilter, page, wanted>>
    /\ seen' = seen \cup visibleNotifications'
    /\ overtaken' = (\/ overtaken
                     \/ Cardinality(filteredNotifications \ filteredNotifications') > PerPage)

(* Every filter's onChange, and clearFilters: the filter and the first     *)
(* page.                                                                   *)
SelectFilters(kind, delivery) ==
    /\ <<kind, delivery>> # <<kindFilter, deliveryFilter>>
    /\ kindFilter' = kind /\ deliveryFilter' = delivery /\ page' = 1
    /\ UNCHANGED <<outbox, notifications>>
    /\ wanted' = filteredNotifications'
    /\ seen' = visibleNotifications'
    /\ overtaken' = FALSE

TurnTo(p) ==
    /\ page' = p
    /\ UNCHANGED <<outbox, notifications, kindFilter, deliveryFilter, wanted, overtaken>>
    /\ seen' = seen \cup visibleNotifications'

Previous == currentPage # 1 /\ TurnTo(currentPage - 1)
NextPage == currentPage # totalPages /\ TurnTo(currentPage + 1)

PagesNext ==
    \/ \E new \in Arrivals : Arrive(new[1], new[2])
    \/ \E i \in DOMAIN outbox, status \in Outcomes : Settle(i, status)
    \/ Refetch
    \/ \E kind \in NoticeKind \cup {"all"}, delivery \in DeliveryFilter :
          SelectFilters(kind, delivery)
    \/ Previous \/ NextPage

PagesSpec == PagesInit /\ [][PagesNext]_pagevars

-----------------------------------------------------------------------------
(* The outbox, the list and the page's state have their types. *)
PagesTypeOK ==
    /\ outbox \in Seq(Notification)
    /\ notifications \in [DOMAIN notifications -> Notification]
    /\ DOMAIN notifications \subseteq DOMAIN outbox
    /\ kindFilter \in NoticeKind \cup {"all"} /\ deliveryFilter \in DeliveryFilter
    /\ page \in 1..MaxRows
    /\ wanted \subseteq 1..MaxRows /\ seen \subseteq 1..MaxRows
    /\ overtaken \in BOOLEAN

(* The page shows something as long as anything matches its filters,       *)
(* however far the reviewer had paged before the list got shorter.         *)
PageIsNeverEmpty ==
    filteredNotifications # {} => visibleNotifications # {}

(* A row's badge says what the delivery filter it was found by says: the   *)
(* filter and the badge read the channel and the status alike.             *)
BadgeIsTheFilter ==
    deliveryFilter # "all" =>
        \A i \in visibleNotifications : getDeliveryState(notifications[i]) = deliveryFilter

AtTheEnd == currentPage = totalPages

(* A reviewer who has paged to the end has seen every row that matched     *)
(* when the filters were set and still does, whatever arrives, settles and *)
(* is fetched in between and moves rows from one page to another, as long  *)
(* as no fetch takes more rows away than a page holds: then those behind   *)
(* jump over the page that is shown.                                       *)
PagingMissesNothing ==
    AtTheEnd /\ ~overtaken => (wanted \cap filteredNotifications) \subseteq seen

=============================================================================
