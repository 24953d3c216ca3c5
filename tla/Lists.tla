--------------------------------- MODULE Lists ---------------------------------
(***************************************************************************)
(* The lists a client reads page by page while others change what is in    *)
(* them: a buyer's orders, a store's open orders, an owner's statements,   *)
(* the operator queue, and three lists of offers. A page is a statement of *)
(* its own; what joins the pages of a walk is the key of the last row, and *)
(* for searches the pages that Redis keeps, for every caller in a cell of  *)
(* the grid and by the radius asked for, not the one they were found in.   *)
(***************************************************************************)
EXTENDS Integers, FiniteSets

CONSTANTS
    Ids,            \* rows, in the order of their uuids
    Ranks,          \* times, months or prices
    Owner,          \* of an offer
    Places,         \* where callers stand, all in one cell of the grid
    Home,           \* where the client of the walk stands
    Distance,       \* of an offer from a point, in whole metres
    Radii,          \* the radii callers name
    DefaultRadius,
    RadiusExpansionStep,
    MaxRadiusExpansions,
    PageSize,
    MaxKept         \* bound: pages in Redis at a time

ASSUME RowsAssumption == Ids \subseteq Nat /\ Ranks \subseteq Nat
ASSUME DistanceAssumption == Home \in Places /\ Distance \in [Places -> [Ids -> Nat]]
ASSUME RadiusAssumption ==
    /\ Radii \subseteq Nat
    /\ DefaultRadius \in Nat
    /\ RadiusExpansionStep \in Nat
    /\ MaxRadiusExpansions \in Nat
ASSUME PageAssumption == PageSize \in Nat \ {0}

VARIABLES
    list,           \* the list this behaviour is about
    rows,           \* per row, its rank and whether its status keeps it in the list
    cache,          \* the search pages in Redis, by radius and cursor
    walk            \* one client that reads the list from its start

listVars == <<list, rows, cache, walk>>

OfferLists == {"alternatives", "complex", "search"}
\* The operator queue of either analytics database.
Queues == {"postgres_queue", "clickhouse_queue"}
Lists == OfferLists \cup Queues \cup {"my_orders", "store_orders", "statements"}

\* Rows of these are never taken out of the list.
Permanent == {"my_orders", "statements"}

Start == <<>>       \* the empty cursor
Keys == Nat \X Nat \X Nat
Cursors == Keys \cup {Start}

\* Where a page was searched: its own RadiusMeters around a point.
Circles == [point : Places, radius : Nat]

\* next = Start is the nil NextCursor. History: the point of the search, and in
\* touched the rows whose place changed since the page was read.
Pages == [items : SUBSET Ids, next : Cursors, circle : Circles, touched : SUBSET Ids]

\* asked is the radius the client names (0 for none), tries how often its search has
\* widened. History: seen counts how often a row was given, circle is the last
\* page's, mixed says that pages of two circles were given.
Walks == [at : {"idle", "reading", "ended"}, asked : Nat, tries : Nat,
          cursor : Cursors, circle : Circles, mixed : BOOLEAN,
          seen : [Ids -> Nat], touched : SUBSET Ids]

ListTypeOK ==
    /\ list \in Lists
    /\ rows \in [Ids -> [made : BOOLEAN, live : BOOLEAN, rank : Nat]]
    /\ walk \in Walks

normalizeRadius(requested) == IF requested = 0 THEN DefaultRadius ELSE requested

Circle(point, asked, tries) ==
    [point |-> point, radius |-> normalizeRadius(asked) + tries * RadiusExpansionStep]

Unread(asked) ==
    [at |-> "idle", asked |-> asked, tries |-> 0, cursor |-> Start,
     circle |-> Circle(Home, asked, 0), mixed |-> FALSE,
     seen |-> [i \in Ids |-> 0], touched |-> {}]

\* Only searches have a radius.
Unreads ==
    IF list = "search" THEN {Unread(a) : a \in Radii \cup {0}} ELSE {Unread(0)}

ListsInit ==
    /\ list \in Lists
    /\ rows = [i \in Ids |-> [made |-> FALSE, live |-> FALSE, rank |-> 0]]
    /\ cache = [k \in {} |-> Start]
    /\ walk \in Unreads

-----------------------------------------------------------------------------
(* The queries: what comes after the key of a cursor, and the ORDER BY. *)

\* Comparison of rows in SQL.
Less(a, b) == \/ a[1] < b[1]
              \/ a[1] = b[1] /\ a[2] < b[2]
              \/ a[1] = b[1] /\ a[2] = b[2] /\ a[3] < b[3]

\* Slip: the position is the time alone.
CreatedEarlier(k, c) == k[1] < c[1]

ListOrdersByBuyer(k, c) == Less(k, c)
ListStoreOpenOrders(k, c) == Less(k, c)
ListOperatorQueue(k, c) == Less(k, c)
clickHouseQueueSQL(k, c) == Less(k, c)
ListCommissionInvoicesByOwner(k, c) == k[1] < c[1]
ListOfferAlternatives(k, c) == Less(c, k)
ListComplexOffers(k, c) == Less(c, k)
SearchOffers(k, c) == Less(c, k)

After(k, c) ==
    CASE list = "my_orders" -> ListOrdersByBuyer(k, c)
      [] list = "store_orders" -> ListStoreOpenOrders(k, c)
      [] list = "postgres_queue" -> ListOperatorQueue(k, c)
      [] list = "clickhouse_queue" -> clickHouseQueueSQL(k, c)
      [] list = "statements" -> ListCommissionInvoicesByOwner(k, c)
      [] list = "alternatives" -> ListOfferAlternatives(k, c)
      [] list = "complex" -> ListComplexOffers(k, c)
      [] list = "search" -> SearchOffers(k, c)

\* The row with key a stands before the row with key b: newest or cheapest first.
Before(a, b) ==
    CASE list \in OfferLists -> Less(a, b)
      [] list = "statements" -> b[1] < a[1]
      [] OTHER -> Less(b, a)

\* Only searches order by distance; a cursor holds these values and gives them
\* back as they were.
Key(i, o) == <<rows[i].rank, IF list = "search" THEN Distance[o.point][i] ELSE 0, i>>

\* Of the stores within the radius.
Nearby(i, o) == rows[i].live /\ (list = "search" => Distance[o.point][i] <= o.radius)

\* A search shows one offer per owner. Complexes and the places of stores are fixed:
\* no operation of the program writes them.
Best(i, o) ==
    \A j \in Ids \ {i} :
        Owner[j] = Owner[i] /\ Nearby(j, o) => Before(Key(i, o), Key(j, o))

\* The query's whole filter.
Listed(i, o) == Nearby(i, o) /\ (list = "search" => Best(i, o))

Rest(c, o) == {i \in Ids : Listed(i, o) /\ (c = Start \/ After(Key(i, o), c))}

\* The first rows of the rest, at most a page.
IsPage(P, c, o) ==
    LET rest == Rest(c, o)
    IN  /\ P \subseteq rest
        /\ Cardinality(P) = IF Cardinality(rest) < PageSize THEN Cardinality(rest)
                            ELSE PageSize
        /\ \A i \in P, j \in rest \ P : Before(Key(i, o), Key(j, o))

Last(P, o) == CHOOSE i \in P : \A j \in P \ {i} : Before(Key(j, o), Key(i, o))

\* One row more than a page tells whether there is a next one. Statements come
\* without a cursor: the client asks for what is before the last one of a full
\* page.
NextCursor(P, c, o) ==
    IF list = "statements"
    THEN IF Cardinality(P) = PageSize THEN Key(Last(P, o), o) ELSE Start
    ELSE IF P = Rest(c, o) THEN Start ELSE Key(Last(P, o), o)

PageOf(P, c, o) ==
    [items |-> P, next |-> NextCursor(P, c, o), circle |-> o, touched |-> {}]

-----------------------------------------------------------------------------
(* The client. *)

\* The client repeats its query, or names the radius the page says it was found in.
NextAsked(page) ==
    IF page.next = Start \/ page.circle.radius = normalizeRadius(walk.asked)
    THEN {walk.asked}
    ELSE {walk.asked, page.circle.radius}

\* The client has these items of a page and goes on from its end, or is through.
Given(items, page) ==
    \E asked \in NextAsked(page) :
        walk' = [at |-> IF page.next = Start THEN "ended" ELSE "reading",
                 asked |-> asked, tries |-> 0,
                 cursor |-> page.next, circle |-> page.circle,
                 mixed |-> \/ walk.mixed
                           \/ walk.at = "reading" /\ page.circle # walk.circle,
                 seen |-> [i \in Ids |-> walk.seen[i] + IF i \in items THEN 1 ELSE 0],
                 touched |-> walk.touched \cup page.touched]

Reading == walk.at \in {"idle", "reading"}

\* Where the walk searches now.
Here == Circle(Home, walk.asked, walk.tries)

\* A page of the database for the reader of one of these lists.
ReadsPage(P, lists) ==
    /\ list \in lists
    /\ Reading
    /\ IsPage(P, walk.cursor, Here)
    /\ Given(P, PageOf(P, walk.cursor, Here))
    /\ UNCHANGED <<list, rows, cache>>

ListByBuyer(P) == ReadsPage(P, {"my_orders"})
ListStoreOpen(P) == ReadsPage(P, {"store_orders"})
ListCommissionInvoices(P) == ReadsPage(P, {"statements"})
ListQueue(P) == ReadsPage(P, Queues)
ListAlternatives(P) == ReadsPage(P, {"alternatives"})
GetComplexAggregate(P) == ReadsPage(P, {"complex"})

\* The cell of the grid, the district and the product are fixed here; the point is
\* not in the key, and the radius is the one before any widening.
CacheKey(asked, c) == <<normalizeRadius(asked), c>>

HasRoom == Cardinality(DOMAIN cache) < MaxKept

\* Put.
Keep(k, page) ==
    /\ HasRoom
    /\ cache' = [d \in DOMAIN cache \cup {k} |-> IF d = k THEN page ELSE cache[d]]

\* Without a radius the first page is searched wider while nothing is found.
Expansions(asked, c) == IF asked = 0 /\ c = Start THEN MaxRadiusExpansions ELSE 0

\* An attempt that ends the search: it finds something or is the last one.
Finds(P, point, asked, tries, c) ==
    /\ IsPage(P, c, Circle(point, asked, tries))
    /\ P # {} \/ tries = Expansions(asked, c)

\* A search whose page Redis does not have, or cannot give: the new page is kept,
\* or Redis does not take it.
SearchMiss(P) ==
    /\ list = "search"
    /\ Reading
    /\ Finds(P, Home, walk.asked, walk.tries, walk.cursor)
    /\ LET page == PageOf(P, walk.cursor, Here)
       IN  /\ Given(P, page)
           /\ Keep(CacheKey(walk.asked, walk.cursor), page) \/ UNCHANGED cache
    /\ UNCHANGED <<list, rows>>

\* Nothing in this radius: the next attempt is a statement of its own.
Widen ==
    /\ list = "search"
    /\ Reading
    /\ walk.tries < Expansions(walk.asked, walk.cursor)
    /\ IsPage({}, walk.cursor, Here)
    /\ walk' = [walk EXCEPT !.tries = @ + 1]
    /\ UNCHANGED <<list, rows, cache>>

\* The sale gate: published, not all reserved, of an active store.
StillOffered == {i \in Ids : rows[i].live}

\* Slip: a kept page is given as it is.
RefreshNothing(items) == items

\* What the gate refuses by now drops out; order, distances and end of the page
\* stay, and so does what only the rest of the filter would refuse.
RefreshOffers(items) == items \cap StillOffered

SearchHit ==
    /\ list = "search"
    /\ Reading
    /\ walk.tries = 0
    /\ CacheKey(walk.asked, walk.cursor) \in DOMAIN cache
    /\ LET page == cache[CacheKey(walk.asked, walk.cursor)]
       IN  Given(RefreshOffers(page.items), page)
    /\ UNCHANGED <<list, rows, cache>>

\* The TTL of a page.
PageExpires(k) ==
    /\ cache' = [d \in DOMAIN cache \ {k} |-> cache[d]]
    /\ UNCHANGED <<list, rows, walk>>

\* A client forgets its pages and begins again.
WalkAgain ==
    /\ walk.at = "ended"
    /\ walk' \in Unreads
    /\ UNCHANGED <<list, rows, cache>>

-----------------------------------------------------------------------------
(* Everyone else. *)

\* Another caller of the cell misses where the walk is.
OthersMiss(P, point, asked) ==
    /\ list = "search" /\ HasRoom
    /\ \E tries \in 0 .. Expansions(asked, walk.cursor) :
          /\ Finds(P, point, asked, tries, walk.cursor)
          /\ Keep(CacheKey(asked, walk.cursor),
                  PageOf(P, walk.cursor, Circle(point, asked, tries)))
    /\ UNCHANGED <<list, rows, walk>>

\* Who may change places with a row: in a search, the other offers of its owner.
Fellows(i) == IF list = "search" THEN {j \in Ids : Owner[j] = Owner[i]} ELSE {i}

\* A row changes: history notes it for the pages a walk has and for the kept ones.
Changes(i, row) ==
    /\ rows' = [rows EXCEPT ![i] = row]
    /\ walk' = IF walk.at = "idle" THEN walk
               ELSE [walk EXCEPT !.touched = @ \cup Fellows(i)]
    /\ cache' = [k \in DOMAIN cache |->
                    [cache[k] EXCEPT !.touched = @ \cup Fellows(i)]]
    /\ UNCHANGED list

\* An order is placed or accepted, a month billed, an event relayed, an offer
\* published. Rows do not appear in the order of their times. An owner has one
\* statement a month.
Appear(i, rank) ==
    /\ ~rows[i].made
    /\ list = "statements" => \A j \in Ids : rows[j].made => rows[j].rank # rank
    /\ Changes(i, [made |-> TRUE, live |-> TRUE, rank |-> rank])

\* The event that names the item takes it out of the view.
ResolveOperatorQueueItem(row) == [row EXCEPT !.live = FALSE]

Resolve(i) ==
    /\ list \in Queues
    /\ rows[i].live
    /\ Changes(i, ResolveOperatorQueueItem(rows[i]))

\* An order is closed, the work of a queue item ends by itself, an offer is sold
\* out or hidden, a store suspended.
Leave(i) ==
    /\ list \notin Permanent
    /\ rows[i].live
    /\ Changes(i, [rows[i] EXCEPT !.live = FALSE])

\* An offer is sold again.
Return(i) ==
    /\ list \in OfferLists
    /\ rows[i].made /\ ~rows[i].live
    /\ Changes(i, [rows[i] EXCEPT !.live = TRUE])

Reprice(i, price) ==
    /\ list \in OfferLists
    /\ rows[i].made /\ rows[i].rank # price
    /\ Changes(i, [rows[i] EXCEPT !.rank = price])

ListsNext ==
    \/ \E P \in SUBSET Ids :
          \/ ListByBuyer(P) \/ ListStoreOpen(P) \/ ListCommissionInvoices(P)
          \/ ListQueue(P) \/ ListAlternatives(P) \/ GetComplexAggregate(P)
          \/ SearchMiss(P)
    \/ SearchHit \/ Widen \/ WalkAgain
    \/ \E P \in SUBSET Ids, point \in Places, asked \in Radii \cup {0} :
          OthersMiss(P, point, asked)
    \/ \E k \in DOMAIN cache : PageExpires(k)
    \/ \E i \in Ids, rank \in Ranks : Appear(i, rank) \/ Reprice(i, rank)
    \/ \E i \in Ids : Resolve(i) \/ Leave(i) \/ Return(i)

ListsSpec == ListsInit /\ [][ListsNext]_listVars
=============================================================================
