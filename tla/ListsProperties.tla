----------------------------- MODULE ListsProperties -----------------------------
(* What a client that reads a list to its end may rely on. *)
EXTENDS Lists

\* A row that keeps its place in the list from the moment the first page was made to
\* the moment the last one is read is given to the client exactly once, however many
\* others appear before or behind the client's position, tie with it, leave or change
\* their price. Searches promise it to a walk whose pages all come from one circle:
\* a page kept for a neighbour, or a first page found in a wider radius than the
\* next one is searched in, may hide a row or give it twice.
SteadyRowSeenOnce ==
    ~walk.mixed =>
        \A i \in Ids \ walk.touched :
            /\ walk.seen[i] <= 1
            /\ walk.at = "ended" /\ Listed(i, walk.circle) => walk.seen[i] = 1

\* No page holds an offer the sale gate refuses when the page is given, although a
\* search page may be as old as its TTL. Of the rest of the filter a page kept in
\* Redis is as true as when it was read: what is given against it, an offer that is
\* no longer the best of its owner, changed its place since then.
PagesAreLive ==
    [][\A i \in Ids : walk'.seen[i] > walk.seen[i] =>
            /\ rows[i].live
            /\ Listed(i, walk'.circle) \/ i \in walk'.touched]_listVars
=============================================================================
