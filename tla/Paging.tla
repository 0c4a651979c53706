------------------------------- MODULE Paging -------------------------------
(***************************************************************************)
(* GET /servers (ListServers of internal/api/api_handler.go) and the       *)
(* client (external) that walks through the list: it asks for one page     *)
(* after the other, raising the offset by the limit, and stops at a page   *)
(* that is not full; the field total of a response is only the length of   *)
(* the page.  Between two pages the table moves on.                        *)
(*                                                                         *)
(* Of the filters the one on the status is modelled, which changes; region *)
(* and type never do.  The client sends limit and offset: when one is left *)
(* out its empty string reaches the query, and the answer is an error.     *)
(***************************************************************************)
EXTENDS ServerTable

CONSTANTS
  Limit,     \* rows on a page
  Filters    \* statuses a client may filter by, and "any" for no filter

ASSUME PagingAssumption == Limit \in Nat \ {0} /\ Filters \subseteq Status \cup {"any"}

VARIABLES
  walk,     \* the client's walk: filter, offset, and what it has seen
  twice,    \* rows it has been shown again
  joined,   \* rows that came to match the filter during the walk
  parted    \* rows that ceased to

pagingVars == <<walk, twice, joined, parted>>

Matches(filter, row) ==
  row.status # "absent" /\ (filter = "any" \/ row.status = filter)

\* The rows of the answer without LIMIT and OFFSET, when the table holds rows.
Matching(filter, rows) == {i \in Ids : Matches(filter, rows[i])}

Listing(filter) == Matching(filter, table)

\* ORDER BY created_at DESC
Before(i, j) == i > j

\* How many rows of the listing come before row i.
Rank(filter, i) == Cardinality({j \in Listing(filter) : Before(j, i)})

Page_FromOne(filter, offset) ==
  {i \in Listing(filter) : Rank(filter, i) \in offset + 1 .. offset + Limit}

Page_Inclusive(filter, offset) ==
  {i \in Listing(filter) : Rank(filter, i) \in offset .. offset + Limit}

\* LIMIT and OFFSET
Page(filter, offset) ==
  {i \in Listing(filter) : Rank(filter, i) \in offset .. offset + Limit - 1}

NoWalk == [pc |-> "none", filter |-> "any", offset |-> 0, stayed |-> {}, seen |-> {}]

PagingInit == walk = NoWalk /\ twice = 0 /\ joined = 0 /\ parted = 0

\* The client goes on after the page it got, or is done.
After(page) == IF Cardinality(page) < Limit THEN "done" ELSE "walking"

\* The first page.  "stayed" are the rows that match from now on.
FirstPage ==
  /\ walk.pc = "none"
  /\ \E filter \in Filters :
       walk' = [pc |-> After(Page(filter, 0)), filter |-> filter, offset |-> Limit,
                stayed |-> Listing(filter), seen |-> Page(filter, 0)]
  /\ UNCHANGED <<twice, joined, parted>>

NextPage ==
  LET page == Page(walk.filter, walk.offset) IN
  /\ walk.pc = "walking"
  /\ walk' = [walk EXCEPT !.pc = After(page), !.offset = @ + Limit, !.seen = @ \cup page]
  /\ twice' = twice + Cardinality(page \cap walk.seen)
  /\ UNCHANGED <<joined, parted>>

\* A walk makes at most so many steps that matter; larger counts are not told
\* apart.
Capped(n) == IF n > Cardinality(Ids) THEN Cardinality(Ids) + 1 ELSE n

\* What a step of the table means for the walk.
WalkWitnesses ==
  LET before == Listing(walk.filter)
      after == Matching(walk.filter, table')
  IN  IF walk.pc = "walking"
        THEN /\ walk' = [walk EXCEPT !.stayed = @ \cap after]
             /\ joined' = Capped(joined + Cardinality(after \ before))
             /\ parted' = Capped(parted + Cardinality(before \ after))
             /\ UNCHANGED twice
        ELSE UNCHANGED pagingVars

----------------------------------------------------------------------------
\* A finished walk has missed no more of the rows that matched all along than
\* rows have ceased to match meanwhile, since each of these moves one row to a
\* smaller offset.  So a walk without a filter misses no server.
MissesBounded ==
  walk.pc = "done" => Cardinality(walk.stayed \ walk.seen) <= parted

\* A walk shows no more rows again than rows have come to match meanwhile.
RepeatsBounded == twice <= joined
=============================================================================
