-------------------------------- MODULE Pages --------------------------------
(***************************************************************************)
(* The lists that are handed out in pages: the history of analyses, the    *)
(* actions of an analysis and the requirements of a target role.  The next *)
(* page starts after a row that the client names, at the place that row    *)
(* has by then, while other requests add, remove and move rows.            *)
(***************************************************************************)
EXTENDS Integers, FiniteSets

CONSTANTS
    Rows,       \* row ids, numbers for their order
    Places,     \* what the lists are sorted by before the id
    PageLimit,  \* the query parameter limit
    MaxMoves    \* bound on the moves

ASSUME RowsAssumption == Rows \subseteq Nat \ {0} /\ IsFiniteSet(Rows)
ASSUME PlacesAssumption == Places \subseteq Nat
ASSUME PageAssumption == PageLimit \in Nat \ {0} /\ MaxMoves \in Nat

Lists == {"history", "actions", "requirements"}
NoRow == 0
Unused == -1
Removed == -2

VARIABLES
    list,       \* the list that is walked through
    place,      \* per row: its place, Unused before and Removed after its life
    walk,       \* "idle", "asking", "reading", "done" or "notFound"
    cursor,     \* the row the next page starts after
    from,       \* the place of the cursor, as it was read
    listed,     \* how often each row was handed out
    settled,    \* history: rows that have been there, unmoved, all the walk long
    moved,      \* history: how often each row was moved
    shifted     \* history: a row was moved while the client held it as cursor

pagesVars == <<list, place, walk, cursor, from, listed, settled, moved, shifted>>

Lives(r) == place[r] \in Places
Here == {r \in Rows : Lives(r)}

PagesInit ==
    /\ list = "history" /\ walk = "idle"
    /\ place = [r \in Rows |-> Unused]
    /\ cursor = NoRow /\ from = Unused
    /\ listed = [r \in Rows |-> 0] /\ moved = [r \in Rows |-> 0]
    /\ settled = {} /\ shifted = FALSE

\* A list as it is when its first page is asked for.
OpenList ==
    /\ walk = "idle" /\ walk' = "reading"
    /\ list' \in Lists
    /\ place' \in [Rows -> Places \cup {Unused}]
    /\ settled' = {r \in Rows : place'[r] \in Places}
    /\ UNCHANGED <<cursor, from, listed, moved, shifted>>

\* create_or_get, generate_for_analysis, create_requirement.  A history row is
\* dated by the start of its transaction: it need not become the newest.
Add(r) ==
    /\ walk # "idle" /\ place[r] = Unused
    /\ \E p \in Places : place' = [place EXCEPT ![r] = p]
    /\ UNCHANGED <<list, walk, cursor, from, listed, settled, moved, shifted>>

\* delete_requirement, and the cascades from target roles and CV documents.
Delete(r) ==
    /\ walk # "idle" /\ Lives(r)
    /\ place' = [place EXCEPT ![r] = Removed]
    /\ settled' = settled \ {r}
    /\ UNCHANGED <<list, walk, cursor, from, listed, moved, shifted>>

\* update_requirement with another priority; created_at and position stay.
Move(r) ==
    /\ walk # "idle" /\ list = "requirements" /\ Lives(r) /\ moved[r] < MaxMoves
    /\ \E p \in Places : place' = [place EXCEPT ![r] = p]
    /\ settled' = settled \ {r}
    /\ moved' = [moved EXCEPT ![r] = @ + 1]
    /\ shifted' = (shifted \/ (walk = "asking" /\ r = cursor))
    /\ UNCHANGED <<list, walk, cursor, from, listed>>

\* The order of the lists: actions ascend, the others descend.
After(p, r, q, s) ==
    IF list = "actions" THEN p > q \/ (p = q /\ r > s) ELSE p < q \/ (p = q /\ r < s)

\* The next page is asked for: the row of the cursor is read, or not found.
ReadCursor ==
    /\ walk = "asking"
    /\ \/ Lives(cursor) /\ walk' = "reading" /\ from' = place[cursor]
       \/ ~Lives(cursor) /\ walk' = "notFound" /\ UNCHANGED from
    /\ UNCHANGED <<list, place, cursor, listed, settled, moved, shifted>>

\* Variant: rows of the same place are passed over.
FollowingPlaces ==
    {r \in Here : cursor = NoRow \/ (place[r] # from /\ After(place[r], r, from, cursor))}

\* The where clause, and limit(limit + 1) of the ordered rows.
Following == {r \in Here : cursor = NoRow \/ After(place[r], r, from, cursor)}

\* rows[:limit]: the first of the rows that follow, and its last row is the
\* next cursor if the query found one row more than the limit.
ReadPage ==
    /\ walk = "reading"
    /\ \E page \in SUBSET Following :
        /\ Cardinality(page) = IF Cardinality(Following) > PageLimit THEN PageLimit
                                                                    ELSE Cardinality(Following)
        /\ \A r \in page, s \in Following \ page : After(place[s], s, place[r], r)
        /\ listed' = [r \in Rows |-> listed[r] + (IF r \in page THEN 1 ELSE 0)]
        /\ \/ /\ Cardinality(Following) > PageLimit
              /\ walk' = "asking"
              /\ \E last \in page :
                    /\ \A r \in page \ {last} : After(place[last], last, place[r], r)
                    /\ cursor' = last
           \/ /\ Cardinality(Following) <= PageLimit
              /\ walk' = "done"
              /\ UNCHANGED cursor
    /\ UNCHANGED <<list, place, from, settled, moved, shifted>>

PagesNext ==
    \/ OpenList \/ ReadCursor \/ ReadPage
    \/ \E r \in Rows : Add(r) \/ Delete(r) \/ Move(r)

PagesSpec == PagesInit /\ [][PagesNext]_pagesVars

-----------------------------------------------------------------------------
(* Properties.                                                              *)

\* As long as no row is moved while the client holds it as the cursor, no row
\* is handed out again unless it was moved itself, and a walk that comes to its
\* end has handed out every row that was there, unmoved, all along.  Only the
\* list of requirements has rows that move.
EachRowListedOnce ==
    /\ list # "requirements" => ~shifted /\ \A r \in Rows : moved[r] = 0
    /\ ~shifted => \A r \in Rows : listed[r] <= 1 + moved[r]
    /\ ~shifted /\ walk = "done" => \A r \in settled : listed[r] = 1
=============================================================================
