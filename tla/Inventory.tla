------------------------------ MODULE Inventory ------------------------------
(***************************************************************************)
(* The inventory page: filtered, sorted and paged reads of the index       *)
(* (inventory_service), asked for by a browser tab that polls, and the     *)
(* tab's selection (manager.js), while workers change the rows.            *)
(*                                                                         *)
(* A page is several queries in one read transaction: the first one fixes  *)
(* the state of the database that all of them see.  A row is its host and  *)
(* its local state; the other categories, the flags and the text search    *)
(* are further conjuncts of the same kind, without a facet.                *)
(***************************************************************************)
EXTENDS Integers, Sequences, FiniteSets

CONSTANTS
  Ids,           \* repository ids, 1 .. n
  Hosts, States, \* states are numbers, in their order
  Queries,       \* records [host, state: what is filtered for, descending]
  Limit,         \* rows of a page
  Offsets,       \* offsets a URL may name
  MaxSelection,
  MaxWrites, MaxClicks  \* bounds: changes of rows, clicks on the selection

LOCAL INSTANCE SequencesExt

Row == [host: Hosts, state: States]

\* Ids, States, Offsets and the three bounds are natural numbers, Limit is positive, and Queries is a
\* subset of [host: SUBSET Hosts, state: SUBSET States, descending: BOOLEAN].

VARIABLES
  rows,     \* the inventory: a function on the ids registered so far
  url,      \* what the tab's address asks for
  asking,   \* the page request in flight, {} or one record
  shown,    \* the page on display, {} or one record
  chosen,   \* the selected ids
  stored,   \* sessionStorage: {} or a singleton
  choosing, \* the "select all" request in flight, {} or one record
  storage,  \* sessionStorage works
  writes, clicks

tab == <<chosen, stored, clicks>>
vars == <<rows, url, asking, shown, tab, choosing, storage, writes>>

Inventories == UNION {[ids -> Row] : ids \in SUBSET Ids}
Facets == [host: [Hosts -> Nat], state: [States -> Nat]]

TypeOK ==
  /\ rows \in Inventories
  /\ url.query \in Queries /\ url.offset \in Nat
  /\ Cardinality(asking) <= 1 /\ Cardinality(shown) <= 1 /\ Cardinality(choosing) <= 1
  /\ \A page \in shown : /\ page.total \in Nat /\ page.rows \in Seq(Ids)
                         /\ page.facets \in Facets
  /\ chosen \subseteq Ids /\ stored \in SUBSET SUBSET Ids
  /\ Cardinality(chosen) <= MaxSelection
  /\ storage \in BOOLEAN /\ writes \in 0 .. MaxWrites /\ clicks \in 0 .. MaxClicks

NoFacets == [host |-> [h \in Hosts |-> 0], state |-> [s \in States |-> 0]]
Sent(query, offset) ==
  [query |-> query, offset |-> offset, step |-> "sent", seen |-> <<>>,
   total |-> 0, rows |-> <<>>, facets |-> NoFacets]

Init ==
  /\ rows \in Inventories
  /\ url \in [query: Queries, offset: Offsets]
  /\ asking = {Sent(url.query, url.offset)} /\ shown = {}
  /\ chosen = {} /\ stored = {} /\ choosing = {}
  /\ storage \in BOOLEAN
  /\ writes = 0 /\ clicks = 0

---------------------------------------------------------------------------
(* inventory_service *)

\* _predicate: a category that is not filtered for lets everything pass.
Matches(db, q) ==
  {i \in DOMAIN db : /\ q.host = {} \/ db[i].host \in q.host
                     /\ q.state = {} \/ db[i].state \in q.state}

\* ORDER BY the state, up or down, then id.
Sorted(db, q) ==
  SetToSortSeq(Matches(db, q),
    LAMBDA i, j : \/ IF q.descending THEN db[i].state > db[j].state
                     ELSE db[i].state < db[j].state
                  \/ db[i].state = db[j].state /\ i < j)

\* LIMIT ? OFFSET ?
Slice(all, offset) ==
  SubSeq(all, offset + 1, IF Len(all) < offset + Limit THEN Len(all) ELSE offset + Limit)

\* The count of each value of a category, without the category's own filter.
Faceted(db, q) ==
  [host |-> [h \in Hosts |->
     Cardinality({i \in Matches(db, [q EXCEPT !.host = {}]) : db[i].host = h})],
   state |-> [s \in States |->
     Cardinality({i \in Matches(db, [q EXCEPT !.state = {}]) : db[i].state = s})]]

\* Mutant of Seen: each query reads for itself, without BEGIN.
SeenNow(request) == rows

\* The database as the transaction sees it.
Seen(request) == IF request.step = "sent" THEN rows ELSE request.seen

CountRows ==
  \E r \in asking :
    /\ r.step = "sent"
    /\ asking' = {[r EXCEPT !.step = "counted", !.seen = Seen(r),
                            !.total = Cardinality(Matches(Seen(r), r.query))]}
    /\ UNCHANGED <<rows, url, shown, tab, choosing, storage, writes>>

ListRows ==
  \E r \in asking :
    /\ r.step = "counted"
    /\ asking' = {[r EXCEPT !.step = "listed", !.rows = Slice(Sorted(Seen(r), r.query), r.offset)]}
    /\ UNCHANGED <<rows, url, shown, tab, choosing, storage, writes>>

CountFacets ==
  \E r \in asking :
    /\ r.step = "listed"
    /\ asking' = {[r EXCEPT !.step = "answered", !.facets = Faceted(Seen(r), r.query)]}
    /\ UNCHANGED <<rows, url, shown, tab, choosing, storage, writes>>

Larger(a, b) == IF a < b THEN b ELSE a
Smaller(a, b) == IF a < b THEN a ELSE b

\* Mutant of Previous: one page back, wherever that is.
PreviousPlain(page) == Larger(0, page.offset - Limit)

\* previous_offset, of a page that does not start at 0.
Previous(page) ==
  LET last == Larger(0, ((page.total - 1) \div Limit) * Limit)
  IN  Smaller(last, Larger(0, page.offset - Limit))

\* next_offset, {} when there is none.
NextOffset(page) ==
  IF page.offset + Limit < page.total THEN {page.offset + Limit} ELSE {}

\* Mutant of Selection: the row that tells of more is not asked for.
SelectionCut(db, q) ==
  LET ids == SetToSortSeq(Matches(db, q), <)
  IN  {ToSet(SubSeq(ids, 1, Smaller(Len(ids), MaxSelection)))}

\* selected_ids: all matches, or nothing when they are too many.
Selection(db, q) ==
  IF Cardinality(Matches(db, q)) > MaxSelection THEN {} ELSE {Matches(db, q)}

---------------------------------------------------------------------------
(* The tab *)

\* polling: one refresh at a time.
Poll ==
  /\ asking = {}
  /\ asking' = {Sent(url.query, url.offset)}
  /\ UNCHANGED <<rows, url, shown, tab, choosing, storage, writes>>

Receive ==
  \E r \in asking :
    /\ r.step = "answered" /\ shown' = {r} /\ asking' = {}
    /\ UNCHANGED <<rows, url, tab, choosing, storage, writes>>

\* The answer is late or an error: the tab keeps what it shows.
Lost ==
  /\ asking # {} /\ asking' = {}
  /\ UNCHANGED <<rows, url, shown, tab, choosing, storage, writes>>

\* sessionStorage is read when a page loads.
Restored == IF storage THEN UNION stored ELSE {}

\* Following a link or applying a filter loads the page anew.
Navigate(q, offset) ==
  /\ url' = [query |-> q, offset |-> offset] /\ url' # url
  /\ asking' = {Sent(q, offset)} /\ shown' = {}
  /\ chosen' = Restored /\ choosing' = {}
  /\ UNCHANGED <<rows, stored, clicks, storage, writes>>

Targets(page) == NextOffset(page) \cup {Previous(page) : o \in {page.offset} \ {0}}

\* The buttons of the page, or a filter, which starts at the first page.
Follow ==
  \/ \E page \in shown : \E offset \in Targets(page) : Navigate(url.query, offset)
  \/ \E q \in Queries : Navigate(q, 0)

\* syncSelection
Synced(ids) ==
  /\ chosen' = ids
  /\ stored' = IF storage THEN {ids} ELSE stored
  /\ clicks < MaxClicks /\ clicks' = clicks + 1

Visible == UNION {ToSet(page.rows) : page \in shown}

\* Mutant of Tick: the limit is not looked at.
TickUnlimited ==
  /\ \E ids \in {{i} : i \in Visible} \cup {Visible} : Synced(chosen \cup ids)
  /\ UNCHANGED <<rows, url, asking, shown, choosing, storage, writes>>

\* addIds: a tick, or all of the page; nothing when that would be too much.
Tick ==
  /\ \E ids \in {{i} : i \in Visible} \cup {Visible} :
       Synced(IF Cardinality(chosen \cup ids) > MaxSelection THEN chosen ELSE chosen \cup ids)
  /\ UNCHANGED <<rows, url, asking, shown, choosing, storage, writes>>

\* Mutant of Untick: the selection is not stored.
UntickUnsynced ==
  /\ \E ids \in {{i} : i \in Visible} \cup {chosen} : chosen' = chosen \ ids
  /\ UNCHANGED stored
  /\ clicks < MaxClicks /\ clicks' = clicks + 1
  /\ UNCHANGED <<rows, url, asking, shown, choosing, storage, writes>>

\* The tick is taken back, or the selection cleared.
Untick ==
  /\ \E ids \in {{i} : i \in Visible} \cup {chosen} : Synced(chosen \ ids)
  /\ UNCHANGED <<rows, url, asking, shown, choosing, storage, writes>>

\* "Select all filtered" is disabled while a request runs.
ChooseAll ==
  /\ choosing = {} /\ clicks < MaxClicks
  /\ choosing' = {[query |-> url.query, read |-> FALSE, ids |-> {}, seen |-> <<>>]}
  /\ UNCHANGED <<rows, url, asking, shown, tab, storage, writes>>

ReadIds ==
  \E c \in choosing :
    /\ ~c.read
    /\ choosing' = {[c EXCEPT !.read = TRUE, !.ids = Selection(rows, c.query), !.seen = rows]}
    /\ UNCHANGED <<rows, url, asking, shown, tab, storage, writes>>

ReceiveIds ==
  \E c \in choosing :
    /\ c.read /\ choosing' = {}
    /\ IF c.ids = {} THEN UNCHANGED tab ELSE \E ids \in c.ids : Synced(ids)
    /\ UNCHANGED <<rows, url, asking, shown, storage, writes>>

IdsLost ==
  /\ choosing # {} /\ choosing' = {}
  /\ UNCHANGED <<rows, url, asking, shown, tab, storage, writes>>

---------------------------------------------------------------------------
(* Workers and commands change the inventory; rows are never removed. *)

Write(i, row) ==
  /\ writes < MaxWrites /\ writes' = writes + 1
  /\ rows' = [j \in DOMAIN rows \cup {i} |-> IF j = i THEN row ELSE rows[j]]
  /\ i \in DOMAIN rows => rows[i].host = row.host
  /\ UNCHANGED <<url, asking, shown, tab, choosing, storage>>

Next ==
  \/ CountRows \/ ListRows \/ CountFacets
  \/ Poll \/ Receive \/ Lost \/ Follow
  \/ Tick \/ Untick \/ ChooseAll \/ ReadIds \/ ReceiveIds \/ IdsLost
  \/ \E i \in Ids, row \in Row : Write(i, row)

Spec == Init /\ [][Next]_vars

---------------------------------------------------------------------------
(* Properties *)

\* The parts of a page are about one state of the inventory, whatever was written
\* while it was made: it has the rows its total says, and the counts of a category,
\* over the values filtered for, add up to that total.  The count beside a host is what
\* filtering for it, alone, would list.
PageAddsUp ==
  \A page \in shown :
    LET over(filter, values) == IF filter = {} THEN values ELSE filter
    IN  /\ Len(page.rows) = Smaller(Limit, Larger(0, page.total - page.offset))
        /\ page.total = SumFunctionOnSet(page.facets.host, over(page.query.host, Hosts))
        /\ page.total = SumFunctionOnSet(page.facets.state, over(page.query.state, States))
        /\ \A h \in Hosts :
             page.facets.host[h] = Cardinality(Matches(page.seen, [page.query EXCEPT !.host = {h}]))

\* The page's buttons skip no row and lead to none that is empty while there are
\* matches, also from an offset that lies behind the last match.
ButtonsLead ==
  \A page \in shown :
    /\ \A next \in NextOffset(page) : next = page.offset + Len(page.rows)
    /\ page.offset + Len(page.rows) < page.total => NextOffset(page) # {}
    /\ page.offset > 0 =>
         /\ Previous(page) \in 0 .. page.offset - 1
         /\ page.total > 0 => Previous(page) < page.total
         /\ Previous(page) + Limit >= Smaller(page.offset, page.total)

\* docs/guarantees.md: "All-filtered selection captures IDs once": the whole of what
\* matched at one moment, or nothing, but never a part.
SelectionIsWhole ==
  \A c \in choosing : \A ids \in c.ids : ids = Matches(c.seen, c.query)

\* docs/guarantees.md: "Tab-local selection survives navigation and polling", as long
\* as the browser stores it.
SelectionSurvives ==
  [][storage /\ (url' # url \/ shown' # shown) => chosen' = chosen]_vars
=============================================================================
