----------------------------- MODULE MailSearch -----------------------------
(***************************************************************************)
(* The search over all folders (useMailViewSearch.ts) and the handler that *)
(* answers it a page at a time, by offset, newest first (search.get.ts).   *)
(* The results of a query are numbered from the oldest, by the date they   *)
(* were sent; mail arrives, with any date, and is thrown away between two  *)
(* pages.                                                                  *)
(***************************************************************************)
EXTENDS Naturals, FiniteSets, Sequences

CONSTANTS
    Queries,
    NoQuery,        \* the empty search field
    PageSize,
    MaxHits         \* bound: the results one query may ever have

ASSUME SearchAssumption == NoQuery \notin Queries /\ PageSize \in Nat \ {0} /\ MaxHits \in Nat

VARIABLES
    found,          \* what the server finds for each query
    search,         \* the field, the folder, and what the page shows
    pages,          \* the requests under way
    start           \* history: what could be found when the first page was answered

searchVars == <<found, search, pages, start>>

-----------------------------------------------------------------------------

Blank == [results |-> <<>>, offset |-> 0, more |-> FALSE, error |-> FALSE]

SearchInit ==
    /\ found \in [Queries -> SUBSET (1..MaxHits)]
    /\ search = [query |-> NoQuery, everywhere |-> TRUE, loading |-> FALSE, timer |-> FALSE,
                 shown |-> Blank]
    /\ pages = {}
    /\ start = {}

\* isGlobalSearch: the screener and the trash are searched by themselves.
Global(s) == s.query # NoQuery /\ s.everywhere

\* The revision of the search moves on: the answers under way are not awaited any more.
Outdated == {[p EXCEPT !.current = FALSE] : p \in pages}

\* The watch of the query and of the folder.
StartOver(s) ==
    /\ search' = [s EXCEPT !.shown = Blank, !.loading = Global(s), !.timer = Global(s)]
    /\ pages' = Outdated
    /\ start' = {}

Type(q) ==
    /\ q # search.query
    /\ StartOver([search EXCEPT !.query = q])
    /\ UNCHANGED found

ChangeFolder ==
    /\ StartOver([search EXCEPT !.everywhere = ~search.everywhere])
    /\ UNCHANGED found

\* loadSearchPage.
AskPage(offset, first) ==
    pages' = Outdated \cup {[q |-> search.query, offset |-> offset, first |-> first, current |-> TRUE]}

SearchTimerFires ==
    /\ search.timer
    /\ search' = [search EXCEPT !.timer = FALSE, !.loading = TRUE, !.shown = Blank]
    /\ AskPage(0, TRUE)
    /\ UNCHANGED <<found, start>>

LoadMore ==
    /\ Global(search) /\ search.shown.more /\ ~search.loading
    /\ search' = [search EXCEPT !.loading = TRUE, !.shown.error = FALSE]
    /\ AskPage(search.shown.offset, FALSE)
    /\ UNCHANGED <<found, start>>

\* Mutant: an answer is taken whatever was typed since.
Anyway(p) == TRUE

\* Only the answer to the last request is taken.
Awaited(p) == p.current

NextOffset(offset, ids) == offset + Cardinality(ids)

\* The row of a hit among others, newest first.
RowOf(hits, id) == Cardinality({h \in hits : h >= id})

\* The rows an answer may hold from an offset on.
RowsFrom(offset) == (offset + 1)..(offset + PageSize)

\* Results, newest first.
Results(q, ids) ==
    [i \in 1..Cardinality(ids) |-> [q |-> q, id |-> CHOOSE id \in ids : RowOf(ids, id) = i]]

ResultsShown == {search.shown.results[i] : i \in DOMAIN search.shown.results}

PageAnswered(p) ==
    /\ p \in pages
    /\ pages' = pages \ {p}
    /\ LET hits == found[p.q]
           ids == {id \in hits : RowOf(hits, id) \in RowsFrom(p.offset)}
           new == {id \in ids : [q |-> p.q, id |-> id] \notin ResultsShown}
       IN  IF ~Awaited(p) THEN UNCHANGED <<search, start>>
           ELSE \/ /\ search' = [search EXCEPT !.loading = FALSE, !.shown =
                        [results |-> IF p.first THEN Results(p.q, ids)
                                     ELSE search.shown.results \o Results(p.q, new),
                         offset |-> NextOffset(p.offset, ids),
                         more |-> Cardinality(hits) > p.offset + PageSize, error |-> FALSE]]
                   /\ start' = IF p.first THEN hits ELSE start
                \/ /\ search' = [search EXCEPT !.loading = FALSE, !.shown.error = TRUE]
                   /\ UNCHANGED start
    /\ UNCHANGED found

\* A message arrives, or comes back: it stands where its date puts it.
Arrive(q, id) ==
    /\ id \notin found[q]
    /\ found' = [found EXCEPT ![q] = @ \cup {id}]
    /\ UNCHANGED <<search, pages, start>>

\* A result thrown away moves the ones after it up a row: the next page misses one.
Throw(q, id) ==
    /\ id \in found[q]
    /\ found' = [found EXCEPT ![q] = @ \ {id}]
    /\ start' = IF q = search.query THEN {} ELSE start
    /\ UNCHANGED <<search, pages>>

SearchNext ==
    \/ ChangeFolder \/ SearchTimerFires \/ LoadMore
    \/ \E q \in Queries \cup {NoQuery} : Type(q)
    \/ \E p \in pages : PageAnswered(p)
    \/ \E q \in Queries, id \in 1..MaxHits : Arrive(q, id) \/ Throw(q, id)

SearchSpec == SearchInit /\ [][SearchNext]_searchVars

-----------------------------------------------------------------------------

\* What the page shows answers what is in the field, each result once, and when the
\* last page has come it is all that could be found when the first page was answered,
\* however much mail arrived in between; unless a result was thrown away meanwhile.
ResultsAnswerTheQuery ==
    LET shown == search.shown.results
    IN  /\ \A i \in 1..Len(shown) : shown[i].q = search.query
        /\ Cardinality(ResultsShown) = Len(shown)
        /\ ~search.loading /\ ~search.shown.more /\ ~search.shown.error /\ Global(search)
           => start \subseteq {h.id : h \in ResultsShown}
=============================================================================
