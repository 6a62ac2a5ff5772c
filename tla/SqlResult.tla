------------------------------ MODULE SqlResult ------------------------------
(***************************************************************************)
(* A query and the iteration over its rows (internal/sql/service.go,       *)
(* internal/sql/driver/sql_service.go and result.go): one goroutine calls  *)
(* HasNext and Next, another one may close the result, and the goroutine   *)
(* of the context closes it when the context ends.                         *)
(*                                                                         *)
(* The member (external) keeps a cursor; it releases the query with the    *)
(* last page, on a close request or when the connection is lost.           *)
(***************************************************************************)
EXTENDS Integers, Sequences, SequencesExt

CONSTANTS
    Queries            \* the answers of queries: [update |-> BOOLEAN, pages |-> Seq(number of rows, or NoColumns)]

NoColumns == -1        \* a first page without columns, or no page at all

ASSUME QueriesAssumption ==
    \A q \in Queries : /\ q.update \in BOOLEAN
                       /\ q.pages \in Seq(Nat \cup {NoColumns})
                       /\ ~q.update => q.pages # <<>>

VARIABLES
    query,             \* what the statement is
    cursor,            \* member: pages it has given
    queryHeld,         \* member: does it hold resources?
    connected,         \* is the connection of the query open?
    page,              \* QueryResult.page: its rows, whether it is the last
    index,             \* QueryResult.index
    queryState,        \* QueryResult.state: "none", "open" or "closed"
    fetching,          \* "no", "asked" or "answered"
    closing,           \* close requests on their way
    resultErr,         \* Result.err
    iteration,         \* "new", "running" or how it ended: "eof", "error", "failed"
    ctxDone,           \* the context of Execute has ended
    got                \* the rows that Next returned

sqlVars == <<query, cursor, queryHeld, connected, page, index, queryState, fetching, closing, resultErr, iteration,
             ctxDone, got>>

\* The rows of a page are <<page, row>>.
PageRows(k) == [i \in 1..(IF query.pages[k] = NoColumns THEN 0 ELSE query.pages[k]) |-> <<k, i>>]
Page(k) == [rows |-> PageRows(k), columns |-> query.pages[k] # NoColumns, last |-> k = Len(query.pages)]
NoPage  == [rows |-> <<>>, columns |-> FALSE, last |-> FALSE]

SqlInit ==
    /\ query \in Queries
    /\ cursor = 0 /\ queryHeld = FALSE /\ connected = TRUE
    /\ page = NoPage /\ index = 0 /\ queryState = "none" /\ fetching = "no" /\ closing = 0
    /\ resultErr = FALSE /\ iteration = "new" /\ ctxDone = FALSE
    /\ got = <<>>

---------------------------------------------------------------------------
\* ExecuteStatement: an update count has no rows to iterate over
ExecuteUpdate ==
    /\ iteration = "new" /\ query.update /\ connected
    /\ iteration' = "eof"
    /\ UNCHANGED <<query, cursor, queryHeld, connected, page, index, queryState, fetching, closing, resultErr, ctxDone, got>>

ExecuteQuery ==
    /\ iteration = "new" /\ ~query.update /\ connected
    /\ cursor' = 1 /\ queryHeld' = (Len(query.pages) > 1)
    /\ page' = Page(1) /\ queryState' = "open"
    /\ iteration' = "running"
    /\ UNCHANGED <<query, connected, index, fetching, closing, resultErr, ctxDone, got>>

\* The statement is refused, or its answer does not arrive: nobody knows the
\* query the member may have started.
ExecuteFails ==
    /\ iteration = "new"
    /\ iteration' = "failed"
    /\ \/ UNCHANGED connected /\ queryHeld' \in {FALSE, ~query.update}
       \/ connected' = FALSE /\ UNCHANGED queryHeld
    /\ UNCHANGED <<query, cursor, page, index, queryState, fetching, closing, resultErr, ctxDone, got>>

---------------------------------------------------------------------------
\* close: the result knows that the member has nothing left
CloseState == queryState' = "closed"

\* a mutant that never tells the member
closeQuerySilently == CloseState /\ UNCHANGED closing

\* closeQuery: only the first one asks the member
closeQuery ==
    /\ CloseState
    /\ closing' = IF queryState = "open" THEN closing + 1 ELSE closing

Close ==
    /\ queryState = "open"
    /\ closeQuery
    /\ UNCHANGED <<query, cursor, queryHeld, connected, page, index, fetching, resultErr, iteration, ctxDone, got>>

\* the goroutine of NewQueryResult
ContextEnds ==
    /\ queryState # "none" /\ ~ctxDone
    /\ ctxDone' = TRUE
    /\ closeQuery
    /\ UNCHANGED <<query, cursor, queryHeld, connected, page, index, fetching, resultErr, iteration, got>>

Ends(how) == iteration' = how

\* HasNext and Next of a page that has a row left ...
NextRow ==
    /\ iteration = "running" /\ fetching = "no" /\ ~resultErr
    /\ page.columns /\ index < Len(page.rows)
    /\ got' = Append(got, page.rows[index + 1])
    /\ index' = index + 1
    /\ UNCHANGED <<query, cursor, queryHeld, connected, page, queryState, fetching, closing, resultErr, iteration, ctxDone>>

\* ... of a page that has none and no successor, or no columns: io.EOF ...
NextEOF ==
    /\ iteration = "running" /\ fetching = "no" /\ ~resultErr
    /\ ~page.columns \/ (index >= Len(page.rows) /\ page.last)
    /\ CloseState /\ Ends("eof")
    /\ UNCHANGED <<query, cursor, queryHeld, connected, page, index, fetching, closing, resultErr, ctxDone, got>>

\* ... or of one that has a successor: the member is asked
NextPage ==
    /\ iteration = "running" /\ fetching = "no" /\ ~resultErr
    /\ page.columns /\ index >= Len(page.rows) /\ ~page.last
    /\ fetching' = "asked"
    /\ UNCHANGED <<query, cursor, queryHeld, connected, page, index, queryState, closing, resultErr, iteration, ctxDone, got>>

\* a mutant that keeps the position of the page before
pageStartsWhereLastEnded == UNCHANGED index

pageStarts == index' = 0

\* fetchNextPage gets a page; a first row is taken from it, and without one
\* the iteration ends as if nothing were left.
Fetched ==
    /\ fetching = "answered"
    /\ page' = Page(cursor)
    /\ fetching' = "no"
    /\ pageStarts
    /\ IF page'.rows = <<>> /\ page'.columns
       THEN CloseState /\ Ends("eof")
       ELSE UNCHANGED <<queryState, iteration>>
    /\ UNCHANGED <<query, cursor, queryHeld, connected, closing, resultErr, ctxDone, got>>

\* ... or an error: the query is unknown to the member, the connection is
\* lost, or the result was closed and the call cancelled.
FetchFails ==
    /\ \/ fetching \in {"asked", "answered"} /\ (queryState = "closed" \/ ~connected)
       \/ fetching = "asked" /\ ~queryHeld
    /\ fetching' = "no" /\ resultErr' = TRUE
    /\ UNCHANGED <<query, cursor, queryHeld, connected, page, index, queryState, closing, iteration, ctxDone, got>>

\* HasNext is true once more, Next returns the error.
NextError ==
    /\ iteration = "running" /\ resultErr
    /\ Ends("error")
    /\ UNCHANGED <<query, cursor, queryHeld, connected, page, index, queryState, fetching, closing, resultErr, ctxDone, got>>

---------------------------------------------------------------------------
(***************************************************************************)
(* The member and the connection (external)                                *)
(***************************************************************************)
MemberFetches ==
    /\ fetching = "asked" /\ queryHeld /\ connected
    /\ cursor' = cursor + 1
    /\ queryHeld' = (cursor' < Len(query.pages))
    /\ fetching' = "answered"
    /\ UNCHANGED <<query, connected, page, index, queryState, closing, resultErr, iteration, ctxDone, got>>

MemberCloses ==
    /\ closing > 0
    /\ closing' = closing - 1
    /\ queryHeld' = FALSE
    /\ UNCHANGED <<query, cursor, connected, page, index, queryState, fetching, resultErr, iteration, ctxDone, got>>

ConnectionLost ==
    /\ connected /\ iteration # "new"
    /\ connected' = FALSE /\ queryHeld' = FALSE
    /\ UNCHANGED <<query, cursor, page, index, queryState, fetching, closing, resultErr, iteration, ctxDone, got>>

SqlNext ==
    \/ ExecuteUpdate \/ ExecuteQuery \/ ExecuteFails
    \/ Close \/ ContextEnds
    \/ NextRow \/ NextEOF \/ NextPage \/ Fetched \/ FetchFails \/ NextError
    \/ MemberFetches \/ MemberCloses \/ ConnectionLost

SqlSpec == SqlInit /\ [][SqlNext]_sqlVars

---------------------------------------------------------------------------
AllRows == FlattenSeq([k \in DOMAIN query.pages |-> PageRows(k)])

\* Pages that end the iteration although others follow.
Truncated == \E k \in 1..cursor : query.pages[k] \in {0, NoColumns} /\ k < Len(query.pages)

(***************************************************************************)
(* The rows come in order, none is skipped and none repeated, whatever the *)
(* pages, and an iteration that ends without an error has seen them all,   *)
(* except when a page that is not the last one brings no row: then the     *)
(* rest is silently left out.                                              *)
(***************************************************************************)
RowsInOrder ==
    /\ IsPrefix(got, AllRows)
    /\ (iteration = "eof" /\ ~query.update /\ ~Truncated) => got = AllRows

(***************************************************************************)
(* A result that is closed and has no close request on its way holds no    *)
(* resources on the member, whether it was read to its end, closed while a *)
(* page was fetched (the fetch may still be under way) or cancelled by its *)
(* context: only a page without rows ends the iteration without telling    *)
(* the member, which then keeps the query.                                 *)
(***************************************************************************)
QueryIsReleased ==
    (queryState = "closed" /\ closing = 0 /\ ~Truncated) => ~queryHeld
=============================================================================
