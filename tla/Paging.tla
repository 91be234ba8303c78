------------------------------- MODULE Paging -------------------------------
(***************************************************************************)
(* A page of a collection as Paginator (adrest/utils/paginator.py) and     *)
(* EmitterMixin.emit (adrest/mixin/emitter.py) tell it to a client that    *)
(* walks from page to page, while the table changes.                       *)
(*                                                                         *)
(* The answer's body and its Link header are put together from properties  *)
(* of one Paginator, read one after the other: count, page_number,         *)
(* next_page, previous_page, resources, and for the header next_page and   *)
(* previous_page again.  Each of them looks at the property page, and each *)
(* look may read the database; between two looks the table may change.     *)
(* next_page and previous_page also write the number they return into      *)
(* query_dict, from which page takes the number of a page it makes.        *)
(*                                                                         *)
(* One action is one look at page.  Rows are their primary keys, in whose  *)
(* order the table is read; new rows get new, greater keys.                *)
(***************************************************************************)
EXTENDS Naturals, FiniteSets

CONSTANTS
    MaxRow,     \* bound: primary keys are 1..MaxRow
    InitialRows,\* what the table may hold at the start
    PageSizes,  \* limit_per_page, or the parameter adr-max of a request
    Numbers,    \* values of the parameter page; 0 stands for none
    Unread      \* rows of a page that has not been evaluated

ASSUME PagingAssumption ==
    /\ MaxRow \in Nat /\ InitialRows \subseteq SUBSET (1..MaxRow)
    /\ PageSizes \subseteq Nat \ {0} /\ Numbers \subseteq Nat
    /\ \A s \in SUBSET (1..MaxRow) : Unread # s

VARIABLES
    rows,     \* the table
    newest,   \* the greatest key given so far
    pc,       \* what the server does next
    part,     \* which part of the answer it makes: "body", or "link", whose
              \* properties are read a second time ("again") to be printed
    size,     \* paginator.per_page
    asked,    \* the page parameter of the request
    query,    \* query_dict["page"], 0 when absent
    count,    \* paginator.count, kept once it has been read
    page,     \* _page: its number, 0 when None, and its rows or Unread
    body,     \* the body so far: page, next, prev, rows, and the number of
              \* the page (of) whose rows it shows; and, a history, whether
              \* page_number found the page empty
    link,     \* the Link header so far
    status,
    walk      \* history of the client's walk: is it on, the rows at its start
              \* and those shown, whether one was shown twice, whether any was
              \* deleted, and whether a page was found empty

table == <<rows, newest>>
vars == <<rows, newest, pc, part, size, asked, query, count, page, body, link, status, walk>>

NoPage == [number |-> 0, rows |-> Unread]
NoBody == [page |-> 0, next |-> 0, prev |-> 0, rows |-> {}, of |-> 0, empty |-> FALSE]
NoLink == [next |-> 0, prev |-> 0]

NumPages == IF count = 0 THEN 1 ELSE (count + size - 1) \div size

\* object_list[bottom:top], read now
Rank(r) == Cardinality({x \in rows : x < r})
Slice(n) ==
    LET bottom == (n - 1) * size
        top == IF n * size >= count THEN count ELSE n * size
    IN  {r \in rows : Rank(r) >= bottom /\ Rank(r) < top}

\* the page with its rows read, unless they have been before
Read(p) == IF p.rows = Unread THEN [p EXCEPT !.rows = Slice(p.number)] ELSE p

Number(q) == IF q = 0 THEN 1 ELSE q
Valid(q) == Number(q) = 1 \/ Number(q) <= NumPages
NewPage == [number |-> Number(query), rows |-> Unread]

\* Mutant: the page is made anew for every look.
FoundAlwaysNew == NewPage

\* The property page: `if not self._page` is true of a page without rows, too.
Found ==
    IF page = NoPage \/ Read(page).rows = {} THEN NewPage ELSE Read(page)

Init ==
    /\ rows \in InitialRows
    /\ newest \in rows \cup {0} /\ \A r \in rows : r <= newest
    /\ pc = "idle" /\ part = "body"
    /\ size \in PageSizes
    /\ asked = 0 /\ query = 0 /\ count = 0
    /\ page = NoPage /\ body = NoBody /\ link = NoLink /\ status = 0
    /\ walk = [on |-> FALSE, start |-> {}, seen |-> {}, twice |-> FALSE,
               deleted |-> FALSE, empty |-> FALSE]

-----------------------------------------------------------------------------
\* get, paginate: a Paginator for the request.
Open(n) ==
    /\ asked' = n /\ query' = n
    /\ pc' = "count" /\ part' = "body"
    /\ count' = 0 /\ page' = NoPage /\ body' = NoBody /\ link' = NoLink /\ status' = 0
    /\ UNCHANGED table

\* The client asks for a page; from the first one it walks on.
Start(n, m) ==
    /\ pc \in {"idle", "answered"} /\ ~walk.on
    /\ Open(n)
    /\ size' = m
    /\ walk' = [on |-> Number(n) = 1, start |-> rows, seen |-> {}, twice |-> FALSE,
                deleted |-> FALSE, empty |-> FALSE]

\* It follows the link to the next page, or is done.
Follow ==
    /\ pc = "answered" /\ walk.on /\ status = 200 /\ body.next # 0
    /\ Open(body.next)
    /\ UNCHANGED <<size, walk>>

Done ==
    /\ pc = "answered" /\ walk.on /\ (status # 200 \/ body.next = 0)
    /\ walk' = [walk EXCEPT !.on = FALSE]
    /\ UNCHANGED <<table, pc, part, size, asked, query, count, page, body, link, status>>

-----------------------------------------------------------------------------
\* to_simple: count=self.paginator.count
Count ==
    /\ pc = "count"
    /\ count' = Cardinality(rows)
    /\ pc' = "number"
    /\ UNCHANGED <<table, part, size, asked, query, page, body, link, status, walk>>

\* page=self.page_number: 1 when the page has no rows.
PageNumber ==
    LET p == Read(NewPage)
    IN  /\ pc = "number" /\ Valid(query)
        /\ page' = p
        /\ body' = [body EXCEPT !.page = IF p.rows = {} THEN 1 ELSE p.number,
                                !.empty = p.rows = {}]
        /\ walk' = [walk EXCEPT !.empty = @ \/ p.rows = {}]
        /\ pc' = "hasnext"
        /\ UNCHANGED <<table, part, size, asked, query, count, link, status>>

\* InvalidPage
BadPage ==
    /\ pc = "number" /\ ~Valid(query)
    /\ pc' = "answered" /\ status' = 400
    /\ UNCHANGED <<table, part, size, asked, query, count, page, body, link, walk>>

\* Where next_page and previous_page put their result, and what is read then.
Tell(what, n, then) ==
    CASE part = "body" -> /\ body' = [body EXCEPT ![what] = n]
                          /\ pc' = then /\ UNCHANGED <<part, link, status>>
      [] part = "link" /\ n # 0 -> /\ part' = "again"
                                   /\ pc' = IF what = "next" THEN "hasnext" ELSE "hasprev"
                                   /\ UNCHANGED <<body, link, status>>
      [] part = "again" \/ (part = "link" /\ n = 0) ->
            /\ link' = [link EXCEPT ![what] = n]
            /\ part' = "link"
            /\ IF what = "next" THEN pc' = "hasprev" /\ UNCHANGED status
                                ELSE pc' = "answered" /\ status' = 200
            /\ UNCHANGED body

\* next_page: if self.page.has_next()
HasNext ==
    /\ pc = "hasnext"
    /\ page' = Found
    /\ IF Found.number < NumPages
       THEN pc' = "nextnum" /\ UNCHANGED <<body, link, part, status>>
       ELSE Tell("next", 0, "hasprev")
    /\ UNCHANGED <<table, size, asked, query, count, walk>>

\* Mutant: the number of this page instead of the next.
SameNum ==
    /\ pc = "nextnum"
    /\ page' = Found
    /\ query' = Found.number
    /\ Tell("next", Found.number, "hasprev")
    /\ UNCHANGED <<table, size, asked, count, walk>>

\* self.query_dict["page"] = self.page.next_page_number()
NextNum ==
    /\ pc = "nextnum"
    /\ page' = Found
    /\ query' = Found.number + 1
    /\ Tell("next", Found.number + 1, "hasprev")
    /\ UNCHANGED <<table, size, asked, count, walk>>

\* previous_page: if self.page.has_previous()
HasPrev ==
    /\ pc = "hasprev"
    /\ page' = Found
    /\ IF Found.number > 1
       THEN pc' = "prevnum" /\ UNCHANGED <<body, link, part, status>>
       ELSE Tell("prev", 0, "rows")
    /\ UNCHANGED <<table, size, asked, query, count, walk>>

\* The parameter of the first page is left out.
PrevNum ==
    /\ pc = "prevnum"
    /\ page' = Found
    /\ query' = IF Found.number = 2 THEN 0 ELSE Found.number - 1
    /\ Tell("prev", Found.number - 1, "rows")
    /\ UNCHANGED <<table, size, asked, count, walk>>

\* resources=self.page.object_list ...
Resources ==
    /\ pc = "rows"
    /\ page' = Found
    /\ pc' = "iterate"
    /\ UNCHANGED <<table, part, size, asked, query, count, body, link, status, walk>>

\* ... which the serializer goes through.
Iterate ==
    LET p == Read(page)
    IN  /\ pc = "iterate"
        /\ page' = p
        /\ body' = [body EXCEPT !.rows = p.rows, !.of = p.number]
        /\ walk' = [walk EXCEPT !.twice = @ \/ walk.seen \cap p.rows # {},
                                !.seen = @ \cup p.rows]
        /\ part' = "link" /\ pc' = "hasnext"
        /\ UNCHANGED <<table, size, asked, query, count, link, status>>

-----------------------------------------------------------------------------
\* Other clients.
Insert ==
    /\ newest < MaxRow
    /\ newest' = newest + 1
    /\ rows' = rows \cup {newest + 1}
    /\ UNCHANGED <<pc, part, size, asked, query, count, page, body, link, status, walk>>

Delete(r) ==
    /\ r \in rows
    /\ rows' = rows \ {r}
    /\ walk' = [walk EXCEPT !.deleted = TRUE]
    /\ UNCHANGED <<newest, pc, part, size, asked, query, count, page, body, link, status>>

Answer ==
    \/ Count \/ PageNumber \/ BadPage \/ HasNext \/ NextNum \/ HasPrev \/ PrevNum
    \/ Resources \/ Iterate

Next ==
    \/ \E n \in Numbers, m \in PageSizes : Start(n, m)
    \/ Follow \/ Done \/ Answer
    \/ Insert
    \/ \E r \in 1..MaxRow : Delete(r)

Spec == Init /\ [][Next]_vars

\* The server finishes its answers; the client walks on.
FairSpec == Spec /\ WF_vars(Answer) /\ WF_vars(Follow \/ Done)

-----------------------------------------------------------------------------
Answered == pc = "answered" /\ status = 200

\* If the page had rows when page_number looked, or there are none at all, the
\* answer is of one piece, whatever happens to the table afterwards: it shows
\* the page asked for, both links are to its neighbours by the count it tells,
\* and the header agrees with the body.  Reading next_page and previous_page
\* several times, each of which changes query_dict, does no harm.
AnswerOfOnePiece ==
    (Answered /\ (~body.empty \/ count = 0)) =>
        /\ body.page = Number(asked) /\ body.of = body.page
        /\ body.next = IF body.page < NumPages THEN body.page + 1 ELSE 0
        /\ body.prev = body.page - 1
        /\ link.next = body.next /\ link.prev = body.prev
        /\ Cardinality(body.rows) <= size

\* Following the links from the first page shows every row that was there at
\* the start, and none twice, when nothing is deleted meanwhile.  When rows are
\* deleted, rows may be skipped, but none is shown twice unless a page was
\* found empty.
WalkIsComplete ==
    /\ (Answered /\ walk.on /\ body.next = 0 /\ ~walk.deleted) => walk.start \subseteq walk.seen
    /\ walk.twice => walk.deleted /\ walk.empty

\* The page that a walk asks for next is the one after the page it asked for
\* last, whatever was found there, and there have been more rows than all the
\* pages asked for so far hold.  So a walk of n pages needs more than
\* (n - 1) * size rows: it ends unless rows keep arriving.
WalkAdvances ==
    [][Follow => asked' = Number(asked) + 1 /\ Number(asked) * size < newest]_vars

\* If rows arrive no more from some point on, every walk comes to an end.
\* Nothing else in the code ends one: a client that is never faster than those
\* who insert always finds a next page.  In a run of TLC the premise holds of
\* every behaviour, because of the bound on keys.
WalkEnds == <>[][newest' = newest]_newest => (walk.on ~> ~walk.on)
=============================================================================
