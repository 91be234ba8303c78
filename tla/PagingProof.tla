---------------------------- MODULE PagingProof ----------------------------
(***************************************************************************)
(* Theorems about Paging, for tables, page sizes and walks of any length.  *)
(***************************************************************************)
EXTENDS Paging, Integers, FiniteSetTheorems, TLAPS

USE PagingAssumption

-----------------------------------------------------------------------------
\* Pages by the count.
LEMMA DivBounds ==
    ASSUME NEW a \in Nat, NEW b \in Nat \ {0}
    PROVE  a \div b \in Nat /\ (a \div b) * b <= a /\ a < (a \div b) * b + b
OBVIOUS

LEMMA Product ==
    ASSUME NEW n \in Nat, NEW k \in Nat
    PROVE  /\ n * k \in Nat
           /\ n >= 1 => (n - 1) * k \in Nat /\ n * k = (n - 1) * k + k
OBVIOUS

LEMMA ProductMonotonic ==
    ASSUME NEW m \in Nat, NEW n \in Nat, NEW k \in Nat, m <= n
    PROVE  m * k <= n * k
OBVIOUS

LEMMA Pages ==
    ASSUME count \in Nat, size \in Nat \ {0}
    PROVE  /\ NumPages \in Nat /\ NumPages >= 1
           /\ count = 0 => NumPages = 1
           /\ \A n \in Nat : n >= 1 =>
                 /\ n >= NumPages => n * size >= count
                 /\ (n <= NumPages /\ count # 0) => (n - 1) * size < count
<1>1. CASE count = 0
  <2>1. NumPages = 1  BY <1>1 DEF NumPages
  <2>2. \A n \in Nat : n * size >= 0  OBVIOUS
  <2> QED BY <1>1, <2>1, <2>2
<1>2. CASE count # 0
  <2> DEFINE q == NumPages
  <2>0. count + size - 1 \in Nat  OBVIOUS
  <2>1. q = (count + size - 1) \div size  BY <1>2 DEF NumPages
  <2>2. q \in Nat /\ q * size <= count + size - 1 /\ count + size - 1 < q * size + size
        BY <2>0, <2>1, DivBounds
  <2> HIDE DEF q
  <2>3. q >= 1
    <3>1. q = 0 => q * size = 0  OBVIOUS
    <3> QED BY <1>2, <2>2, <3>1
  <2>4. ASSUME NEW n \in Nat, n >= 1
        PROVE  /\ n >= q => n * size >= count
               /\ n <= q => (n - 1) * size < count
    <3>1. n * size = (n - 1) * size + size /\ (n - 1) * size \in Nat /\ n * size \in Nat /\ q * size \in Nat
          BY <2>2, <2>4, Product
    <3>2. n >= q => q * size <= n * size  BY <2>2, ProductMonotonic
    <3>3. n <= q => n * size <= q * size  BY <2>2, ProductMonotonic
    <3> QED BY <2>2, <3>1, <3>2, <3>3
  <2> QED BY <1>2, <2>2, <2>3, <2>4 DEF q
<1> QED BY <1>1, <1>2

-----------------------------------------------------------------------------
\* The rank of a row.
LEMMA Ranks ==
    ASSUME rows \in SUBSET Nat, IsFiniteSet(rows)
    PROVE  /\ Cardinality(rows) \in Nat
           /\ \A r \in Nat : Rank(r) \in Nat
           /\ \A r \in rows : Rank(r) < Cardinality(rows)
           /\ \A r, s \in rows : r < s => Rank(r) < Rank(s)
<1> DEFINE Below(r) == {x \in rows : x < r}
<1>1. \A r : IsFiniteSet(Below(r)) /\ Cardinality(Below(r)) \in Nat
             /\ Cardinality(Below(r)) <= Cardinality(rows) /\ Rank(r) = Cardinality(Below(r))
      BY FS_Subset, FS_CardinalityType DEF Rank
<1>2. Cardinality(rows) \in Nat  BY FS_CardinalityType
<1>3. ASSUME NEW r \in rows PROVE Rank(r) < Cardinality(rows)
  <2>1. Below(r) \cup {r} \in SUBSET rows  OBVIOUS
  <2>2. Cardinality(Below(r) \cup {r}) <= Cardinality(rows)  BY <2>1, FS_Subset
  <2>3. r \notin Below(r)  OBVIOUS
  <2>4. Cardinality(Below(r) \cup {r}) = Cardinality(Below(r)) + 1
        BY <1>1, <2>3, FS_AddElement
  <2> HIDE DEF Below
  <2> QED BY <1>1, <1>2, <2>2, <2>4
<1>4. ASSUME NEW r \in rows, NEW s \in rows, r < s PROVE Rank(r) < Rank(s)
  <2>1. Below(r) \cup {r} \in SUBSET Below(s)
    <3>1. \A x \in Below(r) : x \in rows /\ x < s  BY <1>4
    <3>2. r \in Below(s)  BY <1>4
    <3> QED BY <3>1, <3>2
  <2>2. Cardinality(Below(r) \cup {r}) <= Cardinality(Below(s))  BY <1>1, <2>1, FS_Subset
  <2>3. r \notin Below(r)  OBVIOUS
  <2>4. Cardinality(Below(r) \cup {r}) = Cardinality(Below(r)) + 1
        BY <1>1, <2>3, FS_AddElement
  <2> HIDE DEF Below
  <2> QED BY <1>1, <2>2, <2>4
<1> QED BY <1>1, <1>2, <1>3, <1>4

LEMMA RankInjective ==
    ASSUME rows \in SUBSET Nat, IsFiniteSet(rows), NEW r \in rows, NEW s \in rows,
           Rank(r) = Rank(s)
    PROVE  r = s
<1>1. ~(r < s) /\ ~(s < r)  BY Ranks
<1> QED BY <1>1

\* Every rank is some row's.
LEMMA RankOnto ==
    ASSUME rows \in SUBSET Nat, IsFiniteSet(rows), NEW n \in Nat, n < Cardinality(rows)
    PROVE  \E r \in rows : Rank(r) = n
<1> DEFINE T == 0..(Cardinality(rows) - 1)
           f == [r \in rows |-> Rank(r)]
<1>1. Cardinality(rows) \in Nat /\ Cardinality(rows) >= 1  BY Ranks
<1>2. IsFiniteSet(T) /\ Cardinality(T) = Cardinality(rows)
  <2>1. 0 \in Int /\ Cardinality(rows) - 1 \in Int  BY <1>1
  <2> QED BY <1>1, <2>1, FS_Interval
<1>3. f \in Injection(rows, T)
  <2>1. \A r \in rows : Rank(r) \in T  BY <1>1, Ranks
  <2>2. f \in [rows -> T]
    <3> HIDE DEF T
    <3> QED BY <2>1
  <2>3. \A r, s \in rows : f[r] = f[s] => r = s  BY RankInjective
  <2> HIDE DEF T, f
  <2> QED BY <2>2, <2>3 DEF Injection, IsInjective
<1>4. f \in Surjection(rows, T)
  <2> HIDE DEF T, f
  <2> QED BY <1>2, <1>3, FS_Injection
<1>5. n \in T  BY <1>1
<1> HIDE DEF T
<1> QED BY <1>4, <1>5 DEF Surjection

\* A page has no more rows than it may.
LEMMA SliceFits ==
    ASSUME rows \in SUBSET Nat, IsFiniteSet(rows), count \in Nat, size \in Nat \ {0},
           NEW n \in Nat, n >= 1
    PROVE  Slice(n) \in SUBSET rows /\ Cardinality(Slice(n)) <= size
<1> DEFINE bottom == (n - 1) * size
           top == IF n * size >= count THEN count ELSE n * size
           S == Slice(n)
           T == bottom..(top - 1)
           f == [r \in S |-> Rank(r)]
<1>1. bottom \in Nat /\ top \in Nat /\ n * size \in Nat /\ n * size = bottom + size
      BY Product
<1>2. top <= bottom + size  BY <1>1
<1>3. S = {r \in rows : Rank(r) >= bottom /\ Rank(r) < top}  BY DEF Slice
<1> HIDE DEF bottom, top
<1>4. IsFiniteSet(T) /\ Cardinality(T) <= size
  <2>1. bottom \in Int /\ top - 1 \in Int  BY <1>1
  <2>2. IsFiniteSet(T) /\ Cardinality(T) = IF bottom > top - 1 THEN 0 ELSE (top - 1) - bottom + 1
        BY <2>1, FS_Interval
  <2> QED BY <1>1, <1>2, <2>2
<1>5. f \in Injection(S, T)
  <2>1. ASSUME NEW r \in S PROVE Rank(r) \in T
    <3>1. Rank(r) \in Nat /\ Rank(r) >= bottom /\ Rank(r) < top  BY <1>3, Ranks
    <3> QED BY <1>1, <3>1
  <2>2. f \in [S -> T]
    <3> HIDE DEF S, T
    <3> QED BY <2>1
  <2>3. \A r, s \in S : f[r] = f[s] => r = s
    <3> SUFFICES ASSUME NEW r \in S, NEW s \in S, f[r] = f[s] PROVE r = s  OBVIOUS
    <3>1. r \in rows /\ s \in rows  BY <1>3
    <3>2. Rank(r) = Rank(s)  OBVIOUS
    <3> QED BY <3>1, <3>2, RankInjective
  <2> HIDE DEF S, T, f
  <2> QED BY <2>2, <2>3 DEF Injection, IsInjective
<1>6. Cardinality(S) <= Cardinality(T) /\ IsFiniteSet(S)
  <2> HIDE DEF S, T, f
  <2> QED BY <1>4, <1>5, FS_Injection
<1>7. Cardinality(S) \in Nat /\ Cardinality(T) \in Nat  BY <1>4, <1>6, FS_CardinalityType
<1>8. S \in SUBSET rows  BY <1>3
<1> HIDE DEF S, T
<1> QED BY <1>4, <1>6, <1>7, <1>8 DEF S

-----------------------------------------------------------------------------
(***************************************************************************)
(* The inductive invariant.                                                *)
(***************************************************************************)
N == Number(asked)

Reading == {"hasnext", "nextnum", "hasprev", "prevnum", "rows", "iterate"}

\* page_number has been read without an error.
After == pc \in Reading \/ Answered

\* The page had rows then, or there were none.
Intact == ~body.empty \/ count = 0

NextOf == IF N < NumPages THEN N + 1 ELSE 0

SomePage == [number : Nat, rows : {Unread} \cup SUBSET (1..newest)]

Typed ==
    /\ newest \in 0..MaxRow /\ rows \in SUBSET (1..newest)
    /\ pc \in Reading \cup {"idle", "count", "number", "answered"}
    /\ part \in {"body", "link", "again"}
    /\ size \in Nat \ {0} /\ asked \in Nat /\ query \in Nat /\ count \in Nat
    /\ page \in SomePage
    /\ body \in [page : Nat, next : Nat, prev : Nat, rows : SUBSET (1..newest),
                 of : Nat, empty : BOOLEAN]
    /\ link \in [next : Nat, prev : Nat]
    /\ walk \in [on : BOOLEAN, start : SUBSET (1..newest), seen : SUBSET (1..newest),
                 twice : BOOLEAN, deleted : BOOLEAN, empty : BOOLEAN]

\* The parts of the answer come in the order of Tell.
Ordered ==
    /\ pc \in {"count", "number"} => query = asked /\ part = "body"
    /\ pc \in {"rows", "iterate"} => part = "body"
    /\ Answered => part = "link"
    /\ pc = "prevnum" =>
        page.number > 1 /\ (page.rows \in {{}, Unread} => Number(query) > 1)
    /\ After /\ body.empty => walk.empty

\* An answer of one piece looks at one page all along.
OnePage ==
    After /\ Intact =>
        /\ body.page = N /\ page.number = N
        /\ ~body.empty => page.rows \notin {{}, Unread} /\ Cardinality(page.rows) <= size
        /\ body.empty => N = 1 /\ Number(query) = 1 /\ page.rows \in {{}, Unread}
        /\ pc = "nextnum" => N < NumPages
        /\ pc = "prevnum" => N > 1

\* What has been told of it so far.
Told ==
    After /\ Intact =>
        /\ part # "body" \/ pc \in {"hasprev", "prevnum", "rows", "iterate"} => body.next = NextOf
        /\ part # "body" \/ pc \in {"rows", "iterate"} => body.prev = N - 1
        /\ part # "body" => body.of = N /\ Cardinality(body.rows) <= size
        /\ part # "body" /\ pc \in {"hasprev", "prevnum", "answered"} => link.next = NextOf
        /\ Answered => link.prev = N - 1

\* No row was deleted, or at least no page was empty.
Good == ~walk.deleted \/ ~walk.empty

\* The number of pages shown.
Shown == IF part = "body" THEN N - 1 ELSE N

HasPage == pc \in Reading /\ part = "body" /\ ~body.empty

\* The rows shown are the first of the table, those of the page come next.
NeverTwice ==
    /\ walk.twice => walk.deleted /\ walk.empty
    /\ Good =>
        /\ After => Intact
        /\ \A r \in walk.seen \cap rows : Rank(r) < Shown * size
        /\ HasPage => /\ walk.seen \cap page.rows = {}
                      /\ \A r \in page.rows \cap rows : Rank(r) < N * size

\* As long as nothing is deleted every row of the start keeps its rank, and is
\* shown when its page is.
NoneMissed ==
    ~walk.deleted =>
        /\ pc \notin {"idle", "count"} => count <= Cardinality(rows)
        /\ walk.on =>
            /\ walk.start \subseteq rows
            /\ \A r \in walk.start :
                /\ Rank(r) < Shown * size => r \in walk.seen
                /\ pc \notin {"idle", "count"} => Rank(r) < count
                /\ HasPage /\ Rank(r) < N * size => r \in walk.seen \cup page.rows

IInv == Typed /\ Ordered /\ OnePage /\ Told /\ NeverTwice /\ NoneMissed

-----------------------------------------------------------------------------
\* What the operators return.
LEMMA Finite ==
    ASSUME Typed
    PROVE  rows \in SUBSET Nat /\ IsFiniteSet(rows) /\ newest \in Nat
<1>1. newest \in Nat  BY DEF Typed
<1>2. IsFiniteSet(1..newest)
  <2>1. 1 \in Int /\ newest \in Int  BY <1>1
  <2> QED BY <2>1, FS_Interval
<1>3. rows \in SUBSET (1..newest)  BY DEF Typed
<1>4. IsFiniteSet(rows)  BY <1>2, <1>3, FS_Subset
<1> QED BY <1>1, <1>3, <1>4

LEMMA NumberType ==
    ASSUME NEW q \in Nat
    PROVE  Number(q) \in Nat /\ Number(q) >= 1
BY DEF Number

LEMMA NType ==
    ASSUME Typed
    PROVE  N \in Nat /\ N >= 1 /\ N - 1 \in Nat /\ NumPages \in Nat
<1>1. asked \in Nat /\ count \in Nat /\ size \in Nat \ {0}  BY DEF Typed
<1> QED BY <1>1, NumberType, Pages DEF N

LEMMA ReadPage ==
    ASSUME Typed, NEW p \in SomePage
    PROVE  /\ Read(p) \in SomePage
           /\ Read(p).number = p.number
           /\ Read(p).rows \in SUBSET (1..newest) /\ Read(p).rows # Unread
           /\ p.rows # Unread => Read(p) = p
           /\ p.rows = Unread => Read(p).rows = Slice(p.number)
<1>1. Slice(p.number) \in SUBSET (1..newest)  BY DEF Slice, Typed
<1>2. \A s \in SUBSET (1..newest) : s # Unread
  <2>1. newest \in Nat /\ MaxRow \in Nat /\ newest <= MaxRow  BY DEF Typed
  <2>2. 1..newest \subseteq 1..MaxRow  BY <2>1
  <2> QED BY <2>2, PagingAssumption
<1>3. p.number \in Nat /\ p.rows \in {Unread} \cup SUBSET (1..newest)
      /\ p = [number |-> p.number, rows |-> p.rows]
      BY DEF SomePage
<1>4. CASE p.rows = Unread
  <2>1. Read(p) = [number |-> p.number, rows |-> Slice(p.number)]  BY <1>3, <1>4 DEF Read
  <2> QED BY <1>1, <1>2, <1>3, <1>4, <2>1 DEF SomePage
<1>5. CASE p.rows # Unread
  <2>1. Read(p) = p  BY <1>5 DEF Read
  <2> QED BY <1>2, <1>3, <1>5, <2>1
<1> QED BY <1>4, <1>5

LEMMA NewPageType ==
    ASSUME Typed
    PROVE  NewPage \in SomePage /\ NewPage.number = Number(query) /\ NewPage.rows = Unread
<1>1. query \in Nat  BY DEF Typed
<1> QED BY <1>1, NumberType DEF NewPage, SomePage

LEMMA FoundType ==
    ASSUME Typed
    PROVE  Found \in SomePage
<1>1. page \in SomePage  BY DEF Typed
<1> QED BY <1>1, ReadPage, NewPageType DEF Found

\* By a count of nothing no page has rows.
LEMMA EmptySlice ==
    ASSUME Typed, count = 0, NEW n \in Nat
    PROVE  Slice(n) = {}
<1>1. size \in Nat  BY DEF Typed
<1>2. n * size \in Nat  BY <1>1
<1>3. \A r \in rows : Rank(r) \in Nat  BY Finite, Ranks
<1>4. \A r \in rows : ~(Rank(r) < 0)  BY <1>3
<1> QED BY <1>2, <1>4 DEF Slice

\* An answer of one piece finds the page it has, or none of no rows.
LEMMA FoundSame ==
    ASSUME Typed, OnePage, pc \in Reading, Intact
    PROVE  /\ Found.number = N
           /\ ~body.empty => Found = page
           /\ body.empty => Found.rows \in {{}, Unread}
<1>1. After  BY DEF After
<1>2. page \in SomePage  BY DEF Typed
<1>3. CASE ~body.empty
  <2>1. page.rows \notin {{}, Unread} /\ page.number = N  BY <1>1, <1>3 DEF OnePage
  <2>2. Read(page) = page  BY <1>2, <2>1, ReadPage
  <2>3. page # NoPage
    <3>1. NoPage.rows = Unread  BY DEF NoPage
    <3> QED BY <2>1, <3>1
  <2>4. Found = page  BY <2>1, <2>2, <2>3 DEF Found
  <2> QED BY <1>3, <2>1, <2>4
<1>4. CASE body.empty
  <2>1. N = 1 /\ Number(query) = 1 /\ page.rows \in {{}, Unread} /\ page.number = N
        BY <1>1, <1>4 DEF OnePage
  <2>2. count = 0  BY <1>4 DEF Intact
  <2>3. page.number \in Nat  BY <1>2 DEF SomePage
  <2>4. Read(page).rows = {}
    <3>1. CASE page.rows = Unread  BY <1>2, <2>2, <2>3, <3>1, ReadPage, EmptySlice
    <3>2. CASE page.rows = {} /\ page.rows # Unread  BY <1>2, <3>2, ReadPage
    <3> QED BY <2>1, <3>1, <3>2
  <2>5. Found = NewPage  BY <2>4 DEF Found
  <2> QED BY <1>4, <2>1, <2>5, NewPageType
<1> QED BY <1>3, <1>4

-----------------------------------------------------------------------------
(***************************************************************************)
(* The steps that look at the page and tell something of it.               *)
(***************************************************************************)
SomeBody ==
    [page : Nat, next : Nat, prev : Nat, rows : SUBSET (1..newest), of : Nat, empty : BOOLEAN]
SomeLink == [next : Nat, prev : Nat]

LEMMA TellNext ==
    ASSUME Typed, NEW n \in Nat, Tell("next", n, "hasprev")
    PROVE  /\ body' \in SomeBody /\ body' = [body EXCEPT !.next = body'.next]
           /\ link' \in SomeLink /\ link'.prev = link.prev
           /\ part' \in {"body", "link", "again"} /\ (part' = "body" <=> part = "body")
           /\ status' = status
           /\ part = "body" => body'.next = n /\ pc' = "hasprev"
           /\ part # "body" => body' = body
           /\ part # "body" /\ pc' # "hasnext" =>
                 part' = "link" /\ link'.next = n /\ pc' = "hasprev"
<1> USE DEF SomeBody, SomeLink
<1>1. CASE part = "body"
  <2>1. body' = [body EXCEPT !["next"] = n] /\ pc' = "hasprev" /\ UNCHANGED <<part, link, status>>
        BY <1>1 DEF Tell
  <2>2. body \in SomeBody /\ link \in SomeLink  BY DEF Typed
  <2>3. body'.next = n /\ body' \in SomeBody  BY <2>1, <2>2
  <2>4. body' = [body EXCEPT !.next = body'.next]  BY <2>1, <2>3
  <2> QED BY <1>1, <2>1, <2>2, <2>3, <2>4
<1>2. CASE part = "link" /\ n # 0  BY <1>2 DEF Tell, Typed
<1>3. CASE part = "again" \/ (part = "link" /\ n = 0)
  <2>1. link' = [link EXCEPT !["next"] = n] /\ part' = "link" /\ body' = body
        BY <1>3 DEF Tell
  <2>2. pc' = "hasprev" /\ status' = status
        BY <1>3 DEF Tell
  <2>3. body \in SomeBody /\ link \in SomeLink  BY DEF Typed
  <2>4. link'.next = n /\ link'.prev = link.prev /\ link' \in SomeLink  BY <2>1, <2>3
  <2>5. body' = [body EXCEPT !.next = body'.next]  BY <2>1, <2>3
  <2> QED BY <1>3, <2>1, <2>2, <2>3, <2>4, <2>5
<1> QED BY <1>1, <1>2, <1>3 DEF Typed

LEMMA TellPrev ==
    ASSUME Typed, NEW n \in Nat, Tell("prev", n, "rows")
    PROVE  /\ body' \in SomeBody /\ body' = [body EXCEPT !.prev = body'.prev]
           /\ link' \in SomeLink /\ link'.next = link.next
           /\ part' \in {"body", "link", "again"} /\ (part' = "body" <=> part = "body")
           /\ part = "body" => body'.prev = n /\ pc' = "rows" /\ status' = status
           /\ part # "body" => body' = body
           /\ part # "body" /\ pc' # "hasprev" =>
                 /\ part' = "link" /\ link'.prev = n /\ pc' = "answered" /\ status' = 200
           /\ pc' = "hasprev" => status' = status
<1> USE DEF SomeBody, SomeLink
<1>1. CASE part = "body"
  <2>1. body' = [body EXCEPT !["prev"] = n] /\ pc' = "rows" /\ UNCHANGED <<part, link, status>>
        BY <1>1 DEF Tell
  <2>2. body \in SomeBody /\ link \in SomeLink  BY DEF Typed
  <2>3. body'.prev = n /\ body' \in SomeBody  BY <2>1, <2>2
  <2>4. body' = [body EXCEPT !.prev = body'.prev]  BY <2>1, <2>3
  <2> QED BY <1>1, <2>1, <2>2, <2>3, <2>4
<1>2. CASE part = "link" /\ n # 0  BY <1>2 DEF Tell, Typed
<1>3. CASE part = "again" \/ (part = "link" /\ n = 0)
  <2>1. link' = [link EXCEPT !["prev"] = n] /\ part' = "link" /\ body' = body
        BY <1>3 DEF Tell
  <2>2. pc' = "answered" /\ status' = 200
        BY <1>3 DEF Tell
  <2>3. body \in SomeBody /\ link \in SomeLink  BY DEF Typed
  <2>4. link'.prev = n /\ link'.next = link.next /\ link' \in SomeLink  BY <2>1, <2>3
  <2>5. body' = [body EXCEPT !.prev = body'.prev]  BY <2>1, <2>3
  <2> QED BY <1>3, <2>1, <2>2, <2>3, <2>4, <2>5
<1> QED BY <1>1, <1>2, <1>3 DEF Typed

\* The page that has_previous was asked of is found again.
LEMMA FoundAgain ==
    ASSUME Typed, Ordered, pc = "prevnum"
    PROVE  Found.number \in Nat /\ Found.number > 1
<1>1. page \in SomePage /\ page.number > 1 /\ (page.rows \in {{}, Unread} => Number(query) > 1)
      BY DEF Typed, Ordered
<1>2. Read(page).number = page.number /\ (page.rows # Unread => Read(page) = page)
      BY <1>1, ReadPage
<1>3. page # NoPage  BY <1>1 DEF NoPage
<1>4. Found \in SomePage  BY FoundType
<1>5. CASE Read(page).rows = {}
  <2>1. Found = NewPage /\ page.rows \in {{}, Unread}  BY <1>2, <1>5 DEF Found
  <2> QED BY <1>1, <1>4, <2>1, NewPageType DEF SomePage
<1>6. CASE Read(page).rows # {}
  <2>1. Found = Read(page)  BY <1>3, <1>6 DEF Found
  <2> QED BY <1>1, <1>2, <1>4, <2>1 DEF SomePage
<1> QED BY <1>5, <1>6

Looks == HasNext \/ NextNum \/ HasPrev \/ PrevNum \/ Resources

\* What they have in common.
LEMMA Look ==
    ASSUME Typed, Ordered, Looks
    PROVE  /\ UNCHANGED <<rows, newest, size, asked, count, walk>>
           /\ page' = Found /\ query' \in Nat
           /\ body' \in SomeBody /\ link' \in SomeLink
           /\ body'.page = body.page /\ body'.rows = body.rows /\ body'.of = body.of
           /\ body'.empty = body.empty
           /\ part' \in {"body", "link", "again"} /\ (part' = "body" <=> part = "body")
           /\ pc \in Reading
           /\ pc' \in Reading \/ (pc' = "answered" /\ status' = 200 /\ part' = "link")
           /\ pc' = "rows" \/ pc' = "iterate" => part' = "body"
<1>0. /\ body \in SomeBody /\ link \in SomeLink /\ query \in Nat
      /\ Found \in SomePage /\ Found.number \in Nat
  <2>1. body \in SomeBody /\ link \in SomeLink /\ query \in Nat  BY DEF Typed, SomeBody, SomeLink
  <2>2. Found \in SomePage  BY FoundType
  <2> QED BY <2>1, <2>2 DEF SomePage
<1>1. CASE HasNext
  <2>1. CASE Found.number < NumPages
        BY <1>0, <1>1, <2>1 DEF HasNext, table, Typed, Reading
  <2>2. CASE ~(Found.number < NumPages)
    <3>1. Tell("next", 0, "hasprev") /\ page' = Found /\ pc = "hasnext"
          /\ UNCHANGED <<rows, newest, size, asked, query, count, walk>>
          BY <1>1, <2>2 DEF HasNext, table
    <3>2. pc' \in {"hasprev", "hasnext"}  BY <3>1, TellNext
    <3> QED BY <1>0, <3>1, <3>2, TellNext DEF Reading, SomeBody
  <2> QED BY <2>1, <2>2
<1>2. CASE NextNum
  <2>1. Tell("next", Found.number + 1, "hasprev") /\ page' = Found /\ pc = "nextnum"
        /\ query' = Found.number + 1
        /\ UNCHANGED <<rows, newest, size, asked, count, walk>>
        BY <1>2 DEF NextNum, table
  <2>2. Found.number + 1 \in Nat  BY <1>0
  <2>3. pc' \in {"hasprev", "hasnext"}  BY <2>1, <2>2, TellNext
  <2> QED BY <1>0, <2>1, <2>2, <2>3, TellNext DEF Reading, SomeBody
<1>3. CASE HasPrev
  <2>1. CASE Found.number > 1
        BY <1>0, <1>3, <2>1 DEF HasPrev, table, Typed, Reading
  <2>2. CASE ~(Found.number > 1)
    <3>1. Tell("prev", 0, "rows") /\ page' = Found /\ pc = "hasprev"
          /\ UNCHANGED <<rows, newest, size, asked, query, count, walk>>
          BY <1>3, <2>2 DEF HasPrev, table
    <3>2. pc' \in {"rows", "hasprev", "answered"}  BY <3>1, TellPrev DEF Typed
    <3>3. pc' = "rows" => part' = "body"  BY <3>1, TellPrev
    <3>4. pc' = "answered" => status' = 200 /\ part' = "link"  BY <3>1, TellPrev
    <3> QED BY <1>0, <3>1, <3>2, <3>3, <3>4, TellPrev DEF Reading, SomeBody
  <2> QED BY <2>1, <2>2
<1>4. CASE PrevNum
  <2>1. Tell("prev", Found.number - 1, "rows") /\ page' = Found /\ pc = "prevnum"
        /\ query' = (IF Found.number = 2 THEN 0 ELSE Found.number - 1)
        /\ UNCHANGED <<rows, newest, size, asked, count, walk>>
        BY <1>4 DEF PrevNum, table
  <2>2. Found.number - 1 \in Nat /\ query' \in Nat  BY <2>1, FoundAgain
  <2>3. pc' \in {"rows", "hasprev", "answered"}  BY <2>1, <2>2, TellPrev DEF Typed
  <2>4. pc' = "rows" => part' = "body"  BY <2>1, <2>2, TellPrev
  <2>5. pc' = "answered" => status' = 200 /\ part' = "link"  BY <2>1, <2>2, TellPrev
  <2> QED BY <1>0, <2>1, <2>2, <2>3, <2>4, <2>5, TellPrev DEF Reading, SomeBody
<1>5. CASE Resources
      BY <1>0, <1>5 DEF Resources, table, Typed, Ordered, Reading
<1> QED BY <1>1, <1>2, <1>3, <1>4, <1>5 DEF Looks

-----------------------------------------------------------------------------
\* Every step keeps the types.
LEMMA OpenTypes ==
    ASSUME Typed, NEW n \in Nat, Open(n),
           size' \in Nat \ {0},
           walk' \in [on : BOOLEAN, start : SUBSET (1..newest), seen : SUBSET (1..newest),
                     twice : BOOLEAN, deleted : BOOLEAN, empty : BOOLEAN]
    PROVE  Typed' /\ Ordered'
<1>1. /\ pc' = "count" /\ part' = "body" /\ asked' = n /\ query' = n /\ count' = 0
      /\ page' = NoPage /\ body' = NoBody /\ link' = NoLink
      /\ rows' = rows /\ newest' = newest
      BY DEF Open, table
<1>2. NoPage \in SomePage /\ NoBody \in SomeBody /\ NoLink \in SomeLink
      BY DEF NoPage, NoBody, NoLink, SomePage, SomeBody, SomeLink
<1>3. Typed'
      BY <1>1, <1>2 DEF Typed, SomePage, SomeBody, SomeLink
<1>4. Ordered'  BY <1>1 DEF Ordered, After, Answered, Reading
<1> QED BY <1>3, <1>4

LEMMA TypedStep ==
    ASSUME Typed, Ordered, [Next]_vars
    PROVE  Typed' /\ Ordered'
<1>0. /\ newest \in 0..MaxRow /\ rows \in SUBSET (1..newest)
      /\ page \in SomePage /\ body \in SomeBody /\ link \in SomeLink
      BY DEF Typed, SomeBody, SomeLink
<1>1. ASSUME NEW n \in Numbers, NEW m \in PageSizes, Start(n, m) PROVE Typed' /\ Ordered'
  <2>1. n \in Nat /\ m \in Nat \ {0}  BY PagingAssumption
  <2>2. Open(n) /\ size' = m
        /\ walk' = [on |-> Number(n) = 1, start |-> rows, seen |-> {}, twice |-> FALSE,
                    deleted |-> FALSE, empty |-> FALSE]
        BY <1>1 DEF Start
  <2>3. walk' \in [on : BOOLEAN, start : SUBSET (1..newest), seen : SUBSET (1..newest),
                  twice : BOOLEAN, deleted : BOOLEAN, empty : BOOLEAN]
        BY <1>0, <2>2
  <2> QED BY <2>1, <2>2, <2>3, OpenTypes
<1>2. CASE Follow
  <2>1. Open(body.next) /\ size' = size /\ walk' = walk  BY <1>2 DEF Follow
  <2>2. body.next \in Nat  BY <1>0 DEF SomeBody
  <2> QED BY <2>1, <2>2, OpenTypes DEF Typed
<1>3. CASE Done
  <2>1. /\ UNCHANGED <<rows, newest, pc, part, size, asked, query, count, page, body, link, status>>
        /\ walk' = [walk EXCEPT !.on = FALSE]
        BY <1>3 DEF Done, table
  <2>2. Typed'  BY <2>1 DEF Typed, SomePage
  <2>3. Ordered'  BY <2>1 DEF Typed, Ordered, After, Answered, Number
  <2> QED BY <2>2, <2>3
<1>4. CASE Count
  <2>1. /\ UNCHANGED <<rows, newest, part, size, asked, query, page, body, link, status, walk>>
        /\ pc = "count" /\ pc' = "number" /\ count' = Cardinality(rows)
        BY <1>4 DEF Count, table
  <2>2. count' \in Nat  BY <2>1, Finite, Ranks
  <2>3. Typed'  BY <2>1, <2>2 DEF Typed, SomePage
  <2>4. Ordered'  BY <2>1 DEF Ordered, After, Answered, Reading
  <2> QED BY <2>3, <2>4
<1>5. CASE PageNumber
  <2> DEFINE p == Read(NewPage)
  <2>1. /\ UNCHANGED <<rows, newest, part, size, asked, query, count, link, status>>
        /\ pc = "number" /\ pc' = "hasnext" /\ page' = p
        /\ body' = [body EXCEPT !.page = IF p.rows = {} THEN 1 ELSE p.number,
                                !.empty = p.rows = {}]
        /\ walk' = [walk EXCEPT !.empty = @ \/ p.rows = {}]
        BY <1>5 DEF PageNumber, table
  <2>2. p \in SomePage /\ p.number \in Nat  BY NewPageType, ReadPage DEF SomePage
  <2> HIDE DEF p
  <2>3. body' \in SomeBody  BY <1>0, <2>1, <2>2 DEF SomeBody
  <2>4. Typed'  BY <2>1, <2>2, <2>3 DEF Typed, SomePage, SomeBody, Reading
  <2>5. body'.empty => walk'.empty  BY <1>0, <2>1 DEF SomeBody, Typed
  <2>6. Ordered'  BY <2>1, <2>5 DEF Ordered, After, Answered, Reading
  <2> QED BY <2>4, <2>6
<1>6. CASE BadPage
  <2>1. /\ UNCHANGED <<rows, newest, part, size, asked, query, count, page, body, link, walk>>
        /\ pc' = "answered" /\ status' = 400
        BY <1>6 DEF BadPage, table
  <2>2. Typed'  BY <2>1 DEF Typed, SomePage
  <2>3. Ordered'  BY <2>1 DEF Ordered, After, Answered, Reading
  <2> QED BY <2>2, <2>3
<1>7. CASE Looks
  <2>1. Typed'
    <3>1. Found \in SomePage  BY FoundType
    <3> QED BY <1>7, <3>1, Look, ZenonT(30) DEF Typed, SomePage, SomeBody, SomeLink, Reading
  <2>2. pc' = "prevnum" =>
            page'.number > 1 /\ (page'.rows \in {{}, Unread} => Number(query') > 1)
    <3> SUFFICES ASSUME pc' = "prevnum"
                 PROVE  page'.number > 1 /\ (page'.rows \in {{}, Unread} => Number(query') > 1)
        OBVIOUS
    <3>0. Found \in SomePage /\ Found.number \in Nat  BY FoundType DEF SomePage
    <3>1. HasPrev /\ Found.number > 1 /\ page' = Found /\ query' = query
      <4>1. ~HasNext
        <5> SUFFICES ASSUME HasNext PROVE FALSE  OBVIOUS
        <5>1. CASE Found.number < NumPages  BY <5>1 DEF HasNext
        <5>2. CASE ~(Found.number < NumPages)
              BY <5>2, TellNext DEF HasNext
        <5> QED BY <5>1, <5>2
      <4>2. ~NextNum
        <5> SUFFICES ASSUME NextNum PROVE FALSE  OBVIOUS
        <5>1. Found.number + 1 \in Nat  BY <3>0
        <5> QED BY <5>1, TellNext DEF NextNum
      <4>3. ~PrevNum
        <5> SUFFICES ASSUME PrevNum PROVE FALSE  OBVIOUS
        <5>1. pc = "prevnum"  BY DEF PrevNum
        <5>2. Found.number - 1 \in Nat  BY <5>1, FoundAgain
        <5> QED BY <5>2, TellPrev DEF PrevNum, Typed
      <4>4. ~Resources  BY DEF Resources
      <4>5. HasPrev  BY <1>7, <4>1, <4>2, <4>3, <4>4 DEF Looks
      <4>6. CASE ~(Found.number > 1)  BY <4>5, <4>6, TellPrev DEF HasPrev, Typed
      <4> QED BY <4>5, <4>6 DEF HasPrev
    <3>2. page \in SomePage  BY DEF Typed
    <3>3. CASE Found = NewPage  BY <3>1, <3>3, NewPageType DEF Number
    <3>4. CASE Found = Read(page) /\ Read(page).rows # {}
          BY <3>1, <3>2, <3>4, ReadPage
    <3> QED BY <3>3, <3>4 DEF Found
  <2>3. Ordered'
    <3>1. After  BY <1>7, Look DEF After
    <3> QED BY <1>7, <2>2, <3>1, Look DEF Ordered, After, Answered, Number, Reading
  <2> QED BY <2>1, <2>3
<1>8. CASE Iterate
  <2> DEFINE p == Read(page)
  <2>1. /\ UNCHANGED <<rows, newest, size, asked, query, count, link, status>>
        /\ pc = "iterate" /\ pc' = "hasnext" /\ part' = "link" /\ page' = p
        /\ body' = [body EXCEPT !.rows = p.rows, !.of = p.number]
        /\ walk' = [walk EXCEPT !.twice = @ \/ walk.seen \cap p.rows # {}, !.seen = @ \cup p.rows]
        BY <1>8 DEF Iterate, table
  <2>2. p \in SomePage /\ p.number \in Nat /\ p.rows \in SUBSET (1..newest)
        BY <1>0, ReadPage DEF SomePage
  <2> HIDE DEF p
  <2>3. body' \in SomeBody  BY <1>0, <2>1, <2>2 DEF SomeBody
  <2>4. walk'.empty = walk.empty /\ body'.empty = body.empty  BY <1>0, <2>1 DEF Typed, SomeBody
  <2>5. walk' \in [on : BOOLEAN, start : SUBSET (1..newest), seen : SUBSET (1..newest),
                  twice : BOOLEAN, deleted : BOOLEAN, empty : BOOLEAN]
        BY <2>1, <2>2 DEF Typed
  <2>6. Typed'  BY <2>1, <2>2, <2>3, <2>5 DEF Typed, SomePage, SomeBody, Reading
  <2>7. Ordered'  BY <2>1, <2>4 DEF Ordered, After, Answered, Reading
  <2> QED BY <2>6, <2>7
<1>9. CASE Insert
  <2>1. /\ UNCHANGED <<pc, part, size, asked, query, count, page, body, link, status, walk>>
        /\ newest < MaxRow /\ newest' = newest + 1 /\ rows' = rows \cup {newest + 1}
        BY <1>9 DEF Insert
  <2>2. newest' \in 0..MaxRow /\ 1..newest \subseteq 1..newest' /\ newest + 1 \in 1..newest'
        BY <1>0, <2>1
  <2>3. rows' \in SUBSET (1..newest')  BY <1>0, <2>1, <2>2
  <2>4. SUBSET (1..newest) \subseteq SUBSET (1..newest')  BY <2>2
  <2>5. page' \in SomePage' /\ body' \in SomeBody'
    <3>1. SomePage' = [number : Nat, rows : {Unread} \cup SUBSET (1..newest')]  BY DEF SomePage
    <3>2. SomeBody' = [page : Nat, next : Nat, prev : Nat, rows : SUBSET (1..newest'),
                       of : Nat, empty : BOOLEAN]  BY DEF SomeBody
    <3> QED BY <1>0, <2>1, <2>4, <3>1, <3>2 DEF SomePage, SomeBody
  <2>6. walk' \in [on : BOOLEAN, start : SUBSET (1..newest'), seen : SUBSET (1..newest'),
                  twice : BOOLEAN, deleted : BOOLEAN, empty : BOOLEAN]
        BY <2>1, <2>4 DEF Typed
  <2>7. Typed'  BY <2>1, <2>2, <2>3, <2>5, <2>6 DEF Typed, SomeBody
  <2>8. Ordered'  BY <2>1 DEF Ordered, After, Answered, Number
  <2> QED BY <2>7, <2>8
<1>10. ASSUME NEW r \in 1..MaxRow, Delete(r) PROVE Typed' /\ Ordered'
  <2>1. /\ UNCHANGED <<newest, pc, part, size, asked, query, count, page, body, link, status>>
        /\ rows' = rows \ {r} /\ walk' = [walk EXCEPT !.deleted = TRUE]
        BY <1>10 DEF Delete
  <2>2. Typed'  BY <2>1 DEF Typed, SomePage
  <2>3. walk'.empty = walk.empty  BY <2>1 DEF Typed
  <2>4. Ordered'  BY <2>1, <2>3 DEF Ordered, After, Answered, Number
  <2> QED BY <2>2, <2>4
<1>11. CASE UNCHANGED vars
  <2>1. Typed'  BY <1>11 DEF vars, Typed, SomePage
  <2>2. Ordered'  BY <1>11 DEF vars, Ordered, After, Answered, Number
  <2> QED BY <2>1, <2>2
<1> QED
    BY <1>1, <1>2, <1>3, <1>4, <1>5, <1>6, <1>7, <1>8, <1>9, <1>10, <1>11
    DEF Next, Answer, Looks

-----------------------------------------------------------------------------
\* Every step keeps the answer of one piece.
LEMMA OnePageLooks ==
    ASSUME Typed, Ordered, OnePage, Told, Looks
    PROVE  OnePage' /\ Told'
<1>0. /\ UNCHANGED <<rows, newest, size, asked, count, walk>> /\ page' = Found
      /\ body' \in SomeBody /\ link' \in SomeLink
      /\ body'.page = body.page /\ body'.rows = body.rows /\ body'.of = body.of
      /\ body'.empty = body.empty
      /\ part' \in {"body", "link", "again"} /\ (part' = "body" <=> part = "body")
      /\ pc \in Reading
      BY Look
<1>1. N' = N /\ NumPages' = NumPages /\ NextOf' = NextOf /\ (Intact' <=> Intact)
      BY <1>0 DEF N, Number, NumPages, NextOf, Intact
<1> SUFFICES ASSUME Intact PROVE OnePage' /\ Told'
    BY <1>1 DEF OnePage, Told
<1>2. After  BY <1>0 DEF After
<1>3. /\ Found.number = N
      /\ ~body.empty => Found = page
      /\ body.empty => Found.rows \in {{}, Unread}
      BY <1>0, FoundSame
<1>4. N \in Nat /\ N >= 1 /\ N - 1 \in Nat /\ NumPages \in Nat  BY NType
<1>5. body.empty => N = 1 /\ NumPages = 1 /\ Number(query) = 1
  <2>1. body.empty => N = 1 /\ count = 0 /\ Number(query) = 1
        BY <1>2 DEF OnePage, Intact
  <2> QED BY <2>1 DEF NumPages
<1>6. ASSUME body.empty => Number(query') = 1, pc' = "nextnum" => N < NumPages, pc' = "prevnum" => N > 1
      PROVE  OnePage'
  <2>1. body.page = N /\ (~body.empty => page.rows \notin {{}, Unread} /\ Cardinality(page.rows) <= size)
        BY <1>2 DEF OnePage
  <2>2. Number(query)' = Number(query')  BY DEF Number
  <2> QED BY <1>0, <1>1, <1>3, <1>5, <1>6, <2>1, <2>2 DEF OnePage
<1>7. /\ part # "body" \/ pc \in {"hasprev", "prevnum", "rows", "iterate"} => body.next = NextOf
      /\ part # "body" \/ pc \in {"rows", "iterate"} => body.prev = N - 1
      /\ part # "body" => body.of = N /\ Cardinality(body.rows) <= size
      /\ part # "body" /\ pc \in {"hasprev", "prevnum"} => link.next = NextOf
      BY <1>2 DEF Told
<1>8. /\ pc = "nextnum" => N < NumPages
      /\ pc = "prevnum" => N > 1
      BY <1>2 DEF OnePage
<1>9. body \in SomeBody /\ link \in SomeLink  BY DEF Typed, SomeBody, SomeLink
<1> HIDE DEF Typed, Ordered, OnePage
<1>10. CASE HasNext
  <2>0. pc = "hasnext" /\ query' = query  BY <1>10 DEF HasNext
  <2>1. CASE N < NumPages
    <3>1. pc' = "nextnum" /\ UNCHANGED <<body, link, part, status>>
          BY <1>3, <1>10, <2>1 DEF HasNext
    <3>2. OnePage'  BY <1>5, <1>6, <2>0, <2>1, <3>1 DEF Number
    <3>3. Told'  BY <1>0, <1>1, <1>7, <2>0, <3>1 DEF Told, Answered
    <3> QED BY <3>2, <3>3
  <2>2. CASE ~(N < NumPages)
    <3>1. Tell("next", 0, "hasprev")  BY <1>3, <1>10, <2>2 DEF HasNext
    <3>2. NextOf = 0  BY <2>2 DEF NextOf
    <3>3. pc' \in {"hasnext", "hasprev"}  BY <3>1, TellNext
    <3>4. OnePage'  BY <1>5, <1>6, <2>0, <3>3 DEF Number
    <3>5. Told'  BY <1>0, <1>1, <1>7, <1>9, <2>0, <3>1, <3>2, <3>3, TellNext DEF Told, Answered, SomeBody
    <3> QED BY <3>4, <3>5
  <2> QED BY <2>1, <2>2
<1>11. CASE NextNum
  <2>0. pc = "nextnum" /\ Tell("next", N + 1, "hasprev") /\ N + 1 \in Nat
        BY <1>3, <1>4, <1>11 DEF NextNum
  <2>1. NextOf = N + 1 /\ ~body.empty  BY <1>5, <1>8, <2>0 DEF NextOf
  <2>2. pc' \in {"hasnext", "hasprev"}  BY <2>0, TellNext
  <2>3. OnePage'  BY <1>6, <2>1, <2>2
  <2>4. Told'  BY <1>0, <1>1, <1>7, <1>9, <2>0, <2>1, <2>2, TellNext DEF Told, Answered, SomeBody
  <2> QED BY <2>3, <2>4
<1>12. CASE HasPrev
  <2>0. pc = "hasprev" /\ query' = query  BY <1>12 DEF HasPrev
  <2>1. CASE N > 1
    <3>1. pc' = "prevnum" /\ UNCHANGED <<body, link, part, status>>
          BY <1>3, <1>12, <2>1 DEF HasPrev
    <3>2. OnePage'  BY <1>5, <1>6, <2>0, <2>1, <3>1 DEF Number
    <3>3. Told'  BY <1>0, <1>1, <1>7, <2>0, <3>1 DEF Told, Answered
    <3> QED BY <3>2, <3>3
  <2>2. CASE ~(N > 1)
    <3>1. Tell("prev", 0, "rows")  BY <1>3, <1>12, <2>2 DEF HasPrev
    <3>2. N - 1 = 0  BY <1>4, <2>2
    <3>3. pc' \in {"rows", "hasprev", "answered"}  BY <3>1, TellPrev
    <3>4. OnePage'  BY <1>5, <1>6, <2>0, <3>3 DEF Number
    <3>5. Told'  BY <1>0, <1>1, <1>7, <1>9, <2>0, <3>1, <3>2, <3>3, TellPrev DEF Told, Answered, SomeBody
    <3> QED BY <3>4, <3>5
  <2> QED BY <2>1, <2>2
<1>13. CASE PrevNum
  <2>0. pc = "prevnum" /\ Tell("prev", N - 1, "rows")  BY <1>3, <1>13 DEF PrevNum
  <2>1. ~body.empty  BY <1>5, <1>8, <2>0
  <2>2. pc' \in {"rows", "hasprev", "answered"}  BY <1>4, <2>0, TellPrev
  <2>3. OnePage'  BY <1>6, <2>1, <2>2
  <2>4. Told'  BY <1>0, <1>1, <1>4, <1>7, <1>9, <2>0, <2>2, TellPrev DEF Told, Answered, SomeBody
  <2> QED BY <2>3, <2>4
<1>14. CASE Resources
  <2>0. pc = "rows" /\ pc' = "iterate" /\ UNCHANGED <<part, query, body, link, status>>
        BY <1>14 DEF Resources
  <2>1. OnePage'  BY <1>5, <1>6, <2>0 DEF Number
  <2>2. Told'  BY <1>0, <1>1, <1>7, <2>0 DEF Told, Answered
  <2> QED BY <2>1, <2>2
<1> QED BY <1>10, <1>11, <1>12, <1>13, <1>14 DEF Looks

LEMMA OnePageStep ==
    ASSUME Typed, Ordered, OnePage, Told, [Next]_vars
    PROVE  OnePage' /\ Told'
<1>0. /\ page \in SomePage /\ body \in SomeBody /\ link \in SomeLink
      /\ count \in Nat /\ size \in Nat \ {0} /\ query \in Nat /\ asked \in Nat
      /\ N \in Nat /\ N >= 1
      BY NType DEF Typed, SomeBody, SomeLink
<1>1. ASSUME NEW n, Open(n) PROVE OnePage' /\ Told'
  <2>1. pc' = "count"  BY <1>1 DEF Open
  <2>2. ~After'  BY <2>1 DEF After, Answered, Reading
  <2> QED BY <2>2 DEF OnePage, Told
<1>2. CASE Done \/ Insert \/ (\E r \in 1..MaxRow : Delete(r)) \/ UNCHANGED vars
  <2>1. UNCHANGED <<pc, part, size, asked, query, count, page, body, link, status>>
        BY <1>2 DEF Done, Insert, Delete, vars
  <2>2. N' = N /\ NumPages' = NumPages /\ NextOf' = NextOf
        /\ (Intact' <=> Intact) /\ (After' <=> After) /\ (Answered' <=> Answered)
        /\ Number(query)' = Number(query)
        BY <2>1 DEF N, Number, NumPages, NextOf, Intact, After, Answered
  <2>3. OnePage'  BY <2>1, <2>2 DEF OnePage
  <2>4. Told'  BY <2>1, <2>2 DEF Told
  <2> QED BY <2>3, <2>4
<1>3. CASE Count
  <2>1. ~After'  BY <1>3 DEF Count, After, Answered, Reading
  <2> QED BY <2>1 DEF OnePage, Told
<1>4. CASE PageNumber
  <2> DEFINE p == Read(NewPage)
  <2>1. /\ UNCHANGED <<rows, newest, part, size, asked, query, count, link, status>>
        /\ pc = "number" /\ Valid(query) /\ pc' = "hasnext" /\ page' = p
        /\ body' = [body EXCEPT !.page = IF p.rows = {} THEN 1 ELSE p.number,
                                !.empty = p.rows = {}]
        BY <1>4 DEF PageNumber, table
  <2>2. query = asked /\ part = "body"  BY <2>1 DEF Ordered
  <2>3. Number(query) = N  BY <2>2 DEF N
  <2>4. p.number = N /\ p.rows = Slice(N) /\ p.rows # Unread
        BY <2>3, NewPageType, ReadPage
  <2>5. Cardinality(p.rows) <= size  BY <1>0, <2>4, Finite, SliceFits
  <2>6. count = 0 => N = 1
    <3>1. count = 0 => NumPages = 1  BY DEF NumPages
    <3> QED BY <1>0, <2>1, <2>3, <3>1 DEF Valid
  <2> HIDE DEF p
  <2>7. body'.page = (IF p.rows = {} THEN 1 ELSE N) /\ body'.empty = (p.rows = {})
        BY <1>0, <2>1, <2>4 DEF SomeBody
  <2>8. N' = N /\ Number(query)' = N  BY <2>1, <2>3 DEF N, Number
  <2>9. OnePage'
    <3>1. SUFFICES ASSUME Intact'
                   PROVE  /\ body'.page = N /\ page'.number = N
                          /\ ~body'.empty => page'.rows \notin {{}, Unread} /\ Cardinality(page'.rows) <= size'
                          /\ body'.empty => N = 1 /\ page'.rows \in {{}, Unread}
          BY <2>1, <2>8 DEF OnePage
    <3>2. p.rows = {} => N = 1  BY <2>1, <2>6, <2>7, <3>1 DEF Intact
    <3> QED BY <2>1, <2>4, <2>5, <2>7, <3>2
  <2>10. Told'  BY <2>1, <2>2 DEF Told, Answered
  <2> QED BY <2>9, <2>10
<1>5. CASE BadPage
  <2>1. ~After'  BY <1>5 DEF BadPage, After, Answered, Reading
  <2> QED BY <2>1 DEF OnePage, Told
<1>6. CASE Iterate
  <2> DEFINE p == Read(page)
  <2>1. /\ UNCHANGED <<rows, newest, size, asked, query, count, link, status>>
        /\ pc = "iterate" /\ pc' = "hasnext" /\ part' = "link" /\ page' = p
        /\ body' = [body EXCEPT !.rows = p.rows, !.of = p.number]
        BY <1>6 DEF Iterate, table
  <2>2. N' = N /\ NumPages' = NumPages /\ NextOf' = NextOf /\ Number(query)' = Number(query)
        BY <2>1 DEF N, Number, NumPages, NextOf
  <2>3. p \in SomePage /\ p.number = page.number /\ p.rows # Unread
        /\ (page.rows # Unread => p = page)
        BY <1>0, ReadPage
  <2>4. page.rows = Unread => p.rows = Slice(page.number)  BY <1>0, ReadPage
  <2> HIDE DEF p
  <2>5. /\ body'.page = body.page /\ body'.next = body.next /\ body'.prev = body.prev
        /\ body'.empty = body.empty /\ body'.rows = p.rows /\ body'.of = p.number
        BY <1>0, <2>1 DEF SomeBody
  <2>6. Intact' <=> Intact  BY <2>1, <2>5 DEF Intact
  <2> SUFFICES ASSUME Intact PROVE OnePage' /\ Told'  BY <2>6 DEF OnePage, Told
  <2>7. After  BY <2>1 DEF After, Reading
  <2>8. /\ body.page = N /\ page.number = N
        /\ ~body.empty => page.rows \notin {{}, Unread} /\ Cardinality(page.rows) <= size
        /\ body.empty => N = 1 /\ Number(query) = 1 /\ page.rows \in {{}, Unread}
        BY <2>7 DEF OnePage
  <2>9. body.next = NextOf /\ body.prev = N - 1  BY <2>1, <2>7 DEF Told
  <2>10. body.empty => p.rows = {}
    <3> SUFFICES ASSUME body.empty PROVE p.rows = {}  OBVIOUS
    <3>1. count = 0  BY DEF Intact
    <3>2. Slice(page.number) = {}  BY <1>0, <2>8, <3>1, EmptySlice
    <3> QED BY <2>3, <2>4, <2>8, <3>2
  <2>11. ~body.empty => p = page  BY <2>3, <2>8
  <2>12. Cardinality(p.rows) <= size
    <3>1. CASE body.empty
      <4>1. Cardinality(p.rows) = 0  BY <2>10, <3>1, FS_EmptySet
      <4> QED BY <1>0, <4>1
    <3>2. CASE ~body.empty  BY <2>8, <2>11, <3>2
    <3> QED BY <3>1, <3>2
  <2>13. OnePage'
    <3>1. body.empty => page'.rows \in {{}, Unread}  BY <2>1, <2>10
    <3>2. ~body.empty => page'.rows \notin {{}, Unread} /\ Cardinality(page'.rows) <= size'
          BY <2>1, <2>8, <2>11
    <3> QED BY <2>1, <2>2, <2>3, <2>5, <2>8, <3>1, <3>2 DEF OnePage
  <2>14. Told'
    <3>1. body'.of = N /\ Cardinality(body'.rows) <= size'
          BY <2>1, <2>3, <2>5, <2>8, <2>12
    <3> QED BY <2>1, <2>2, <2>5, <2>9, <3>1 DEF Told, Answered
  <2> QED BY <2>13, <2>14
<1>7. CASE Looks  BY <1>7, OnePageLooks
<1> QED
    BY <1>1, <1>2, <1>3, <1>4, <1>5, <1>6, <1>7
    DEF Next, Answer, Looks, Start, Follow

-----------------------------------------------------------------------------
\* Ranks when the table changes.
LEMMA RankSame ==
    ASSUME rows' = rows, NEW r
    PROVE  Rank(r)' = Rank(r)
BY DEF Rank

LEMMA RankAtInsert ==
    ASSUME Typed, rows' = rows \cup {newest + 1}, NEW r \in 1..newest
    PROVE  Rank(r)' = Rank(r)
<1>1. newest \in Nat /\ rows \in SUBSET (1..newest)  BY DEF Typed
<1>2. {x \in rows' : x < r} = {x \in rows : x < r}  BY <1>1
<1> QED BY <1>2 DEF Rank

LEMMA RankAtDelete ==
    ASSUME Typed, rows' \in SUBSET rows, NEW r \in Nat
    PROVE  Rank(r) \in Nat /\ Rank(r)' \in Nat /\ Rank(r)' <= Rank(r)
<1>1. IsFiniteSet(rows)  BY Finite
<1> DEFINE B == {x \in rows : x < r}
           C == {x \in rows' : x < r}
<1>2. B \in SUBSET rows /\ C \in SUBSET B  OBVIOUS
<1>3. Rank(r) = Cardinality(B) /\ Rank(r)' = Cardinality(C)  BY DEF Rank
<1> HIDE DEF B, C
<1>4. IsFiniteSet(B)  BY <1>1, <1>2, FS_Subset
<1>5. IsFiniteSet(C) /\ Cardinality(C) <= Cardinality(B)  BY <1>2, <1>4, FS_Subset
<1> QED BY <1>3, <1>4, <1>5, FS_CardinalityType

LEMMA InSlice ==
    ASSUME Typed, NEW n \in Nat, n >= 1, NEW r
    PROVE  r \in Slice(n) <=>
             r \in rows /\ Rank(r) >= (n - 1) * size /\ Rank(r) < n * size /\ Rank(r) < count
<1>1. size \in Nat /\ count \in Nat  BY DEF Typed
<1>2. n * size \in Nat /\ (n - 1) * size \in Nat  BY <1>1, Product
<1>3. r \in rows => Rank(r) \in Nat  BY Finite, Ranks
<1> DEFINE a == n * size
           b == (n - 1) * size
<1>4. r \in Slice(n) <=>
        r \in rows /\ Rank(r) >= b /\ Rank(r) < (IF a >= count THEN count ELSE a)
      BY DEF Slice
<1>5. a \in Nat /\ b \in Nat  BY <1>2
<1> HIDE DEF a, b
<1>6. r \in Slice(n) <=> r \in rows /\ Rank(r) >= b /\ Rank(r) < a /\ Rank(r) < count
      BY <1>1, <1>3, <1>4, <1>5
<1> QED BY <1>6 DEF a, b

\* A page of the count has rows when none has been deleted since.
LEMMA PageHasRows ==
    ASSUME Typed, NEW n \in Nat, n >= 1, n <= NumPages, count # 0, count <= Cardinality(rows)
    PROVE  Slice(n) # {}
<1>1. size \in Nat \ {0} /\ count \in Nat  BY DEF Typed
<1>2. (n - 1) * size \in Nat /\ n * size \in Nat /\ n * size = (n - 1) * size + size
      BY <1>1, Product
<1>3. (n - 1) * size < count  BY <1>1, Pages
<1>4. Cardinality(rows) \in Nat  BY Finite, Ranks
<1> DEFINE b == (n - 1) * size
<1>5. b \in Nat /\ b < count /\ b < Cardinality(rows) /\ b < n * size
  <2>1. b \in Nat /\ n * size = b + size /\ b < count  BY <1>2, <1>3
  <2> HIDE DEF b
  <2> QED BY <1>1, <1>4, <2>1
<1>6. PICK r \in rows : Rank(r) = b
  <2> HIDE DEF b
  <2> QED BY <1>5, Finite, RankOnto
<1>7. Rank(r) >= (n - 1) * size  BY <1>2, <1>6
<1>8. r \in Slice(n)
  <2>1. Rank(r) < n * size /\ Rank(r) < count  BY <1>5, <1>6
  <2> QED BY <1>7, <2>1, InSlice
<1> QED BY <1>8

LEMMA SameWalk ==
    ASSUME UNCHANGED <<rows, size, asked, walk>>, part' = "body" <=> part = "body"
    PROVE  /\ N' = N /\ Shown' = Shown /\ (Good' <=> Good)
           /\ \A r : Rank(r)' = Rank(r)
<1>1. N' = N  BY DEF N, Number
<1> QED BY <1>1, RankSame DEF Shown, Good

-----------------------------------------------------------------------------
\* Every step keeps the walk.
SomeWalk ==
    [on : BOOLEAN, start : SUBSET (1..newest), seen : SUBSET (1..newest),
     twice : BOOLEAN, deleted : BOOLEAN, empty : BOOLEAN]

LEMMA WalkStart ==
    ASSUME Typed, NEW n \in Nat, NEW m \in Nat, Start(n, m)
    PROVE  NeverTwice' /\ NoneMissed'
<1>1. /\ asked' = n /\ pc' = "count" /\ part' = "body" /\ rows' = rows /\ size' = m
      /\ walk' = [on |-> Number(n) = 1, start |-> rows, seen |-> {}, twice |-> FALSE,
                  deleted |-> FALSE, empty |-> FALSE]
      BY DEF Start, Open, table
<1>2. ~After' /\ ~HasPage'  BY <1>1 DEF After, Answered, Reading, HasPage
<1>3. NeverTwice'  BY <1>1, <1>2 DEF NeverTwice
<1>4. walk'.on => Shown' = 0
  <2>1. N' = Number(n)  BY <1>1 DEF N, Number
  <2>2. walk'.on = (Number(n) = 1)  BY <1>1
  <2>3. Shown' = N' - 1  BY <1>1 DEF Shown
  <2>4. walk'.on => Number(n) = 1  BY <2>2, Zenon
  <2> QED BY <2>1, <2>3, <2>4
<1>5. \A r \in rows : ~(Rank(r)' < 0 * size')
  <2>1. 0 * size' = 0  BY <1>1
  <2> QED BY <1>1, <2>1, Finite, Ranks, RankSame
<1>6. NoneMissed'
  <2> SUFFICES ASSUME walk'.on, NEW r \in walk'.start
               PROVE  r \in rows' /\ ~(Rank(r)' < Shown' * size')
      BY <1>1, <1>2 DEF NoneMissed
  <2>1. r \in rows  BY <1>1
  <2> QED BY <1>1, <1>4, <1>5, <2>1
<1> QED BY <1>3, <1>6

LEMMA WalkFollows ==
    ASSUME IInv, Follow
    PROVE  NeverTwice' /\ NoneMissed'
<1>1. /\ asked' = body.next /\ body.next # 0 /\ pc' = "count" /\ part' = "body"
      /\ UNCHANGED <<rows, size, walk>>
      /\ Answered
      BY DEF Follow, Open, table, Answered
<1>2. ~After' /\ ~HasPage'  BY <1>1 DEF After, Answered, Reading, HasPage
<1>3. After /\ part = "link"  BY <1>1 DEF After, IInv, Ordered
<1>4. (Good' <=> Good) /\ \A r : Rank(r)' = Rank(r)  BY <1>1, RankSame DEF Good
<1>5. Good => Shown' = Shown
  <2> SUFFICES ASSUME Good PROVE Shown' = Shown  OBVIOUS
  <2>1. Intact  BY <1>3 DEF IInv, NeverTwice
  <2>2. body.next = NextOf  BY <1>3, <2>1 DEF IInv, Told
  <2>3. body.next = N + 1  BY <1>1, <2>2 DEF NextOf
  <2>4. N \in Nat  BY NType DEF IInv
  <2>5. N' = N + 1  BY <1>1, <2>3, <2>4 DEF N, Number
  <2>6. Shown = N  BY <1>3 DEF Shown
  <2>7. Shown' = N' - 1  BY <1>1 DEF Shown
  <2> QED BY <2>4, <2>5, <2>6, <2>7
<1>6. NeverTwice'
  <2>1. /\ walk.twice => walk.deleted /\ walk.empty
        /\ Good => \A r \in walk.seen \cap rows : Rank(r) < Shown * size
        BY DEF IInv, NeverTwice
  <2> QED BY <1>1, <1>2, <1>4, <1>5, <2>1 DEF NeverTwice
<1>7. NoneMissed'
  <2> SUFFICES ASSUME ~walk.deleted, walk.on
               PROVE  /\ walk'.start \subseteq rows'
                      /\ \A r \in walk'.start : Rank(r)' < Shown' * size' => r \in walk'.seen
      BY <1>1, <1>2 DEF NoneMissed
  <2>1. Good  BY DEF Good
  <2>2. /\ walk.start \subseteq rows
        /\ \A r \in walk.start : Rank(r) < Shown * size => r \in walk.seen
        BY DEF IInv, NoneMissed
  <2> QED BY <1>1, <1>4, <1>5, <2>1, <2>2
<1> QED BY <1>6, <1>7

LEMMA WalkCounts ==
    ASSUME IInv, Count
    PROVE  NeverTwice' /\ NoneMissed'
<1>1. /\ UNCHANGED <<rows, part, size, asked, walk>>
      /\ pc = "count" /\ pc' = "number" /\ count' = Cardinality(rows)
      BY DEF Count, table
<1>2. ~After' /\ ~HasPage'  BY <1>1 DEF After, Answered, Reading, HasPage
<1>3. Shown' = Shown /\ (Good' <=> Good) /\ \A r : Rank(r)' = Rank(r)  BY <1>1, SameWalk
<1>4. Cardinality(rows) \in Nat /\ \A r \in rows : Rank(r) < Cardinality(rows)
      BY Finite, Ranks DEF IInv
<1>5. NeverTwice'
  <2>1. /\ walk.twice => walk.deleted /\ walk.empty
        /\ Good => \A r \in walk.seen \cap rows : Rank(r) < Shown * size
        BY DEF IInv, NeverTwice
  <2> QED BY <1>1, <1>2, <1>3, <2>1 DEF NeverTwice
<1>6. NoneMissed'
  <2>1. count' <= Cardinality(rows')  BY <1>1, <1>4
  <2> SUFFICES ASSUME ~walk.deleted, walk.on
               PROVE  /\ walk'.start \subseteq rows'
                      /\ \A r \in walk'.start : /\ Rank(r)' < Shown' * size' => r \in walk'.seen
                                                /\ Rank(r)' < count'
      BY <1>1, <1>2, <2>1 DEF NoneMissed
  <2>2. /\ walk.start \subseteq rows
        /\ \A r \in walk.start : Rank(r) < Shown * size => r \in walk.seen
        BY DEF IInv, NoneMissed
  <2> QED BY <1>1, <1>3, <1>4, <2>2
<1> QED BY <1>5, <1>6

LEMMA WalkNumbers ==
    ASSUME IInv, PageNumber
    PROVE  NeverTwice' /\ NoneMissed'
<1> DEFINE p == Read(NewPage)
<1>1. /\ UNCHANGED <<rows, part, size, asked, query, count>>
      /\ pc = "number" /\ Valid(query) /\ pc' = "hasnext" /\ page' = p
      /\ body' = [body EXCEPT !.page = IF p.rows = {} THEN 1 ELSE p.number,
                              !.empty = p.rows = {}]
      /\ walk' = [walk EXCEPT !.empty = @ \/ p.rows = {}]
      BY DEF PageNumber, table
<1>2. query = asked /\ part = "body"  BY <1>1 DEF IInv, Ordered
<1>3. Number(query) = N /\ N \in Nat /\ N >= 1  BY <1>2, NType DEF N, IInv
<1>4. p.rows = Slice(N) /\ Slice(N) \in SUBSET rows
  <2>1. p.rows = Slice(N)  BY <1>3, NewPageType, ReadPage DEF IInv
  <2> QED BY <2>1 DEF Slice
<1> HIDE DEF p
<1>5. body \in SomeBody /\ walk \in SomeWalk  BY DEF IInv, Typed, SomeBody, SomeWalk
<1>6. /\ body'.empty = (p.rows = {})
      /\ walk'.on = walk.on /\ walk'.start = walk.start /\ walk'.seen = walk.seen
      /\ walk'.twice = walk.twice /\ walk'.deleted = walk.deleted
      /\ walk'.empty = (walk.empty \/ p.rows = {})
      BY <1>1, <1>5 DEF SomeBody, SomeWalk
<1>7. N' = N /\ Shown = N - 1 /\ Shown' = N - 1  BY <1>1, <1>2 DEF N, Number, Shown
<1>8. \A r : Rank(r)' = Rank(r)  BY <1>1, RankSame
<1>9. Good' => Good  BY <1>5, <1>6 DEF Good, SomeWalk
<1>10. \A r : r \in Slice(N) <=>
         r \in rows /\ Rank(r) >= (N - 1) * size /\ Rank(r) < N * size /\ Rank(r) < count
       BY <1>3, InSlice DEF IInv
<1>11. Good' => Intact'
  <2> SUFFICES ASSUME Good', p.rows = {}, count # 0 PROVE FALSE  BY <1>1, <1>6 DEF Intact
  <2>1. ~walk.deleted  BY <1>6 DEF Good
  <2>2. count <= Cardinality(rows)  BY <1>1, <2>1 DEF IInv, NoneMissed
  <2>3. N <= NumPages
    <3>1. count \in Nat /\ size \in Nat \ {0}  BY DEF IInv, Typed
    <3>2. NumPages >= 1  BY <3>1, Pages
    <3> QED BY <1>1, <1>3, <3>2 DEF Valid
  <2> QED BY <1>3, <1>4, <2>2, <2>3, PageHasRows DEF IInv
<1>12. \A r \in rows : Rank(r) \in Nat  BY Finite, Ranks DEF IInv
<1>13. (N - 1) * size \in Nat /\ N * size \in Nat
  <2>1. size \in Nat  BY DEF IInv, Typed
  <2> QED BY <1>3, <2>1, Product
<1>14. NeverTwice'
  <2>1. walk'.twice => walk'.deleted /\ walk'.empty
        BY <1>6 DEF IInv, NeverTwice
  <2>2. ASSUME Good'
        PROVE  /\ \A r \in walk'.seen \cap rows' : Rank(r)' < Shown' * size'
               /\ walk'.seen \cap page'.rows = {}
               /\ \A r \in page'.rows \cap rows' : Rank(r)' < N' * size'
    <3>1. \A r \in walk.seen \cap rows : Rank(r) < (N - 1) * size
          BY <1>7, <1>9, <2>2 DEF IInv, NeverTwice
    <3>2. \A r \in Slice(N) : r \notin walk.seen  BY <1>10, <1>12, <1>13, <3>1
    <3>3. \A r \in Slice(N) : Rank(r) < N * size  BY <1>10
    <3>4. page'.rows = Slice(N)  BY <1>1, <1>4
    <3> QED BY <1>1, <1>6, <1>7, <1>8, <3>1, <3>2, <3>3, <3>4
  <2> QED BY <1>11, <2>1, <2>2 DEF NeverTwice
<1>15. NoneMissed'
  <2> SUFFICES ASSUME ~walk.deleted
               PROVE  /\ count' <= Cardinality(rows')
                      /\ walk'.on =>
                           /\ walk'.start \subseteq rows'
                           /\ \A r \in walk'.start :
                                /\ Rank(r)' < Shown' * size' => r \in walk'.seen
                                /\ Rank(r)' < count'
                                /\ Rank(r)' < N' * size' => r \in walk'.seen \cup page'.rows
      BY <1>6 DEF NoneMissed
  <2>1. count <= Cardinality(rows)  BY <1>1 DEF IInv, NoneMissed
  <2>2. ASSUME walk.on, NEW r \in walk.start
        PROVE  /\ r \in rows /\ Rank(r) < count
               /\ Rank(r) < (N - 1) * size => r \in walk.seen
               /\ Rank(r) < N * size => r \in walk.seen \cup Slice(N)
    <3>1. r \in rows /\ Rank(r) < count /\ (Rank(r) < (N - 1) * size => r \in walk.seen)
          BY <1>1, <1>7, <2>2 DEF IInv, NoneMissed
    <3> QED BY <1>10, <1>12, <1>13, <3>1
  <2>3. page'.rows = Slice(N)  BY <1>1, <1>4
  <2> QED BY <1>1, <1>6, <1>7, <1>8, <2>1, <2>2, <2>3
<1> QED BY <1>14, <1>15

\* Steps that leave the table and the walk alone, and the page if it has rows.
LEMMA WalkStays ==
    ASSUME IInv, UNCHANGED <<rows, size, asked, count, walk>>,
           part' = "body" <=> part = "body",
           pc \notin {"idle", "count"},
           After' => After /\ body'.empty = body.empty,
           HasPage' => HasPage /\ page' = page
    PROVE  NeverTwice' /\ NoneMissed'
<1>1. /\ N' = N /\ Shown' = Shown /\ (Good' <=> Good)
      /\ \A r : Rank(r)' = Rank(r)
      BY SameWalk
<1>2. After' /\ Intact => Intact'  BY DEF Intact
<1>3. NeverTwice'
  <2>1. /\ walk.twice => walk.deleted /\ walk.empty
        /\ Good =>
            /\ After => Intact
            /\ \A r \in walk.seen \cap rows : Rank(r) < Shown * size
            /\ HasPage => /\ walk.seen \cap page.rows = {}
                          /\ \A r \in page.rows \cap rows : Rank(r) < N * size
        BY DEF IInv, NeverTwice
  <2> QED BY <1>1, <1>2, <2>1 DEF NeverTwice
<1>4. NoneMissed'
  <2>1. ~walk.deleted =>
        /\ count <= Cardinality(rows)
        /\ walk.on =>
            /\ walk.start \subseteq rows
            /\ \A r \in walk.start :
                /\ Rank(r) < Shown * size => r \in walk.seen
                /\ Rank(r) < count
                /\ HasPage /\ Rank(r) < N * size => r \in walk.seen \cup page.rows
        BY DEF IInv, NoneMissed
  <2> QED BY <1>1, <2>1 DEF NoneMissed
<1> QED BY <1>3, <1>4

LEMMA WalkLooks ==
    ASSUME IInv, Looks
    PROVE  NeverTwice' /\ NoneMissed'
<1>1. /\ UNCHANGED <<rows, size, asked, count, walk>> /\ page' = Found
      /\ body'.empty = body.empty /\ (part' = "body" <=> part = "body") /\ pc \in Reading
      BY Look DEF IInv
<1>2. After /\ pc \notin {"idle", "count"}  BY <1>1 DEF After, Reading
<1>3. HasPage' => HasPage /\ page' = page
  <2> SUFFICES ASSUME HasPage' PROVE HasPage /\ page' = page  OBVIOUS
  <2>1. HasPage  BY <1>1 DEF HasPage
  <2>2. Intact  BY <2>1 DEF HasPage, Intact
  <2>3. Found = page  BY <1>1, <2>1, <2>2, FoundSame DEF IInv, HasPage
  <2> QED BY <1>1, <2>1, <2>3
<1> QED BY <1>1, <1>2, <1>3, WalkStays

LEMMA WalkShows ==
    ASSUME IInv, Iterate
    PROVE  NeverTwice' /\ NoneMissed'
<1> DEFINE p == Read(page)
<1>1. /\ UNCHANGED <<rows, size, asked, count>>
      /\ pc = "iterate" /\ pc' = "hasnext" /\ part' = "link" /\ page' = p
      /\ body' = [body EXCEPT !.rows = p.rows, !.of = p.number]
      /\ walk' = [walk EXCEPT !.twice = @ \/ walk.seen \cap p.rows # {}, !.seen = @ \cup p.rows]
      BY DEF Iterate, table
<1>2. part = "body"  BY <1>1 DEF IInv, Ordered
<1>3. body \in SomeBody /\ walk \in SomeWalk /\ page \in SomePage
      BY DEF IInv, Typed, SomeBody, SomeWalk
<1>4. p.rows \in SUBSET (1..newest) /\ (page.rows # Unread => p = page)
      /\ (page.rows = Unread => p.rows = Slice(page.number))
      BY <1>3, ReadPage DEF IInv
<1> HIDE DEF p
<1>5. /\ body'.empty = body.empty
      /\ walk'.on = walk.on /\ walk'.start = walk.start /\ walk'.deleted = walk.deleted
      /\ walk'.empty = walk.empty /\ walk'.seen = walk.seen \cup p.rows
      /\ walk'.twice = (walk.twice \/ walk.seen \cap p.rows # {})
      BY <1>1, <1>3 DEF SomeBody, SomeWalk
<1>6. N' = N /\ Shown = N - 1 /\ Shown' = N  BY <1>1, <1>2 DEF N, Number, Shown
<1>7. \A r : Rank(r)' = Rank(r)  BY <1>1, RankSame
<1>8. After /\ After' /\ ~HasPage'  BY <1>1 DEF After, Reading, HasPage
<1>9. (Good' <=> Good) /\ (Intact' <=> Intact)  BY <1>1, <1>5 DEF Good, Intact
<1>10. ASSUME Good
       PROVE  /\ Intact
              /\ \A r \in walk.seen \cap rows : Rank(r) < (N - 1) * size
              /\ ~body.empty => HasPage /\ p = page
              /\ body.empty => p.rows = {} /\ count = 0
              /\ walk.seen \cap p.rows = {}
              /\ \A r \in p.rows \cap rows : Rank(r) < N * size
  <2>1. Intact /\ \A r \in walk.seen \cap rows : Rank(r) < (N - 1) * size
        BY <1>6, <1>8, <1>10 DEF IInv, NeverTwice
  <2>2. /\ ~body.empty => page.rows \notin {{}, Unread}
        /\ body.empty => page.rows \in {{}, Unread}
        BY <1>8, <2>1 DEF IInv, OnePage
  <2>3. ~body.empty => HasPage /\ p = page
        BY <1>1, <1>2, <1>4, <2>2 DEF HasPage, Reading
  <2>4. body.empty => p.rows = {} /\ count = 0
    <3> SUFFICES ASSUME body.empty PROVE p.rows = {} /\ count = 0  OBVIOUS
    <3>1. count = 0  BY <2>1 DEF Intact
    <3>2. page.number \in Nat  BY <1>3 DEF SomePage
    <3>3. Slice(page.number) = {}  BY <3>1, <3>2, EmptySlice DEF IInv
    <3> QED BY <1>4, <2>2, <3>1, <3>3
  <2>5. walk.seen \cap p.rows = {} /\ \A r \in p.rows \cap rows : Rank(r) < N * size
    <3>1. CASE body.empty  BY <2>4, <3>1
    <3>2. CASE ~body.empty  BY <1>10, <2>3, <3>2 DEF IInv, NeverTwice
    <3> QED BY <3>1, <3>2
  <2> QED BY <2>1, <2>3, <2>4, <2>5
<1>11. \A r \in 1..newest : Rank(r) \in Nat  BY Finite, Ranks DEF IInv
<1>12. /\ (N - 1) * size \in Nat /\ N * size \in Nat /\ (N - 1) * size <= N * size
       /\ rows \in SUBSET (1..newest)
  <2>1. size \in Nat /\ N \in Nat /\ N >= 1  BY NType DEF IInv, Typed
  <2>2. N * size = (N - 1) * size + size /\ (N - 1) * size \in Nat /\ N * size \in Nat
        BY <2>1, Product
  <2>3. rows \in SUBSET (1..newest)  BY DEF IInv, Typed
  <2> DEFINE a == N * size
             b == (N - 1) * size
  <2>4. a = b + size /\ a \in Nat /\ b \in Nat  BY <2>2
  <2> HIDE DEF a, b
  <2>5. b <= a  BY <2>1, <2>4
  <2> QED BY <2>3, <2>4, <2>5 DEF a, b
<1>13. NeverTwice'
  <2>1. walk'.twice => walk'.deleted /\ walk'.empty
    <3>1. walk.twice => walk.deleted /\ walk.empty  BY DEF IInv, NeverTwice
    <3>2. ~Good => walk.deleted /\ walk.empty  BY DEF Good
    <3>3. Good => walk.seen \cap p.rows = {}  BY <1>10
    <3>4. walk'.twice => walk.twice \/ walk.seen \cap p.rows # {}  BY <1>5, Zenon
    <3> QED BY <1>5, <3>1, <3>2, <3>3, <3>4
  <2>2. ASSUME Good', NEW r \in walk'.seen \cap rows'
        PROVE  Rank(r)' < Shown' * size'
    <3>1. Good /\ r \in rows /\ r \in walk.seen \cup p.rows  BY <1>1, <1>5, <1>9, <2>2
    <3>2. Rank(r) < N * size
      <4>1. CASE r \in p.rows  BY <1>10, <3>1, <4>1
      <4>2. CASE r \in walk.seen
        <5>1. Rank(r) < (N - 1) * size  BY <1>10, <3>1, <4>2
        <5>2. Rank(r) \in Nat  BY <1>11, <1>12, <3>1
        <5> DEFINE a == N * size
                   b == (N - 1) * size
        <5>3. Rank(r) < b /\ b <= a /\ a \in Nat /\ b \in Nat  BY <1>12, <5>1
        <5> HIDE DEF a, b
        <5>4. Rank(r) < a  BY <5>2, <5>3
        <5> QED BY <5>4 DEF a
      <4> QED BY <3>1, <4>1, <4>2
    <3> QED BY <1>1, <1>6, <1>7, <3>2
  <2> QED BY <1>8, <1>9, <1>10, <2>1, <2>2 DEF NeverTwice
<1>14. NoneMissed'
  <2> SUFFICES ASSUME ~walk.deleted
               PROVE  /\ count' <= Cardinality(rows')
                      /\ walk'.on =>
                           /\ walk'.start \subseteq rows'
                           /\ \A r \in walk'.start :
                                /\ Rank(r)' < Shown' * size' => r \in walk'.seen
                                /\ Rank(r)' < count'
      BY <1>5, <1>8 DEF NoneMissed
  <2>1. Good  BY DEF Good
  <2>2. count <= Cardinality(rows)  BY <1>1 DEF IInv, NoneMissed
  <2>3. ASSUME walk.on, NEW r \in walk.start
        PROVE  /\ r \in rows /\ Rank(r) < count
               /\ Rank(r) < N * size => r \in walk.seen \cup p.rows
    <3>1. /\ r \in rows /\ Rank(r) < count
          /\ HasPage /\ Rank(r) < N * size => r \in walk.seen \cup page.rows
          BY <1>1, <2>3 DEF IInv, NoneMissed
    <3>2. Rank(r) \in Nat  BY <1>11, <1>12, <3>1
    <3>3. CASE body.empty
      <4>1. Rank(r) < 0  BY <1>10, <2>1, <3>1, <3>3
      <4> QED BY <3>2, <4>1
    <3>4. CASE ~body.empty  BY <1>10, <2>1, <3>1, <3>4
    <3> QED BY <3>3, <3>4
  <2> QED BY <1>1, <1>5, <1>6, <1>7, <2>2, <2>3
<1> QED BY <1>13, <1>14

LEMMA WalkInserts ==
    ASSUME IInv, Insert
    PROVE  NeverTwice' /\ NoneMissed'
<1>1. /\ UNCHANGED <<pc, part, size, asked, query, count, page, body, status, walk>>
      /\ rows' = rows \cup {newest + 1}
      BY DEF Insert
<1>2. /\ newest \in Nat /\ rows \in SUBSET (1..newest)
      /\ walk.seen \in SUBSET (1..newest) /\ walk.start \in SUBSET (1..newest)
      /\ page.rows \in {Unread} \cup SUBSET (1..newest)
      BY DEF IInv, Typed, SomePage
<1>3. newest + 1 \notin 1..newest  BY <1>2
<1>4. \A r \in 1..newest : Rank(r)' = Rank(r)  BY <1>1, RankAtInsert DEF IInv
<1>5. /\ N' = N /\ Shown' = Shown /\ (Good' <=> Good) /\ (After' <=> After)
      /\ (Intact' <=> Intact) /\ (HasPage' <=> HasPage)
      BY <1>1 DEF N, Number, Shown, Good, After, Answered, Intact, HasPage
<1>6. NeverTwice'
  <2>1. walk'.twice => walk'.deleted /\ walk'.empty  BY <1>1 DEF IInv, NeverTwice
  <2>2. ASSUME Good'
        PROVE  /\ After' => Intact'
               /\ \A r \in walk'.seen \cap rows' : Rank(r)' < Shown' * size'
    <3>1. walk'.seen \cap rows' = walk.seen \cap rows  BY <1>1, <1>2, <1>3
    <3>2. /\ After => Intact
          /\ \A r \in walk.seen \cap rows : Rank(r) < Shown * size
          BY <1>5, <2>2 DEF IInv, NeverTwice
    <3> QED BY <1>1, <1>2, <1>4, <1>5, <3>1, <3>2
  <2>3. ASSUME Good', HasPage'
        PROVE  /\ walk'.seen \cap page'.rows = {}
               /\ \A r \in page'.rows \cap rows' : Rank(r)' < N' * size'
    <3>1. Intact /\ After  BY <1>5, <2>3 DEF HasPage, Intact, After
    <3>2. page.rows \in SUBSET (1..newest)
          BY <1>2, <1>5, <2>3, <3>1 DEF IInv, OnePage, HasPage
    <3>3. page'.rows \cap rows' = page.rows \cap rows  BY <1>1, <1>2, <1>3, <3>2
    <3>4. /\ walk.seen \cap page.rows = {}
          /\ \A r \in page.rows \cap rows : Rank(r) < N * size
          BY <1>5, <2>3 DEF IInv, NeverTwice
    <3>5. \A r \in page.rows \cap rows : Rank(r)' < N * size
          BY <1>2, <1>4, <3>4, ZenonT(30)
    <3> QED BY <1>1, <1>5, <3>3, <3>4, <3>5
  <2> QED BY <2>1, <2>2, <2>3 DEF NeverTwice
<1>7. NoneMissed'
  <2>1. Cardinality(rows') = Cardinality(rows) + 1 /\ Cardinality(rows) \in Nat /\ count \in Nat
    <3>1. IsFiniteSet(rows) /\ newest + 1 \notin rows  BY <1>2, <1>3, Finite DEF IInv
    <3> QED BY <1>1, <3>1, FS_AddElement, FS_CardinalityType DEF IInv, Typed
  <2>2. ~walk.deleted =>
        /\ pc \notin {"idle", "count"} => count <= Cardinality(rows)
        /\ walk.on =>
            /\ walk.start \subseteq rows
            /\ \A r \in walk.start :
                /\ Rank(r) < Shown * size => r \in walk.seen
                /\ pc \notin {"idle", "count"} => Rank(r) < count
                /\ HasPage /\ Rank(r) < N * size => r \in walk.seen \cup page.rows
        BY DEF IInv, NoneMissed
  <2>3. ~walk.deleted /\ pc \notin {"idle", "count"} => count <= Cardinality(rows')
        BY <2>1, <2>2
  <2>4. \A r \in walk.start : Rank(r)' = Rank(r)  BY <1>2, <1>4
  <2> QED BY <1>1, <1>5, <2>2, <2>3, <2>4 DEF NoneMissed
<1> QED BY <1>6, <1>7

LEMMA WalkDeletes ==
    ASSUME IInv, NEW d \in 1..MaxRow, Delete(d)
    PROVE  NeverTwice' /\ NoneMissed'
<1>1. /\ UNCHANGED <<pc, part, size, asked, query, count, page, body, status>>
      /\ rows' = rows \ {d} /\ walk' = [walk EXCEPT !.deleted = TRUE]
      BY DEF Delete
<1>2. /\ walk'.on = walk.on /\ walk'.seen = walk.seen /\ walk'.twice = walk.twice
      /\ walk'.empty = walk.empty /\ walk'.deleted
      BY <1>1 DEF IInv, Typed
<1>3. NoneMissed'  BY <1>2 DEF NoneMissed
<1>4. /\ N' = N /\ Shown' = Shown /\ (After' <=> After)
      /\ (Intact' <=> Intact) /\ (HasPage' <=> HasPage)
      BY <1>1 DEF N, Number, Shown, After, Answered, Intact, HasPage
<1>5. Good' => Good  BY <1>2 DEF Good
<1>6. \A r \in rows : Rank(r) \in Nat /\ Rank(r)' \in Nat /\ Rank(r)' <= Rank(r)
  <2>1. rows' \in SUBSET rows  BY <1>1
  <2>2. rows \subseteq Nat  BY Finite DEF IInv
  <2> QED BY <2>1, <2>2, RankAtDelete DEF IInv
<1>7. Shown * size \in Nat /\ N * size \in Nat
  <2>1. N \in Nat /\ Shown \in Nat /\ size \in Nat  BY NType DEF Shown, IInv, Typed
  <2> QED BY <2>1, Product
<1>8. \A r \in rows : /\ Rank(r) < Shown * size => Rank(r)' < Shown * size
                      /\ Rank(r) < N * size => Rank(r)' < N * size
  <2> DEFINE a == Shown * size
             b == N * size
  <2>1. a \in Nat /\ b \in Nat  BY <1>7
  <2> HIDE DEF a, b
  <2>2. \A r \in rows : /\ Rank(r) < a => Rank(r)' < a
                        /\ Rank(r) < b => Rank(r)' < b
        BY <1>6, <2>1
  <2> QED BY <2>2 DEF a, b
<1>9. NeverTwice'
  <2>1. walk'.twice => walk'.deleted /\ walk'.empty  BY <1>2 DEF IInv, NeverTwice
  <2>2. ASSUME Good'
        PROVE  /\ After' => Intact'
               /\ \A r \in walk'.seen \cap rows' : Rank(r)' < Shown' * size'
               /\ HasPage' => /\ walk'.seen \cap page'.rows = {}
                              /\ \A r \in page'.rows \cap rows' : Rank(r)' < N' * size'
    <3>1. /\ After => Intact
          /\ \A r \in walk.seen \cap rows : Rank(r) < Shown * size
          /\ HasPage => /\ walk.seen \cap page.rows = {}
                        /\ \A r \in page.rows \cap rows : Rank(r) < N * size
          BY <1>5, <2>2 DEF IInv, NeverTwice
    <3> QED BY <1>1, <1>2, <1>4, <1>8, <3>1
  <2> QED BY <2>1, <2>2 DEF NeverTwice
<1> QED BY <1>3, <1>9

LEMMA WalkStep ==
    ASSUME IInv, [Next]_vars
    PROVE  NeverTwice' /\ NoneMissed'
<1>1. ASSUME NEW n \in Numbers, NEW m \in PageSizes, Start(n, m)
      PROVE  NeverTwice' /\ NoneMissed'
  <2>1. n \in Nat /\ m \in Nat  BY PagingAssumption
  <2> QED BY <1>1, <2>1, WalkStart DEF IInv
<1>2. CASE Done
  <2>1. /\ UNCHANGED <<rows, newest, pc, part, size, asked, query, count, page, body>>
        /\ UNCHANGED status
        /\ walk' = [walk EXCEPT !.on = FALSE]
        BY <1>2 DEF Done, table
  <2>2. /\ ~walk'.on /\ walk'.seen = walk.seen /\ walk'.twice = walk.twice
        /\ walk'.empty = walk.empty /\ walk'.deleted = walk.deleted
        BY <2>1 DEF IInv, Typed
  <2>3. /\ N' = N /\ Shown' = Shown /\ (After' <=> After) /\ (Good' <=> Good)
        /\ (Intact' <=> Intact) /\ (HasPage' <=> HasPage) /\ \A r : Rank(r)' = Rank(r)
        BY <2>1, <2>2, RankSame DEF N, Number, Shown, After, Answered, Good, Intact, HasPage
  <2>4. NeverTwice'
    <3>1. /\ walk.twice => walk.deleted /\ walk.empty
          /\ Good =>
              /\ After => Intact
              /\ \A r \in walk.seen \cap rows : Rank(r) < Shown * size
              /\ HasPage => /\ walk.seen \cap page.rows = {}
                            /\ \A r \in page.rows \cap rows : Rank(r) < N * size
          BY DEF IInv, NeverTwice
    <3> QED BY <2>1, <2>2, <2>3, <3>1 DEF NeverTwice
  <2>5. NoneMissed'  BY <2>1, <2>2 DEF IInv, NoneMissed
  <2> QED BY <2>4, <2>5
<1>3. CASE BadPage
  <2>1. /\ UNCHANGED <<rows, part, size, asked, count, page, body, walk>>
        /\ pc = "number" /\ pc' = "answered" /\ status' = 400
        BY <1>3 DEF BadPage, table
  <2>2. ~After' /\ ~HasPage'  BY <2>1 DEF After, Answered, Reading, HasPage
  <2> QED BY <2>1, <2>2, WalkStays
<1>4. CASE UNCHANGED vars
  <2>1. UNCHANGED <<rows, pc, part, size, asked, count, page, body, status, walk>>
        BY <1>4 DEF vars
  <2>2. (After' <=> After) /\ (HasPage' <=> HasPage) /\ N' = N /\ Shown' = Shown
        /\ (Good' <=> Good) /\ (Intact' <=> Intact) /\ \A r : Rank(r)' = Rank(r)
        BY <2>1, SameWalk DEF After, Answered, HasPage, Intact
  <2>3. NeverTwice'
    <3>1. /\ walk.twice => walk.deleted /\ walk.empty
          /\ Good =>
              /\ After => Intact
              /\ \A r \in walk.seen \cap rows : Rank(r) < Shown * size
              /\ HasPage => /\ walk.seen \cap page.rows = {}
                            /\ \A r \in page.rows \cap rows : Rank(r) < N * size
          BY DEF IInv, NeverTwice
    <3> QED BY <2>1, <2>2, <3>1 DEF NeverTwice
  <2>4. NoneMissed'
    <3>1. ~walk.deleted =>
          /\ pc \notin {"idle", "count"} => count <= Cardinality(rows)
          /\ walk.on =>
              /\ walk.start \subseteq rows
              /\ \A r \in walk.start :
                  /\ Rank(r) < Shown * size => r \in walk.seen
                  /\ pc \notin {"idle", "count"} => Rank(r) < count
                  /\ HasPage /\ Rank(r) < N * size => r \in walk.seen \cup page.rows
          BY DEF IInv, NoneMissed
    <3> QED BY <2>1, <2>2, <3>1 DEF NoneMissed
  <2> QED BY <2>3, <2>4
<1> QED
    BY <1>1, <1>2, <1>3, <1>4, WalkFollows, WalkCounts, WalkNumbers, WalkLooks, WalkShows,
       WalkInserts, WalkDeletes
    DEF Next, Answer, Looks

-----------------------------------------------------------------------------
\* The inductive invariant holds at first, is kept, and tells what is claimed.
LEMMA InitIInv ==
    ASSUME Init
    PROVE  IInv
<1>1. rows \in SUBSET (1..MaxRow) /\ newest \in rows \cup {0} /\ \A r \in rows : r <= newest
      BY PagingAssumption DEF Init
<1>2. newest \in 0..MaxRow /\ rows \in SUBSET (1..newest)
  <2>1. newest \in 0..MaxRow  BY <1>1
  <2>2. \A r \in rows : r \in 1..newest  BY <1>1, <2>1
  <2> QED BY <2>1, <2>2
<1>3. /\ pc = "idle" /\ part = "body" /\ size \in PageSizes /\ asked = 0 /\ query = 0 /\ count = 0
      /\ page = NoPage /\ body = NoBody /\ link = NoLink
      /\ walk = [on |-> FALSE, start |-> {}, seen |-> {}, twice |-> FALSE,
                 deleted |-> FALSE, empty |-> FALSE]
      BY DEF Init
<1>4. Typed
  <2>1. size \in Nat \ {0}  BY <1>3, PagingAssumption
  <2>2. NoPage \in SomePage /\ NoBody \in SomeBody /\ NoLink \in SomeLink
        BY DEF NoPage, NoBody, NoLink, SomePage, SomeBody, SomeLink
  <2>3. page \in SomePage /\ body \in SomeBody /\ link \in SomeLink  BY <1>3, <2>2
  <2>4. walk \in SomeWalk  BY <1>3 DEF SomeWalk
  <2> QED BY <1>2, <1>3, <2>1, <2>3, <2>4 DEF Typed, SomeBody, SomeLink, SomeWalk
<1>5. ~After  BY <1>3 DEF After, Answered, Reading
<1>6. ~HasPage  BY <1>3 DEF HasPage, Reading
<1> QED BY <1>3, <1>4, <1>5, <1>6 DEF IInv, Ordered, OnePage, Told, NeverTwice, NoneMissed, Answered

LEMMA NextIInv ==
    ASSUME IInv, [Next]_vars
    PROVE  IInv'
BY TypedStep, OnePageStep, WalkStep DEF IInv

LEMMA AlwaysIInv == Spec => []IInv
<1>1. Init => IInv  BY InitIInv
<1>2. IInv /\ [Next]_vars => IInv'  BY NextIInv
<1> QED BY <1>1, <1>2, PTL DEF Spec

\* An answer whose page had rows when page_number looked, or of a collection
\* without any, is of one piece, whatever other clients write between two of
\* the paginator's reads.
THEOREM OnePiece == Spec => []AnswerOfOnePiece
<1>1. IInv => AnswerOfOnePiece
  <2> SUFFICES ASSUME IInv, Answered, Intact PROVE AnswerOfOnePiece
      BY DEF AnswerOfOnePiece, Intact
  <2>1. After /\ part = "link" /\ pc = "answered"
        BY DEF After, Answered, IInv, Ordered
  <2>2. body.page = N  BY <2>1 DEF IInv, OnePage
  <2>3. /\ body.next = NextOf /\ body.prev = N - 1 /\ body.of = N
        /\ Cardinality(body.rows) <= size /\ link.next = NextOf /\ link.prev = N - 1
        BY <2>1 DEF IInv, Told
  <2> QED BY <2>2, <2>3 DEF AnswerOfOnePiece, N, NextOf
<1> QED BY <1>1, AlwaysIInv, PTL

\* A client that follows the links from the first page to the last sees every
\* row of the start when none is deleted meanwhile, and sees none twice unless
\* rows are deleted and a page is found empty.
THEOREM CompleteWalk == Spec => []WalkIsComplete
<1>1. IInv => WalkIsComplete
  <2> SUFFICES ASSUME IInv PROVE WalkIsComplete  OBVIOUS
  <2>1. walk.twice => walk.deleted /\ walk.empty  BY DEF IInv, NeverTwice
  <2>2. ASSUME Answered, walk.on, body.next = 0, ~walk.deleted, NEW r \in walk.start
        PROVE  r \in walk.seen
    <3>1. After /\ part = "link" /\ pc = "answered"
          BY <2>2 DEF After, Answered, IInv, Ordered
    <3>2. Good  BY <2>2 DEF Good
    <3>3. Intact  BY <3>1, <3>2 DEF IInv, NeverTwice
    <3>4. NextOf = 0  BY <2>2, <3>1, <3>3 DEF IInv, Told
    <3>5. N \in Nat /\ N >= 1 /\ NumPages \in Nat  BY NType DEF IInv
    <3>6. N >= NumPages  BY <3>4, <3>5 DEF NextOf
    <3>7. count \in Nat /\ size \in Nat \ {0}  BY DEF IInv, Typed
    <3>8. N * size >= count  BY <3>5, <3>6, <3>7, Pages
    <3>9. Shown = N  BY <3>1 DEF Shown
    <3>10. r \in rows /\ Rank(r) < count /\ (Rank(r) < N * size => r \in walk.seen)
           BY <2>2, <3>1, <3>9 DEF IInv, NoneMissed
    <3>11. Rank(r) \in Nat /\ N * size \in Nat
           BY <3>5, <3>7, <3>10, Finite, Ranks, Product DEF IInv
    <3> DEFINE a == N * size
    <3>12. a \in Nat /\ a >= count /\ (Rank(r) < a => r \in walk.seen)  BY <3>8, <3>10, <3>11
    <3> HIDE DEF a
    <3>13. Rank(r) < a  BY <3>7, <3>10, <3>11, <3>12
    <3> QED BY <3>12, <3>13
  <2> QED BY <2>1, <2>2 DEF WalkIsComplete
<1> QED BY <1>1, AlwaysIInv, PTL

-----------------------------------------------------------------------------
(***************************************************************************)
(* The next page of a walk, which is told while the body is made.          *)
(***************************************************************************)
Onward ==
    /\ count <= newest
    /\ pc = "count" => body.next = 0
    /\ pc \in {"hasnext", "nextnum"} /\ part = "body" => query = asked /\ page.number = N
    /\ pc = "nextnum" /\ part = "body" => N < NumPages
    /\ body.next # 0 => body.next = N + 1 /\ N * size < count

LEMMA FoundAsked ==
    ASSUME Typed, Onward, pc \in {"hasnext", "nextnum"}, part = "body"
    PROVE  Found.number = N
<1>1. query = asked /\ page.number = N  BY DEF Onward
<1>2. NewPage.number = N  BY <1>1, NewPageType DEF N
<1>3. Read(page).number = N  BY <1>1, ReadPage DEF Typed
<1> QED BY <1>2, <1>3 DEF Found

\* The number of the next page is told once, in the body.
LEMMA OnwardLooks ==
    ASSUME Typed, Ordered, Onward, Looks
    PROVE  Onward'
<1>1. /\ UNCHANGED <<newest, size, asked, count>> /\ page' = Found
      /\ (part' = "body" <=> part = "body") /\ pc' # "count"
      /\ N' = N /\ NumPages' = NumPages
  <2>1. UNCHANGED <<newest, size, asked, count>> /\ page' = Found
        /\ (part' = "body" <=> part = "body") /\ pc' # "count"
        BY Look DEF Reading
  <2> QED BY <2>1 DEF N, Number, NumPages
<1>2. body \in SomeBody /\ N \in Nat /\ N >= 1 /\ NumPages \in Nat
      /\ count \in Nat /\ size \in Nat \ {0}
      BY NType DEF Typed, SomeBody
<1>3. Found.number \in Nat  BY FoundType DEF SomePage
<1>4. CASE HasNext /\ part = "body"
  <2>1. Found.number = N /\ query' = query /\ query = asked
        BY <1>4, FoundAsked DEF HasNext, Onward
  <2>2. CASE Found.number < NumPages
    <3>1. pc' = "nextnum" /\ body' = body  BY <1>4, <2>2 DEF HasNext
    <3> QED BY <1>1, <2>1, <2>2, <3>1 DEF Onward
  <2>3. CASE ~(Found.number < NumPages)
    <3>1. Tell("next", 0, "hasprev")  BY <1>4, <2>3 DEF HasNext
    <3>2. body'.next = 0 /\ pc' = "hasprev"  BY <1>4, <3>1, TellNext
    <3> QED BY <1>1, <3>2 DEF Onward
  <2> QED BY <2>2, <2>3
<1>5. CASE NextNum /\ part = "body"
  <2>1. Found.number = N /\ N < NumPages  BY <1>5, FoundAsked DEF NextNum, Onward
  <2>2. Tell("next", N + 1, "hasprev") /\ N + 1 \in Nat  BY <1>2, <1>5, <2>1 DEF NextNum
  <2>3. body'.next = N + 1 /\ pc' = "hasprev"  BY <1>5, <2>2, TellNext
  <2>4. N * size < count
    <3>1. count # 0 /\ N + 1 <= NumPages  BY <1>2, <2>1, Pages
    <3>2. ((N + 1) - 1) * size < count  BY <1>2, <2>2, <3>1, Pages
    <3>3. (N + 1) - 1 = N  BY <1>2
    <3> QED BY <3>2, <3>3
  <2> QED BY <1>1, <2>3, <2>4 DEF Onward
<1>6. CASE (HasNext \/ NextNum) /\ part # "body"
  <2>1. body' = body
    <3>1. CASE HasNext /\ ~(Found.number < NumPages)
          BY <1>6, <3>1, TellNext DEF HasNext
    <3>2. CASE HasNext /\ Found.number < NumPages  BY <3>2 DEF HasNext
    <3>3. CASE NextNum
      <4>1. Found.number + 1 \in Nat  BY <1>3
      <4> QED BY <1>6, <3>3, <4>1, TellNext DEF NextNum
    <3> QED BY <1>6, <3>1, <3>2, <3>3
  <2> QED BY <1>1, <1>6, <2>1 DEF Onward
<1>7. CASE HasPrev \/ PrevNum \/ Resources
  <2>1. body'.next = body.next /\ (pc' \notin {"hasnext", "nextnum"})
    <3>1. CASE HasPrev /\ ~(Found.number > 1)
          BY <1>2, <3>1, TellPrev DEF HasPrev, SomeBody, Typed
    <3>2. CASE HasPrev /\ Found.number > 1  BY <3>2 DEF HasPrev
    <3>3. CASE PrevNum
      <4>1. Found.number - 1 \in Nat  BY <3>3, FoundAgain DEF PrevNum
      <4> QED BY <1>2, <3>3, <4>1, TellPrev DEF PrevNum, SomeBody, Typed
    <3>4. CASE Resources  BY <3>4 DEF Resources
    <3> QED BY <1>7, <3>1, <3>2, <3>3, <3>4
  <2> QED BY <1>1, <2>1 DEF Onward
<1> QED BY <1>4, <1>5, <1>6, <1>7 DEF Looks

LEMMA OnwardStep ==
    ASSUME Typed, Ordered, Onward, [Next]_vars
    PROVE  Onward'
<1>0. /\ body \in SomeBody /\ N \in Nat /\ count \in Nat /\ size \in Nat
      /\ newest \in Nat
      BY NType DEF Typed, SomeBody
<1>1. ASSUME NEW n, Open(n) PROVE Onward'
  <2>1. newest' = newest /\ pc' = "count" /\ count' = 0 /\ body'.next = 0
        BY <1>1 DEF Open, NoBody, table
  <2> QED BY <1>0, <2>1 DEF Onward
<1>2. CASE Done \/ Insert \/ (\E r \in 1..MaxRow : Delete(r)) \/ UNCHANGED vars \/ BadPage
  <2>1. /\ UNCHANGED <<part, size, asked, query, count, page, body>>
        /\ pc' \in {pc, "answered"} /\ newest' \in {newest, newest + 1}
        BY <1>2 DEF Done, Insert, Delete, BadPage, vars, table
  <2>2. N' = N /\ NumPages' = NumPages  BY <2>1 DEF N, Number, NumPages
  <2> QED BY <1>0, <2>1, <2>2 DEF Onward
<1>3. CASE Count
  <2>1. /\ UNCHANGED <<newest, part, size, asked, body>>
        /\ pc = "count" /\ pc' = "number" /\ count' = Cardinality(rows)
        BY <1>3 DEF Count, table
  <2>2. Cardinality(rows) <= newest
    <3>1. 1 \in Int /\ newest \in Int /\ rows \in SUBSET (1..newest)  BY <1>0 DEF Typed
    <3>2. IsFiniteSet(1..newest) /\ Cardinality(1..newest) = IF 1 > newest THEN 0 ELSE newest - 1 + 1
          BY <3>1, FS_Interval
    <3>3. Cardinality(rows) <= Cardinality(1..newest) /\ Cardinality(rows) \in Nat
          BY <3>1, <3>2, FS_Subset, FS_CardinalityType
    <3> QED BY <1>0, <3>2, <3>3
  <2>3. body'.next = 0  BY <2>1 DEF Onward
  <2> QED BY <2>1, <2>2, <2>3 DEF Onward
<1>4. CASE PageNumber
  <2>1. /\ UNCHANGED <<newest, part, size, asked, query, count>>
        /\ pc = "number" /\ pc' = "hasnext" /\ page' = Read(NewPage)
        /\ body'.next = body.next
        BY <1>0, <1>4 DEF PageNumber, table, SomeBody
  <2>2. query = asked  BY <2>1 DEF Ordered
  <2>3. Read(NewPage).number = N  BY <2>2, NewPageType, ReadPage DEF N
  <2>4. N' = N  BY <2>1 DEF N, Number
  <2> QED BY <2>1, <2>2, <2>3, <2>4 DEF Onward
<1>5. CASE Iterate
  <2>1. /\ UNCHANGED <<newest, size, asked, count>> /\ pc' = "hasnext" /\ part' = "link"
        /\ body'.next = body.next
        BY <1>0, <1>5 DEF Iterate, table, SomeBody
  <2>2. N' = N  BY <2>1 DEF N, Number
  <2> QED BY <2>1, <2>2 DEF Onward
<1> QED
    BY <1>1, <1>2, <1>3, <1>4, <1>5, OnwardLooks
    DEF Next, Answer, Looks, Start, Follow

\* A walk asks for one page after the other, and for none that all the rows
\* there have ever been would not reach.
THEOREM WalkGoesOn == Spec => WalkAdvances
<1>1. Init => Onward
  <2> SUFFICES ASSUME Init PROVE Onward  OBVIOUS
  <2>1. newest \in Nat  BY InitIInv, Finite DEF IInv
  <2>2. pc = "idle" /\ count = 0 /\ body.next = 0  BY DEF Init, NoBody
  <2> QED BY <2>1, <2>2 DEF Onward
<1>2. IInv /\ Onward /\ [Next]_vars => Onward'  BY OnwardStep DEF IInv
<1>3. IInv /\ Onward
        => [Follow => asked' = Number(asked) + 1 /\ Number(asked) * size < newest]_vars
  <2> SUFFICES ASSUME IInv, Onward, Follow
               PROVE  asked' = Number(asked) + 1 /\ Number(asked) * size < newest
      OBVIOUS
  <2>1. asked' = body.next /\ body.next # 0  BY DEF Follow, Open
  <2>2. body.next = N + 1 /\ N * size < count /\ count <= newest  BY <2>1 DEF Onward
  <2>3. N * size \in Nat /\ count \in Nat /\ newest \in Nat
        BY NType, Product, Finite DEF IInv, Typed
  <2> QED BY <2>1, <2>2, <2>3 DEF N
<1> QED BY <1>1, <1>2, <1>3, AlwaysIInv, PTL DEF Spec, WalkAdvances
=============================================================================
