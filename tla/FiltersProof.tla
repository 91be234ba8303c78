---------------------------- MODULE FiltersProof ----------------------------
(***************************************************************************)
(* Theorems about Filters, for every set of parents, values, parameter     *)
(* names and queries.                                                      *)
(***************************************************************************)
EXTENDS Filters, Integers, SequenceTheorems, TLAPS

USE FiltersAssumption

-----------------------------------------------------------------------------
\* The parent that has been looked up is the one of the URL; without one there,
\* some of those the query names.
ParentIsMeant ==
    pc \in {"read", "apply", "answered"} =>
        /\ route # Missing
        /\ route = Flat => parent = Absent
        /\ route = Absent /\ Asked = <<>> => parent = Absent
        /\ route \in Owners => parent = {route}
        /\ (route \in {Absent, None} /\ Asked # <<>>) => parent \subseteq ToSet(Asked)
        /\ (route = None /\ Asked = <<>>) => parent = None
        /\ parent = None => route = None /\ Asked = <<>>
        /\ parent = Absent => route = Flat \/ (route = Absent /\ Asked = <<>>)

\* Once the filters are complete, that of the parent is among them, and what it
\* lets through is all that is left as soon as it has been applied.
Inside(r) == IF parent = None THEN r[Owner] = None ELSE r[Owner] \in parent

ParentHasLastWord ==
    (pc \in {"apply", "answered"} /\ parent # Absent) =>
        /\ <<Owner>> \in DOMAIN filters /\ filters[<<Owner>>] \in ParentFilters
        /\ <<Owner>> \in pending \/ \A r \in qs : Inside(r)
        /\ pc = "answered" => pending = {}

IInv == route \in Routes /\ ParentIsMeant /\ ParentHasLastWord

LEMMA InvStaysInside == IInv => StaysInside
<1> SUFFICES ASSUME IInv, pc = "answered", NEW r \in qs
             PROVE  /\ route \in Owners => r[Owner] = route
                    /\ (route # Flat /\ Asked # <<>>) => r[Owner] \in ToSet(Asked) \cup {route}
                    /\ (route = None /\ Asked = <<>>) => r[Owner] = None
    BY DEF StaysInside
<1>1. parent # Absent => Inside(r)  BY DEF IInv, ParentHasLastWord
<1>2. route \in {Flat, Absent, None} \cup Owners
      BY DEF IInv, ParentIsMeant, Routes
<1>3. None \notin Owners /\ Absent \notin Owners /\ Flat \notin Owners  OBVIOUS
<1> QED BY <1>1, <1>2, <1>3 DEF IInv, ParentIsMeant, Inside

LEMMA InitInv == Init => IInv
BY DEF Init, IInv, ParentIsMeant, ParentHasLastWord

LEMMA GetResourcesInv == ASSUME IInv, GetResources PROVE IInv'
<1> DEFINE pks == IF route \in {Flat, Absent, None} THEN Asked ELSE <<route>>
<1>1. /\ UNCHANGED <<query, route>> /\ Asked' = Asked /\ pc' \in {"read", "not found"}
      /\ route \in Routes
      BY DEF GetResources, Asked, IInv
<1>2. /\ None \notin Owners /\ Absent \notin Owners /\ Flat \notin Owners
      /\ Missing \notin Owners \cup {None, Absent, Flat}
      OBVIOUS
<1>3. CASE route = Flat \/ pks = <<>>
  <2>1. route \in {Flat, Absent, None}  BY <1>2, <1>3
  <2>2. parent' = IF route = None THEN None ELSE Absent
        BY <1>3 DEF GetResources
  <2>3. route # Flat => Asked = <<>>  BY <1>3, <2>1
  <2> QED BY <1>1, <1>2, <2>1, <2>2, <2>3 DEF IInv, ParentIsMeant, ParentHasLastWord, Routes
<1>4. CASE ~(route = Flat \/ pks = <<>>) /\ pc' = "read"
  <2>1. parent' = ToSet(pks) \cap Owners  BY <1>4 DEF GetResources
  <2>2. route \notin {Flat, Absent, None} => ToSet(pks) = {route}  BY DEF ToSet
  <2>4. route # Missing
    <3> SUFFICES ASSUME route = Missing PROVE FALSE  OBVIOUS
    <3>1. pks = <<route>> /\ Len(pks) = 1 /\ pks[1] = route  BY <1>2
    <3> QED BY <1>2, <1>4, <3>1 DEF GetResources
  <2>3. parent' # None /\ parent' # Absent
    <3>1. ToSet(pks) \cap Owners \in SUBSET Owners  OBVIOUS
    <3> QED BY <2>1, <3>1
  <2> QED BY <1>1, <1>2, <1>4, <2>1, <2>2, <2>3, <2>4
          DEF IInv, ParentIsMeant, ParentHasLastWord, Routes
<1>5. CASE pc' = "not found"
      BY <1>1, <1>5 DEF IInv, ParentIsMeant, ParentHasLastWord
<1> QED BY <1>1, <1>3, <1>4, <1>5

\* A filter of the parent is a set of keys, not negated.
LEMMA ParentFilter ==
    ASSUME NEW f \in ParentFilters
    PROVE  /\ f.exclude = FALSE
           /\ parent = None => f.value = {None}
           /\ parent # None => f.value \subseteq parent
<1>1. CASE parent = None  BY <1>1 DEF ParentFilters
<1>2. CASE parent # None
  <2>1. PICK v \in {parent} \cup {{p} : p \in parent} :
           f = [value |-> v, list |-> TRUE, exclude |-> FALSE]
        BY <1>2 DEF ParentFilters
  <2> QED BY <1>2, <2>1
<1> QED BY <1>1, <1>2

\* It lets nothing through that is not inside.
LEMMA ParentSelects ==
    ASSUME NEW f \in ParentFilters, NEW rows, NEW r \in Select(rows, <<Owner>>, f)
    PROVE  Inside(r)
<1>1. Lookup(<<Owner>>) = "exact"  BY DEF Lookup
<1>2. <<Owner>>[1] = Owner  OBVIOUS
<1>3. Meets(r, <<Owner>>, f) = (r[Owner] \in f.value)
      BY <1>1, <1>2 DEF Meets, Operands
<1>4. Meets(r, <<Owner>>, f) <=> ~f.exclude  BY DEF Select
<1>5. r[Owner] \in f.value  BY <1>3, <1>4, ParentFilter
<1> QED BY <1>5, ParentFilter DEF Inside

LEMMA ApplyInv == ASSUME IInv, NEW k \in pending, Apply(k) PROVE IInv'
<1>1. /\ UNCHANGED <<query, route, parent, filters, Asked>> /\ pc = "apply"
      /\ pc' \in {"apply", "error"} /\ pending' = pending \ {k}
      BY DEF Apply, Asked
<1>2. ParentIsMeant' /\ route' \in Routes
      BY <1>1 DEF IInv, ParentIsMeant
<1>3. ASSUME pc' = "apply", parent # Absent, <<Owner>> \notin pending', NEW r \in qs'
      PROVE  Inside(r)
  <2>1. <<Owner>> \in DOMAIN filters /\ filters[<<Owner>>] \in ParentFilters
        BY <1>1, <1>3 DEF IInv, ParentHasLastWord
  <2>2. CASE <<Owner>> \notin pending
    <3>1. r \in qs  BY <1>3 DEF Apply, Select
    <3> QED BY <1>1, <1>3, <2>2, <3>1 DEF IInv, ParentHasLastWord
  <2>3. CASE <<Owner>> \in pending
    <3>1. k = <<Owner>>  BY <1>1, <1>3, <2>3
    <3>2. IsLookup(k)  BY <3>1 DEF IsLookup, Lookup, Lookups
    <3>3. qs' = Select(qs, <<Owner>>, filters[<<Owner>>])
          BY <1>1, <1>3, <3>1, <3>2 DEF Apply
    <3> QED BY <1>3, <2>1, <3>3, ParentSelects
  <2> QED BY <2>2, <2>3
<1>4. ParentHasLastWord'
      BY <1>1, <1>3 DEF IInv, ParentHasLastWord, ParentFilters, Inside
<1> QED BY <1>1, <1>2, <1>4 DEF IInv

LEMMA DefaultsInv == ASSUME IInv, Defaults PROVE IInv'
<1>1. /\ UNCHANGED <<query, route, parent, Asked>> /\ pc = "read" /\ pc' = "apply"
      /\ pending' = DOMAIN filters'
      BY DEF Defaults, Asked
<1>2. ASSUME parent # Absent
      PROVE  <<Owner>> \in DOMAIN filters' /\ filters'[<<Owner>>] \in ParentFilters
  <2>1. PICK f \in ParentFilters : filters' = With(filters, <<Owner>>, f)
        BY <1>2 DEF Defaults
  <2> QED BY <2>1 DEF With
<1> QED BY <1>1, <1>2 DEF IInv, ParentIsMeant, ParentHasLastWord, ParentFilters

LEMMA AlwaysInside == Spec => []IInv
<1>1. IInv /\ [Next]_vars => IInv'
  <2> SUFFICES ASSUME IInv, [Next]_vars PROVE IInv'  OBVIOUS
  <2>1. CASE GetResources  BY <2>1, GetResourcesInv
  <2>2. ASSUME NEW n \in todo, ReadParam(n) PROVE IInv'
    <3>1. /\ UNCHANGED <<query, route, parent, Asked>> /\ pc = "read"
          /\ pc' \in {"read", "invalid"}
          BY <2>2 DEF ReadParam, Asked
    <3> QED BY <3>1 DEF IInv, ParentIsMeant, ParentHasLastWord
  <2>3. CASE Defaults  BY <2>3, DefaultsInv
  <2>4. ASSUME NEW k \in pending, Apply(k) PROVE IInv'  BY <2>4, ApplyInv
  <2>5. CASE Evaluate
    <3>1. /\ UNCHANGED <<query, route, parent, filters, pending, qs, Asked>>
          /\ pc = "apply" /\ pending = {} /\ pc' \in {"answered", "error"}
          BY <2>5 DEF Evaluate, Asked
    <3> QED BY <3>1 DEF IInv, ParentIsMeant, ParentHasLastWord, ParentFilters, Inside
  <2>6. CASE UNCHANGED vars
    <3>1. UNCHANGED <<pc, query, route, parent, filters, pending, qs, Asked>>
          BY <2>6 DEF vars, Asked
    <3> QED BY <3>1 DEF IInv, ParentIsMeant, ParentHasLastWord, ParentFilters, Inside
  <2> QED BY <2>1, <2>2, <2>3, <2>4, <2>5, <2>6 DEF Next
<1> QED BY <1>1, InitInv, PTL DEF Spec

\* Whatever its query says, a listing below a parent shows only rows of that parent
\* (StaysInside).
THEOREM ListingStaysInside == Spec => []StaysInside
BY AlwaysInside, InvStaysInside, PTL

-----------------------------------------------------------------------------
(***************************************************************************)
(* The keys that parameters get, and what the filter under a key selects.  *)
(***************************************************************************)
HIDE FiltersAssumption

KeyOf(n) == Key(n, query[n])

FilterOf(n) ==
    [value |-> Value(query[n]), list |-> Len(query[n]) > 1, exclude |-> Negated(n)]

LEMMA OneOrMore ==
    ASSUME NEW l \in Nat \ {0}
    PROVE  (l > 1 \/ l = 1) /\ ~(l > 1 /\ l = 1) /\ (l # 1 => l + 1 > 2) /\ ~(l + 1 > 2 /\ l + 1 <= 2)
           /\ (l > 2 => ~(l <= 2))
OBVIOUS

LEMMA TokensOfField ==
    ASSUME NEW n \in Names, n[1] \in Fields
    PROVE  LET S == ToSet(n) IN
           /\ Tokens(n) \in Seq(S) /\ Len(Tokens(n)) \in Nat \ {0}
           /\ Tokens(n)[1] = n[1]
           /\ Tokens(n) = <<n[1]>> <=> Len(Tokens(n)) = 1
<1> DEFINE S == ToSet(n)
<1>1. n \in Seq(S) /\ n # <<>>  BY FiltersAssumption
<1>2. Len(n) \in Nat \ {0} /\ \A i \in 1..Len(n) : n[i] \in S
      BY <1>1, EmptySeq, ElementOfSeq
<1> HIDE DEF S
<1>3. Tokens(n) \in Seq(S) /\ Len(Tokens(n)) \in Nat \ {0} /\ Tokens(n)[1] = n[1]
  <2>1. CASE ~Negated(n)  BY <1>1, <1>2, <2>1 DEF Tokens
  <2>2. CASE Negated(n)
    <3>1. n[Len(n)] = "not" /\ n[1] # "not"
          BY <2>2, FiltersAssumption DEF Negated, Last, Fields
    <3>2. Len(n) >= 2  BY <1>2, <3>1
    <3>3. Tokens(n) = SubSeq(n, 1, Len(n) - 1)  BY <2>2 DEF Tokens, Front
    <3>4. 1 \in Int /\ Len(n) - 1 \in Int /\ \A i \in 1..(Len(n) - 1) : n[i] \in S  BY <1>2
    <3>5. /\ SubSeq(n, 1, Len(n) - 1) \in Seq(S)
          /\ Len(SubSeq(n, 1, Len(n) - 1)) = IF 1 <= Len(n) - 1 THEN (Len(n) - 1) - 1 + 1 ELSE 0
          /\ \A i \in 1 .. ((Len(n) - 1) - 1 + 1) : SubSeq(n, 1, Len(n) - 1)[i] = n[1 + i - 1]
          BY <3>4, SubSeqProperties
    <3>6. Len(Tokens(n)) = Len(n) - 1  BY <1>2, <3>2, <3>3, <3>5
    <3>7. Tokens(n)[1] = n[1]
      <4>1. 1 \in 1 .. ((Len(n) - 1) - 1 + 1) /\ 1 + 1 - 1 = 1  BY <1>2, <3>2
      <4> QED BY <3>3, <3>5, <4>1
    <3> QED BY <1>2, <3>2, <3>3, <3>5, <3>6, <3>7
  <2> QED BY <2>1, <2>2
<1>4. Len(Tokens(n)) = 1 => Tokens(n) = <<n[1]>>
  <2> SUFFICES ASSUME Len(Tokens(n)) = 1 PROVE Tokens(n) = <<n[1]>>  OBVIOUS
  <2>1. <<n[1]>> \in Seq(S) /\ Len(<<n[1]>>) = 1 /\ <<n[1]>>[1] = n[1]
    <3>1. n[1] \in S  BY <1>2
    <3> QED BY <3>1
  <2>2. \A i \in 1..Len(Tokens(n)) : Tokens(n)[i] = <<n[1]>>[i]  BY <1>3, <2>1
  <2> QED BY <1>3, <2>1, <2>2, SeqEqual
<1>5. Tokens(n) = <<n[1]>> => Len(Tokens(n)) = 1  BY <1>3
<1> QED BY <1>3, <1>4, <1>5 DEF S

Query == query \in Queries

LEMMA QueryTypes ==
    ASSUME Query, NEW n \in DOMAIN query
    PROVE  n \in Names /\ query[n] \in Seq(Values) /\ Len(query[n]) \in Nat \ {0}
<1>1. PICK ns \in SUBSET Names : query \in [ns -> ValueLists]  BY DEF Query, Queries
<1>2. n \in Names /\ query[n] \in ValueLists  BY <1>1
<1>3. query[n] \in Seq(Values) /\ query[n] # <<>>  BY <1>2, FiltersAssumption
<1> QED BY <1>2, <1>3, EmptySeq

\* A parameter is understood if its key is.
LEMMA KeyIsLookup ==
    ASSUME Query, NEW n \in DOMAIN query, n[1] \in Fields
    PROVE  /\ KeyOf(n)[1] = n[1] /\ Len(KeyOf(n)) \in Nat \ {0}
           /\ Understood(n) <=> IsLookup(KeyOf(n))
           /\ Understood(n) =>
                 IF Len(query[n]) > 1 THEN Tokens(n) = <<n[1]>> /\ Lookup(KeyOf(n)) = "in"
                                      ELSE KeyOf(n) = Tokens(n)
<1>0. n \in Names /\ Len(query[n]) \in Nat \ {0}  BY QueryTypes
<1> DEFINE t == Tokens(n)
<1>1. PICK S : t \in Seq(S) /\ Len(t) \in Nat \ {0} /\ t[1] = n[1] /\ (t = <<n[1]>> <=> Len(t) = 1)
      BY <1>0, TokensOfField
<1>2. Understood(n) <=> t = <<n[1]>> \/ (Len(query[n]) = 1 /\ IsLookup(t))  BY DEF Understood
<1>3. CASE Len(query[n]) > 1
  <2>1. KeyOf(n) = Append(t, "in")  BY <1>3 DEF KeyOf, Key
  <2> HIDE DEF t
  <2>2. t \in Seq(S \cup {"in"}) /\ "in" \in S \cup {"in"}
    <3>1. S \subseteq S \cup {"in"}  OBVIOUS
    <3>2. t \in Seq(S \cup {"in"})
      <4>1. \A i \in 1..Len(t) : t[i] \in S \cup {"in"}  BY <1>1, ElementOfSeq
      <4> QED BY <1>1, <4>1
    <3> QED BY <3>2
  <2>3. /\ Len(Append(t, "in")) = Len(t) + 1
        /\ \A i \in 1..Len(t) : Append(t, "in")[i] = t[i]
        /\ Append(t, "in")[Len(t) + 1] = "in"
        BY <2>2, AppendProperties
  <2>4. KeyOf(n)[1] = n[1] /\ Len(KeyOf(n)) = Len(t) + 1  BY <1>1, <2>1, <2>3
  <2>5. CASE Len(t) = 1
    <3>1. KeyOf(n)[2] = "in" /\ Len(KeyOf(n)) = 2  BY <2>1, <2>3, <2>5
    <3>2. Lookup(KeyOf(n)) = "in" /\ IsLookup(KeyOf(n))  BY <3>1 DEF Lookup, IsLookup, Lookups
    <3> QED BY <1>1, <1>2, <1>3, <2>4, <2>5, <3>2 DEF t
  <2>6. CASE Len(t) # 1
    <3>1. Len(KeyOf(n)) > 2  BY <1>1, <2>4, <2>6, OneOrMore
    <3>2. ~IsLookup(KeyOf(n))  BY <1>1, <2>4, <3>1 DEF IsLookup
    <3>3. ~Understood(n)  BY <1>0, <1>1, <1>2, <1>3, <2>6, OneOrMore
    <3> QED BY <1>1, <2>4, <3>2, <3>3
  <2> QED BY <2>5, <2>6
<1>4. CASE ~(Len(query[n]) > 1)
  <2>0. Len(query[n]) = 1  BY <1>0, <1>4, OneOrMore
  <2>1. KeyOf(n) = t /\ Len(query[n]) = 1  BY <1>4, <2>0 DEF KeyOf, Key
  <2>2. t = <<n[1]>> => IsLookup(t)  BY <1>1 DEF IsLookup, Lookup, Lookups
  <2> QED BY <1>1, <1>2, <1>4, <2>1, <2>2
<1> QED BY <1>3, <1>4

\* The values a parameter has its field compared with are those Wrong looks at.
LEMMA ComparedValues ==
    ASSUME Query, NEW n \in DOMAIN query, n[1] \in Fields, Understood(n)
    PROVE  /\ Bad \in Operands(KeyOf(n), FilterOf(n)) <=> Wrong(n)
           /\ Lookup(Tokens(n)) = "in" =>
                 Operands(KeyOf(n), FilterOf(n)) = UNION {Chars[v] : v \in ToSet(query[n])}
           /\ Lookup(Tokens(n)) # "in" => Operands(KeyOf(n), FilterOf(n)) = ToSet(query[n])
<1>1. FilterOf(n).value = ToSet(query[n]) /\ FilterOf(n).list = (Len(query[n]) > 1)
      BY DEF FilterOf, Value
<1>2. CASE Len(query[n]) > 1
  <2>1. Tokens(n) = <<n[1]>>  BY <1>2, KeyIsLookup
  <2>2. Lookup(Tokens(n)) = "exact"  BY <2>1 DEF Lookup
  <2>3. Operands(KeyOf(n), FilterOf(n)) = ToSet(query[n])  BY <1>1, <1>2 DEF Operands
  <2> QED BY <2>2, <2>3 DEF Wrong, Compared
<1>3. CASE ~(Len(query[n]) > 1)
  <2>1. KeyOf(n) = Tokens(n)  BY <1>3, KeyIsLookup
  <2>2. ~FilterOf(n).list  BY <1>1, <1>3
  <2>3. CASE Lookup(Tokens(n)) = "in"
    <3>1. Operands(KeyOf(n), FilterOf(n)) = UNION {Chars[v] : v \in ToSet(query[n])}
          BY <1>1, <2>1, <2>2, <2>3 DEF Operands
    <3> QED BY <2>3, <3>1 DEF Wrong, Compared
  <2>4. CASE Lookup(Tokens(n)) # "in"
    <3>1. Operands(KeyOf(n), FilterOf(n)) = ToSet(query[n])
          BY <1>1, <2>1, <2>4 DEF Operands
    <3> QED BY <2>4, <3>1 DEF Wrong, Compared
  <2> QED BY <2>3, <2>4
<1> QED BY <1>2, <1>3

\* A row passes the filter if it is what the parameter asks for.
Passes(r, k, f) == IsLookup(k) => (Meets(r, k, f) <=> ~f.exclude)

LEMMA PassesWhatIsAsked ==
    ASSUME Query, NEW n \in DOMAIN query, n[1] \in Fields, NEW r \in Table,
           IsLookup(KeyOf(n)) => ~Wrong(n)
    PROVE  Passes(r, KeyOf(n), FilterOf(n)) <=> Asks(r, n)
<1>1. CASE ~Understood(n)  BY <1>1, KeyIsLookup DEF Passes, Asks
<1>2. CASE Understood(n)
  <2> DEFINE x == r[n[1]]
             k == KeyOf(n)
             f == FilterOf(n)
             vs == ToSet(query[n]) \ {Bad}
             yes == \/ Lookup(Tokens(n)) = "exact" /\ x \in vs
                    \/ Lookup(Tokens(n)) = "in" /\ \E v \in ToSet(query[n]) : x \in Chars[v]
                    \/ Lookup(Tokens(n)) = "gt" /\ x # None /\ \E v \in vs : x > v
  <2>1. x # Bad
    <3>1. r[Owner] \in Owners \cup {None} /\ r[Number] \in Numbers  BY DEF Table
    <3> QED BY <3>1, FiltersAssumption DEF Fields
  <2>2. IsLookup(k) /\ k[1] = n[1] /\ ~Wrong(n)  BY <1>2, KeyIsLookup
  <2>3. f.value = ToSet(query[n]) /\ f.exclude = Negated(n)  BY DEF FilterOf, Value
  <2>8. ASSUME Meets(r, k, f) <=> yes PROVE Passes(r, k, f) <=> Asks(r, n)
    <3>1. Passes(r, k, f) <=> (Meets(r, k, f) <=> ~Negated(n))  BY <2>2, <2>3 DEF Passes
    <3>2. Asks(r, n) <=> (yes <=> ~Negated(n))  BY <1>2 DEF Asks
    <3> HIDE DEF x, k, f, vs, yes
    <3> QED BY <2>8, <3>1, <3>2
  <2>4. CASE Lookup(Tokens(n)) = "in"
    <3>1. Lookup(k) # "gt"
      <4>1. CASE Len(query[n]) > 1  BY <1>2, <4>1, KeyIsLookup
      <4>2. CASE ~(Len(query[n]) > 1)
        <5>1. k = Tokens(n)  BY <1>2, <4>2, KeyIsLookup
        <5> QED BY <2>4, <5>1
      <4> QED BY <4>1, <4>2
    <3>2. Operands(k, f) = UNION {Chars[v] : v \in ToSet(query[n])}  BY <1>2, <2>4, ComparedValues
    <3>3. Meets(r, k, f) <=> \E v \in ToSet(query[n]) : x \in Chars[v]
          BY <2>2, <3>1, <3>2 DEF Meets
    <3>4. yes <=> \E v \in ToSet(query[n]) : x \in Chars[v]  BY <2>4
    <3> QED BY <3>3, <3>4, <2>8
  <2>5. CASE Lookup(Tokens(n)) = "exact"
    <3>1. Lookup(k) # "gt"
      <4>1. CASE Len(query[n]) > 1  BY <1>2, <4>1, KeyIsLookup
      <4>2. CASE ~(Len(query[n]) > 1)
        <5>1. k = Tokens(n)  BY <1>2, <4>2, KeyIsLookup
        <5> QED BY <2>5, <5>1
      <4> QED BY <4>1, <4>2
    <3>2. Operands(k, f) = ToSet(query[n])  BY <1>2, <2>5, ComparedValues
    <3>3. Meets(r, k, f) <=> x \in vs
          BY <2>1, <2>2, <3>1, <3>2 DEF Meets
    <3>4. yes <=> x \in vs  BY <2>5
    <3> QED BY <3>3, <3>4, <2>8
  <2>6. CASE Lookup(Tokens(n)) = "gt"
    <3>1. k = Tokens(n)
      <4>1. CASE Len(query[n]) > 1
        <5>1. Tokens(n) = <<n[1]>>  BY <1>2, <4>1, KeyIsLookup
        <5> QED BY <2>6, <5>1 DEF Lookup
      <4>2. CASE ~(Len(query[n]) > 1)  BY <1>2, <4>2, KeyIsLookup
      <4> QED BY <4>1, <4>2
    <3>2. Bad \notin ToSet(query[n])  BY <2>2, <2>6 DEF Wrong, Compared
    <3>3. Meets(r, k, f) <=> (x # None /\ \E v \in vs : x > v)
          BY <2>2, <2>3, <2>6, <3>1, <3>2 DEF Meets
    <3>4. yes <=> (x # None /\ \E v \in vs : x > v)  BY <2>6
    <3> QED BY <3>3, <3>4, <2>8
  <2>7. Lookup(Tokens(n)) \in {"exact", "in", "gt"}
    <3>1. CASE Len(query[n]) > 1
      <4>1. Tokens(n) = <<n[1]>>  BY <1>2, <3>1, KeyIsLookup
      <4> QED BY <4>1 DEF Lookup
    <3>2. CASE ~(Len(query[n]) > 1)
      <4>1. KeyOf(n) = Tokens(n)  BY <1>2, <3>2, KeyIsLookup
      <4> QED BY <2>2, <4>1 DEF IsLookup, Lookups
    <3> QED BY <3>1, <3>2
  <2> QED BY <2>4, <2>5, <2>6, <2>7
<1> QED BY <1>1, <1>2

-----------------------------------------------------------------------------
(***************************************************************************)
(* The inductive invariant: every filter is the parent's, or that of one   *)
(* of the parameters with its key, and the queryset is what the filters    *)
(* that have been applied let through.                                     *)
(***************************************************************************)
Taken(k) == pc # "read" /\ parent # Absent /\ k = <<Owner>>

Kept(K) ==
    /\ \A n \in K : /\ n \in DOMAIN query \ todo /\ n[1] \in Fields /\ ~Taken(KeyOf(n))
                   /\ KeyOf(n) \in DOMAIN filters /\ filters[KeyOf(n)] = FilterOf(n)
    /\ \A m, n \in K : KeyOf(m) = KeyOf(n) => m = n
    /\ \A n \in DOMAIN query \ todo :
         n[1] \in Fields => Taken(KeyOf(n)) \/ \E m \in K : KeyOf(m) = KeyOf(n)
    /\ \A k \in DOMAIN filters : Taken(k) \/ \E n \in K : KeyOf(n) = k

Applied ==
    /\ todo = {} /\ pending \subseteq DOMAIN filters
    /\ parent # Absent => <<Owner>> \in DOMAIN filters /\ filters[<<Owner>>] \in ParentFilters
    /\ qs = {r \in Table : \A k \in DOMAIN filters \ pending : Passes(r, k, filters[k])}
    /\ \A k \in DOMAIN filters \ pending : IsLookup(k) => Bad \notin Operands(k, filters[k])

Deserved ==
    /\ pc = "not found" => \/ route = Missing
                           \/ route \in {Absent, None} /\ ~(ToSet(Asked) \subseteq Owners)
    /\ pc = "invalid" => \E n \in DOMAIN query : Wrong(n) /\ n[1] = Number
    /\ pc = "error" => \/ ~(ToSet(sort) \subseteq Fields) /\ ~(paged /\ qs = {})
                       \/ SeveralAsked
                       \/ \E n \in DOMAIN query : Wrong(n) /\ Understood(n)

Meaning ==
    /\ Query /\ route \in Routes /\ todo \subseteq DOMAIN query
    /\ parent \in {Absent, None} \cup SUBSET Owners
    /\ pc = "resources" => filters = <<>>
    /\ pc \in {"resources", "read"} => qs = Table
    /\ pc \in {"read", "apply", "answered"} => \E K \in SUBSET DOMAIN query : Kept(K)
    /\ pc \in {"apply", "answered"} => Applied
    /\ pc = "answered" => pending = {} /\ (ToSet(sort) \subseteq Fields \/ (paged /\ qs = {}))
    /\ Deserved

-----------------------------------------------------------------------------
\* What the filters mean once all have been applied.
LEMMA MeaningOfAnswer ==
    ASSUME Meaning, pc = "answered", NEW K \in SUBSET DOMAIN query, Kept(K)
    PROVE  /\ \A n \in K : n[1] \in Fields /\ ~Overruled(n)
           /\ \A n \in DOMAIN query : n[1] \in Fields => Overruled(n) \/ \E m \in K : Rival(m, n)
           /\ \A m, n \in K : Rival(m, n) => m = n
           /\ \A n \in K : Understood(n) => ~Wrong(n)
           /\ \A r \in Table : r \in qs <=>
                 /\ \A n \in K : Asks(r, n)
                 /\ parent # Absent => Passes(r, <<Owner>>, filters[<<Owner>>])
<1>1. Applied /\ pending = {} /\ todo = {} /\ Query  BY DEF Meaning, Applied
<1>2. /\ \A n \in K : /\ n \in DOMAIN query /\ n[1] \in Fields /\ ~Taken(KeyOf(n))
                      /\ KeyOf(n) \in DOMAIN filters /\ filters[KeyOf(n)] = FilterOf(n)
      /\ \A m, n \in K : KeyOf(m) = KeyOf(n) => m = n
      /\ \A n \in DOMAIN query :
           n[1] \in Fields => Taken(KeyOf(n)) \/ \E m \in K : KeyOf(m) = KeyOf(n)
      /\ \A k \in DOMAIN filters : Taken(k) \/ \E n \in K : KeyOf(n) = k
      BY <1>1 DEF Kept
<1>3. \A n \in DOMAIN query : Taken(KeyOf(n)) <=> Overruled(n)
      BY DEF Taken, Overruled, KeyOf
<1>4. \A m, n \in DOMAIN query : m[1] \in Fields /\ n[1] \in Fields =>
        (Rival(m, n) <=> KeyOf(m) = KeyOf(n))
  <2> SUFFICES ASSUME NEW m \in DOMAIN query, NEW n \in DOMAIN query, m[1] \in Fields, n[1] \in Fields
               PROVE  Rival(m, n) <=> KeyOf(m) = KeyOf(n)
      OBVIOUS
  <2>1. KeyOf(m)[1] = m[1] /\ KeyOf(n)[1] = n[1]  BY <1>1, KeyIsLookup
  <2> QED BY <2>1 DEF Rival, KeyOf
<1>5. ASSUME NEW n \in K, Understood(n) PROVE ~Wrong(n)
  <2>1. IsLookup(KeyOf(n))  BY <1>1, <1>2, <1>5, KeyIsLookup
  <2>2. Bad \notin Operands(KeyOf(n), FilterOf(n))  BY <1>1, <1>2, <2>1 DEF Applied
  <2> QED BY <1>1, <1>2, <1>5, <2>2, ComparedValues
<1>6. ASSUME NEW n \in K, NEW r \in Table
      PROVE  Passes(r, KeyOf(n), filters[KeyOf(n)]) <=> Asks(r, n)
  <2>1. IsLookup(KeyOf(n)) => ~Wrong(n)  BY <1>1, <1>2, <1>5, KeyIsLookup
  <2> QED BY <1>1, <1>2, <2>1, PassesWhatIsAsked
<1>7. ASSUME NEW r \in Table
      PROVE  r \in qs <=> /\ \A n \in K : Asks(r, n)
                          /\ parent # Absent => Passes(r, <<Owner>>, filters[<<Owner>>])
  <2>1. r \in qs <=> \A k \in DOMAIN filters : Passes(r, k, filters[k])
        BY <1>1 DEF Applied
  <2>2. ASSUME \A k \in DOMAIN filters : Passes(r, k, filters[k])
        PROVE  /\ \A n \in K : Asks(r, n)
               /\ parent # Absent => Passes(r, <<Owner>>, filters[<<Owner>>])
        BY <1>1, <1>2, <1>6, <2>2 DEF Applied
  <2>3. ASSUME \A n \in K : Asks(r, n),
               parent # Absent => Passes(r, <<Owner>>, filters[<<Owner>>]),
               NEW k \in DOMAIN filters
        PROVE  Passes(r, k, filters[k])
        BY <1>2, <1>6, <2>3 DEF Taken
  <2> QED BY <2>1, <2>2, <2>3
<1>8. \A n \in DOMAIN query : n[1] \in Fields => Overruled(n) \/ \E m \in K : Rival(m, n)
      BY <1>2, <1>3, <1>4
<1>9. \A m, n \in K : Rival(m, n) => m = n  BY <1>2, <1>4
<1> QED BY <1>2, <1>3, <1>5, <1>7, <1>8, <1>9

LEMMA MeaningDeserved ==
    ASSUME Meaning
    PROVE  FailuresAreDeserved
<1>1. ASSUME pc = "answered", NEW n \in DOMAIN query, Wrong(n), Understood(n), ~Overruled(n)
      PROVE  \E m \in DOMAIN query \ {n} : Rival(m, n)
  <2>1. PICK K \in SUBSET DOMAIN query : Kept(K)  BY <1>1 DEF Meaning
  <2>2. PICK m \in K : Rival(m, n)  BY <1>1, <2>1, MeaningOfAnswer DEF Wrong
  <2>3. n \notin K  BY <1>1, <2>1, MeaningOfAnswer
  <2> QED BY <2>2, <2>3
<1> QED BY <1>1 DEF FailuresAreDeserved, Meaning, Deserved

LEMMA MeaningMeansQuery ==
    ASSUME Meaning
    PROVE  AnswerMeansQuery
<1> SUFFICES ASSUME pc = "answered"
             PROVE  \E kept \in SUBSET {n \in DOMAIN query : ~Overruled(n)} :
                       /\ \A m, n \in kept : Rival(m, n) => m = n
                       /\ \A n \in DOMAIN query : Overruled(n) \/ \E m \in kept : Rival(m, n)
                       /\ \E ps \in IF parent \in {Absent, None} THEN {parent}
                                    ELSE {parent} \cup {{p} : p \in parent} :
                             qs = {r \in Table :
                                     /\ \A n \in kept : Asks(r, n)
                                     /\ ps = None => r[Owner] = None
                                     /\ ps \notin {Absent, None} => r[Owner] \in ps}
    BY DEF AnswerMeansQuery
<1>1. PICK K \in SUBSET DOMAIN query : Kept(K)  BY DEF Meaning
\* One of each of the parameters that name no field, which ask nothing.
<1> DEFINE Rivals(n) == {m \in DOMAIN query : Rival(m, n)}
           One(S) == CHOOSE m \in S : TRUE
           R == {n \in DOMAIN query : n[1] \notin Fields /\ ~Overruled(n) /\ n = One(Rivals(n))}
           kept == K \cup R
           Picks == IF parent \in {Absent, None} THEN {parent} ELSE {parent} \cup {{p} : p \in parent}
           Answer(kp, ps) == {r \in Table :
              /\ \A n \in kp : Asks(r, n)
              /\ ps = None => r[Owner] = None
              /\ ps \notin {Absent, None} => r[Owner] \in ps}
           Means(ps) ==
              \A r \in Table : (parent # Absent => Passes(r, <<Owner>>, filters[<<Owner>>]))
                             <=> /\ ps = None => r[Owner] = None
                                 /\ ps \notin {Absent, None} => r[Owner] \in ps
<1>2. /\ \A n \in K : n[1] \in Fields /\ ~Overruled(n)
      /\ \A n \in DOMAIN query : n[1] \in Fields => Overruled(n) \/ \E m \in K : Rival(m, n)
      /\ \A m, n \in K : Rival(m, n) => m = n
      /\ \A r \in Table : r \in qs <=>
            /\ \A n \in K : Asks(r, n)
            /\ parent # Absent => Passes(r, <<Owner>>, filters[<<Owner>>])
      BY <1>1, MeaningOfAnswer
<1>3. kept \in SUBSET {n \in DOMAIN query : ~Overruled(n)}  BY <1>1, <1>2
<1>4. \A m, n \in DOMAIN query : Rival(m, n) => Rivals(m) = Rivals(n)  BY DEF Rival
<1>5. \A m, n \in kept : Rival(m, n) => m = n
  <2> SUFFICES ASSUME NEW m \in kept, NEW n \in kept, Rival(m, n) PROVE m = n  OBVIOUS
  <2>1. m[1] = n[1]  BY DEF Rival
  <2>2. CASE m \in K /\ n \in K  BY <1>2, <2>2
  <2>3. CASE m \in R /\ n \in R  BY <1>4, <2>3
  <2> QED BY <1>2, <2>1, <2>2, <2>3
<1>6. ASSUME NEW n \in DOMAIN query, ~Overruled(n) PROVE \E m \in kept : Rival(m, n)
  <2>1. CASE n[1] \in Fields  BY <1>2, <1>6, <2>1
  <2>2. CASE n[1] \notin Fields
    <3>1. n \in Rivals(n)  BY DEF Rival
    <3> DEFINE m == One(Rivals(n))
    <3>2. m \in DOMAIN query /\ Rival(m, n)  BY <3>1
    <3>3. m[1] \notin Fields /\ ~Overruled(m)  BY <1>6, <2>2, <3>2 DEF Rival, Overruled
    <3>4. m = One(Rivals(m))  BY <1>4, <3>2
    <3> HIDE DEF m, Rivals, One
    <3> QED BY <3>2, <3>3, <3>4
  <2> QED BY <2>1, <2>2
<1>7. \A n \in R, r \in Table : Asks(r, n)  BY DEF Asks, Understood
<1>8. \A r \in Table : (\A n \in K : Asks(r, n)) <=> (\A n \in kept : Asks(r, n))  BY <1>7
<1>9. parent \in {Absent, None} \cup SUBSET Owners /\ None # Absent
      /\ \A ps \in SUBSET Owners : ps \notin {None, Absent}
      BY FiltersAssumption DEF Meaning
<1>10. qs \subseteq Table  BY DEF Meaning, Applied
<1>11. ASSUME NEW ps, Means(ps)
       PROVE  qs = Answer(kept, ps)
  <2> HIDE DEF kept
  <2> QED BY <1>2, <1>8, <1>10, <1>11
<1>12. ASSUME parent # Absent, NEW v, filters[<<Owner>>].value = v, ~filters[<<Owner>>].exclude, NEW r \in Table
       PROVE  Passes(r, <<Owner>>, filters[<<Owner>>]) <=> r[Owner] \in v
  <2>1. Lookup(<<Owner>>) = "exact" /\ IsLookup(<<Owner>>) /\ <<Owner>>[1] = Owner
        BY DEF Lookup, IsLookup, Lookups
  <2> QED BY <1>12, <2>1 DEF Passes, Meets, Operands
<1>13. \E ps \in Picks : Means(ps)
  <2>1. CASE parent = Absent  BY <1>9, <2>1
  <2>2. parent # Absent => filters[<<Owner>>] \in ParentFilters  BY DEF Meaning, Applied
  <2>3. CASE parent = None
    <3>1. filters[<<Owner>>].value = {None} /\ ~filters[<<Owner>>].exclude
          BY <1>9, <2>2, <2>3 DEF ParentFilters
    <3> QED BY <1>9, <1>12, <2>3, <3>1
  <2>4. CASE parent \notin {Absent, None}
    <3>1. PICK v \in {parent} \cup {{p} : p \in parent} :
             filters[<<Owner>>] = [value |-> v, list |-> TRUE, exclude |-> FALSE]
          BY <2>2, <2>4 DEF ParentFilters
    <3>2. v \in SUBSET Owners  BY <1>9, <2>4
    <3>3. v \notin {Absent, None}  BY <1>9, <3>2
    <3>4. \A r \in Table : Passes(r, <<Owner>>, filters[<<Owner>>]) <=> r[Owner] \in v
      <4>1. filters[<<Owner>>].value = v /\ ~filters[<<Owner>>].exclude  BY <3>1
      <4> QED BY <1>12, <2>4, <4>1
    <3>5. Means(v)  BY <2>4, <3>3, <3>4
    <3>6. v \in Picks  BY <2>4
    <3> HIDE DEF Means, Picks
    <3> QED BY <3>5, <3>6
  <2> QED BY <2>1, <2>3, <2>4
<1>14. \E ps \in Picks : qs = Answer(kept, ps)
  <2>1. PICK ps \in Picks : Means(ps)  BY <1>13
  <2>2. qs = Answer(kept, ps)
    <3> HIDE DEF kept, Means
    <3> QED BY <1>11, <2>1
  <2> HIDE DEF kept, Picks, Means, Answer
  <2> QED BY <2>2
<1>15. \A n \in DOMAIN query : Overruled(n) \/ \E m \in kept : Rival(m, n)  BY <1>6
<1> HIDE DEF kept
<1> QED BY <1>3, <1>5, <1>14, <1>15

-----------------------------------------------------------------------------
\* Every step keeps the meaning.
LEMMA SameQuery ==
    ASSUME UNCHANGED query
    PROVE  /\ (Query' <=> Query) /\ Asked' = Asked
           /\ \A n : /\ KeyOf(n)' = KeyOf(n) /\ FilterOf(n)' = FilterOf(n)
                    /\ (Wrong(n)' <=> Wrong(n)) /\ (Understood(n)' <=> Understood(n))
BY DEF Query, Asked, KeyOf, FilterOf, Wrong, Compared, Understood

LEMMA MeaningInit ==
    ASSUME Init
    PROVE  Meaning
BY DEF Init, Meaning, Query, Deserved

LEMMA MeaningGetResources ==
    ASSUME Meaning, GetResources
    PROVE  Meaning'
<1> DEFINE pks == IF route \in {Flat, Absent, None} THEN Asked ELSE <<route>>
<1>1. /\ UNCHANGED <<query, sort, paged, route, filters, pending, qs>> /\ pc = "resources"
      /\ todo' = DOMAIN query /\ pc' \in {"read", "not found"}
      /\ parent' \in {parent, None, Absent, ToSet(pks) \cap Owners}
      BY DEF GetResources
<1>2. /\ (Query' <=> Query) /\ Asked' = Asked
      BY <1>1, SameQuery
<1>3. parent' \in {Absent, None} \cup SUBSET Owners  BY <1>1 DEF Meaning
<1>4. pc' = "not found" =>
        /\ ~(route = Flat \/ pks = <<>>)
        /\ Bad \in ToSet(pks) \/ (Len(pks) = 1 /\ pks[1] \notin Owners)
      BY DEF GetResources
<1>5. ASSUME ~(route = Flat \/ pks = <<>>),
              Bad \in ToSet(pks) \/ (Len(pks) = 1 /\ pks[1] \notin Owners)
       PROVE  \/ route = Missing
              \/ route \in {Absent, None} /\ ~(ToSet(Asked) \subseteq Owners)
  <2>0. SUFFICES ASSUME route # Missing
                 PROVE  route \in {Absent, None} /\ ~(ToSet(Asked) \subseteq Owners)
        OBVIOUS
  <2>1. /\ ~(route = Flat \/ pks = <<>>)
        /\ Bad \in ToSet(pks) \/ (Len(pks) = 1 /\ pks[1] \notin Owners)
        BY <1>5
  <2>2. Bad \notin Owners  BY FiltersAssumption
  <2>3. route \notin Owners
    <3> SUFFICES ASSUME route \in Owners PROVE FALSE  OBVIOUS
    <3>0. Owners \subseteq Nat /\ \A x \in {None, Absent, Flat} : x \notin Nat
          BY FiltersAssumption
    <3>1. pks = <<route>> /\ DOMAIN <<route>> = {1} /\ <<route>>[1] = route  BY <3>0
    <3>2. ToSet(<<route>>) = {route}  BY <3>1 DEF ToSet
    <3> QED BY <2>1, <2>2, <3>1, <3>2
  <2>4. pks = Asked /\ route \in {Absent, None}
    <3>1. route \in Routes  BY DEF Meaning
    <3> QED BY <2>0, <2>1, <2>3, <3>1 DEF Routes
  <2>5. CASE Bad \in ToSet(Asked)  BY <2>2, <2>4, <2>5
  <2>6. CASE Len(Asked) = 1 /\ Asked[1] \notin Owners
    <3>1. Asked = <<>> \/ (<<Owner>> \in DOMAIN query /\ Asked = query[<<Owner>>])
          BY DEF Asked
    <3>2. Asked # <<>>  BY <2>1, <2>4
    <3>3. Asked \in Seq(Values)  BY <3>1, <3>2, QueryTypes DEF Meaning
    <3>4. DOMAIN Asked = 1..Len(Asked)  BY <3>3, LenProperties
    <3>5. Asked[1] \in ToSet(Asked)
      <4>0. 1 \in 1..1  OBVIOUS
      <4>1. 1 \in DOMAIN Asked  BY <2>6, <3>4, <4>0, Zenon
      <4> QED BY <4>1 DEF ToSet
    <3> QED BY <2>4, <2>6, <3>5
  <2> QED BY <2>1, <2>4, <2>5, <2>6
<1>6. pc' = "not found" => \/ route = Missing
                           \/ route \in {Absent, None} /\ ~(ToSet(Asked) \subseteq Owners)
      BY <1>4, <1>5
<1>7. pc' = "read" => Kept({})'
  <2>1. filters' = <<>>  BY <1>1 DEF Meaning
  <2>2. DOMAIN filters' = {}  BY <2>1
  <2> QED BY <1>1, <2>2 DEF Kept
<1>8. Deserved'  BY <1>1, <1>2, <1>6 DEF Deserved, SeveralAsked
<1>9. qs' = Table /\ route' \in Routes  BY <1>1 DEF Meaning
<1>10. pc' = "read" => \E K \in SUBSET DOMAIN query' : Kept(K)'
  <2>1. {} \in SUBSET DOMAIN query'  OBVIOUS
  <2> QED BY <1>7, <2>1
<1> QED BY <1>1, <1>2, <1>3, <1>8, <1>9, <1>10 DEF Meaning

\* A parameter takes the place of the one with its key.
LEMMA MeaningReadParam ==
    ASSUME Meaning, NEW n \in todo, ReadParam(n)
    PROVE  Meaning'
<1>1. /\ UNCHANGED <<query, sort, paged, route, parent, pending, qs>> /\ pc = "read"
      /\ todo' = todo \ {n} /\ pc' \in {"read", "invalid"} /\ n \in DOMAIN query
      BY DEF ReadParam, Meaning
<1>2. /\ Query /\ Query' /\ Asked' = Asked
      /\ \A m : /\ KeyOf(m)' = KeyOf(m) /\ FilterOf(m)' = FilterOf(m)
               /\ (Wrong(m)' <=> Wrong(m)) /\ (Understood(m)' <=> Understood(m))
      BY <1>1, SameQuery DEF Meaning
<1>3. /\ route' \in Routes /\ parent' \in {Absent, None} \cup SUBSET Owners /\ qs' = Table
      /\ todo' \subseteq DOMAIN query'
      BY <1>1 DEF Meaning
<1>4. CASE pc' = "invalid"
  <2>1. n[1] \in Fields /\ ~Converts(n, query[n])  BY <1>1, <1>4 DEF ReadParam
  <2>2. Tokens(n) = <<Number>> /\ \E i \in DOMAIN query[n] : query[n][i] = Bad
        BY <2>1 DEF Converts
  <2>3. Bad \in ToSet(query[n])  BY <2>2 DEF ToSet
  <2>4. Lookup(Tokens(n)) = "exact"  BY <2>2 DEF Lookup
  <2>5. Wrong(n)  BY <2>1, <2>3, <2>4 DEF Wrong, Compared
  <2>6. n[1] = Number
    <3>1. Tokens(n)[1] = n[1]  BY <1>1, <1>2, <2>1, QueryTypes, TokensOfField
    <3> QED BY <2>2, <3>1
  <2>7. Deserved'  BY <1>1, <1>2, <1>4, <2>5, <2>6 DEF Deserved
  <2> QED BY <1>2, <1>3, <1>4, <2>7 DEF Meaning
<1>5. CASE pc' = "read"
  <2>1. PICK K \in SUBSET DOMAIN query : Kept(K)  BY <1>1 DEF Meaning
  <2>2. \A k : ~Taken(k) /\ ~Taken(k)'  BY <1>1, <1>5 DEF Taken
  <2>3. /\ \A m \in K : /\ m \in DOMAIN query \ todo /\ m[1] \in Fields
                       /\ KeyOf(m) \in DOMAIN filters /\ filters[KeyOf(m)] = FilterOf(m)
        /\ \A l, m \in K : KeyOf(l) = KeyOf(m) => l = m
        /\ \A l \in DOMAIN query \ todo : l[1] \in Fields => \E m \in K : KeyOf(m) = KeyOf(l)
        /\ \A k \in DOMAIN filters : \E m \in K : KeyOf(m) = k
        BY <2>1, <2>2 DEF Kept
  <2>4. \E L \in SUBSET DOMAIN query : Kept(L)'
    <3>1. CASE n[1] \notin Fields
      <4>1. filters' = filters  BY <3>1 DEF ReadParam
      <4>2. Kept(K)'  BY <1>1, <1>2, <2>2, <2>3, <3>1, <4>1 DEF Kept
      <4> QED BY <4>2
    <3>2. CASE n[1] \in Fields
      <4>0. PICK L : L = {m \in K : KeyOf(m) # KeyOf(n)} \cup {n}  OBVIOUS
      <4>1. filters' = With(filters, KeyOf(n), FilterOf(n))
            BY <1>1, <1>5, <3>2 DEF ReadParam, KeyOf, FilterOf
      <4>2. /\ DOMAIN filters' = DOMAIN filters \cup {KeyOf(n)}
            /\ filters'[KeyOf(n)] = FilterOf(n)
            /\ \A k \in DOMAIN filters : k # KeyOf(n) => filters'[k] = filters[k]
            BY <4>1 DEF With
      <4>3. \A m \in L : /\ m \in DOMAIN query' \ todo' /\ m[1] \in Fields
                        /\ KeyOf(m) \in DOMAIN filters' /\ filters'[KeyOf(m)] = FilterOf(m)
            BY <1>1, <2>3, <3>2, <4>0, <4>2
      <4>4. \A l, m \in L : KeyOf(l) = KeyOf(m) => l = m  BY <2>3, <4>0
      <4>5. \A l \in DOMAIN query' \ todo' : l[1] \in Fields => \E m \in L : KeyOf(m) = KeyOf(l)
        <5> SUFFICES ASSUME NEW l \in DOMAIN query, l \notin todo \/ l = n, l[1] \in Fields
                     PROVE  \E m \in L : KeyOf(m) = KeyOf(l)
            BY <1>1
        <5>1. CASE KeyOf(l) = KeyOf(n)  BY <4>0, <5>1
        <5>2. CASE KeyOf(l) # KeyOf(n)  BY <2>3, <4>0, <5>2
        <5> QED BY <5>1, <5>2
      <4>6. \A k \in DOMAIN filters' : \E m \in L : KeyOf(m) = k
        <5> SUFFICES ASSUME NEW k \in DOMAIN filters \cup {KeyOf(n)} PROVE \E m \in L : KeyOf(m) = k
            BY <4>2
        <5>1. CASE k = KeyOf(n)  BY <4>0, <5>1
        <5>2. CASE k # KeyOf(n)  BY <2>3, <4>0, <5>2
        <5> QED BY <5>1, <5>2
      <4>7. L \in SUBSET DOMAIN query  BY <1>1, <4>0
      <4>8. Kept(L)'  BY <1>2, <2>2, <4>3, <4>4, <4>5, <4>6 DEF Kept
      <4> QED BY <4>7, <4>8
    <3> QED BY <3>1, <3>2
  <2>5. Deserved'  BY <1>5 DEF Deserved
  <2> QED BY <1>1, <1>2, <1>3, <1>5, <2>4, <2>5 DEF Meaning
<1> QED BY <1>1, <1>4, <1>5

LEMMA MeaningDefaults ==
    ASSUME Meaning, Defaults
    PROVE  Meaning'
<1>1. /\ UNCHANGED <<query, sort, paged, route, parent, todo, qs>> /\ pc = "read" /\ pc' = "apply"
      /\ todo = {} /\ pending' = DOMAIN filters' /\ qs = Table
      BY DEF Defaults, Meaning
<1>2. /\ Query /\ Query'
      /\ \A n : KeyOf(n)' = KeyOf(n) /\ FilterOf(n)' = FilterOf(n)
      BY <1>1, SameQuery DEF Meaning
<1>3. PICK K \in SUBSET DOMAIN query : Kept(K)  BY <1>1 DEF Meaning
<1>4. /\ \A n \in K : /\ n \in DOMAIN query /\ n[1] \in Fields
                      /\ KeyOf(n) \in DOMAIN filters /\ filters[KeyOf(n)] = FilterOf(n)
      /\ \A m, n \in K : KeyOf(m) = KeyOf(n) => m = n
      /\ \A n \in DOMAIN query : n[1] \in Fields => \E m \in K : KeyOf(m) = KeyOf(n)
      /\ \A k \in DOMAIN filters : \E n \in K : KeyOf(n) = k
      BY <1>1, <1>3 DEF Kept, Taken
<1>5. \A k : Taken(k)' <=> parent # Absent /\ k = <<Owner>>  BY <1>1 DEF Taken
<1>6. /\ parent = Absent => filters' = filters
      /\ parent # Absent =>
           /\ DOMAIN filters' = DOMAIN filters \cup {<<Owner>>}
           /\ filters'[<<Owner>>] \in ParentFilters
           /\ \A k \in DOMAIN filters : k # <<Owner>> => filters'[k] = filters[k]
  <2>1. parent = Absent => filters' = filters  BY DEF Defaults
  <2>2. ASSUME parent # Absent
        PROVE  /\ DOMAIN filters' = DOMAIN filters \cup {<<Owner>>}
               /\ filters'[<<Owner>>] \in ParentFilters
               /\ \A k \in DOMAIN filters : k # <<Owner>> => filters'[k] = filters[k]
    <3>1. PICK f \in ParentFilters : filters' = With(filters, <<Owner>>, f)  BY <2>2 DEF Defaults
    <3> QED BY <3>1 DEF With
  <2> QED BY <2>1, <2>2
<1>7. PICK L : L = {n \in K : parent = Absent \/ KeyOf(n) # <<Owner>>}  OBVIOUS
<1>8. Kept(L)'
  <2>1. \A n \in L : /\ n \in DOMAIN query' \ todo' /\ n[1] \in Fields /\ ~Taken(KeyOf(n))'
                    /\ KeyOf(n) \in DOMAIN filters' /\ filters'[KeyOf(n)] = FilterOf(n)
    <3> SUFFICES ASSUME NEW n \in L
                 PROVE  /\ n \in DOMAIN query' \ todo' /\ n[1] \in Fields /\ ~Taken(KeyOf(n))'
                        /\ KeyOf(n) \in DOMAIN filters' /\ filters'[KeyOf(n)] = FilterOf(n)
        OBVIOUS
    <3>1. n \in K /\ (parent = Absent \/ KeyOf(n) # <<Owner>>)  BY <1>7
    <3>2. n \in DOMAIN query' \ todo' /\ n[1] \in Fields  BY <1>1, <1>4, <3>1
    <3>3. ~Taken(KeyOf(n))'  BY <1>1, <1>2, <3>1 DEF Taken
    <3>4. KeyOf(n) \in DOMAIN filters' /\ filters'[KeyOf(n)] = FilterOf(n)
          BY <1>4, <1>6, <3>1
    <3> QED BY <3>2, <3>3, <3>4
  <2>2. \A m, n \in L : KeyOf(m) = KeyOf(n) => m = n  BY <1>4, <1>7
  <2>3. \A n \in DOMAIN query' \ todo' :
          n[1] \in Fields => (parent # Absent /\ KeyOf(n) = <<Owner>>) \/ \E m \in L : KeyOf(m) = KeyOf(n)
        BY <1>1, <1>4, <1>7
  <2>4. \A k \in DOMAIN filters' : (parent # Absent /\ k = <<Owner>>) \/ \E n \in L : KeyOf(n) = k
        BY <1>4, <1>6, <1>7
  <2>5. \A n : Taken(KeyOf(n))' <=> parent # Absent /\ KeyOf(n) = <<Owner>>
        BY <1>1, <1>2 DEF Taken
  <2> QED BY <1>2, <1>5, <2>1, <2>2, <2>3, <2>4, <2>5 DEF Kept
<1>9. Applied'
  <2>1. DOMAIN filters' \ pending' = {}  BY <1>1
  <2>2. ParentFilters' = ParentFilters  BY <1>1 DEF ParentFilters
  <2>3. qs' = {r \in Table : \A k \in DOMAIN filters' \ pending' : Passes(r, k, filters'[k])}
        BY <1>1, <2>1
  <2> QED BY <1>1, <1>6, <2>1, <2>2, <2>3 DEF Applied
<1>10. L \in SUBSET DOMAIN query'  BY <1>1, <1>7
<1>11. Deserved'  BY <1>1 DEF Deserved
<1> QED BY <1>1, <1>2, <1>8, <1>9, <1>10, <1>11 DEF Meaning

LEMMA MeaningApply ==
    ASSUME Meaning, NEW k \in pending, Apply(k)
    PROVE  Meaning'
<1>1. /\ UNCHANGED <<query, sort, paged, route, parent, todo, filters>> /\ pc = "apply"
      /\ pending' = pending \ {k} /\ pc' \in {"apply", "error"}
      BY DEF Apply
<1>2. /\ Query /\ Query'
      /\ \A n : /\ KeyOf(n)' = KeyOf(n) /\ FilterOf(n)' = FilterOf(n)
               /\ (Wrong(n)' <=> Wrong(n)) /\ (Understood(n)' <=> Understood(n))
      BY <1>1, SameQuery DEF Meaning
<1>3. PICK K \in SUBSET DOMAIN query : Kept(K)  BY <1>1 DEF Meaning
<1>4. Applied /\ k \in DOMAIN filters  BY <1>1 DEF Meaning, Applied
<1>5. CASE pc' = "error"
  <2>1. IsLookup(k) /\ Bad \in Operands(k, filters[k])  BY <1>1, <1>5 DEF Apply
  <2>2. ~Taken(k)
    <3> SUFFICES ASSUME parent # Absent, k = <<Owner>> PROVE FALSE  BY DEF Taken
    <3>1. filters[k] \in ParentFilters  BY <1>4 DEF Applied
    <3>2. filters[k].value \in SUBSET (Owners \cup {None})
      <4>1. parent \in {None} \cup SUBSET Owners  BY DEF Meaning
      <4>2. CASE parent = None  BY <3>1, <4>2 DEF ParentFilters
      <4>3. CASE parent # None
        <5>1. PICK v \in {parent} \cup {{p} : p \in parent} :
                 filters[k] = [value |-> v, list |-> TRUE, exclude |-> FALSE]
              BY <3>1, <4>3 DEF ParentFilters
        <5> QED BY <4>1, <4>3, <5>1
      <4> QED BY <4>2, <4>3
    <3>3. Lookup(k) = "exact"  BY DEF Lookup
    <3>4. Operands(k, filters[k]) = filters[k].value  BY <3>3 DEF Operands
    <3>5. Bad \notin Owners /\ Bad # None  BY FiltersAssumption
    <3> QED BY <2>1, <3>2, <3>4, <3>5
  <2>3. PICK n \in K : KeyOf(n) = k  BY <1>3, <1>4, <2>2 DEF Kept
  <2>4. n \in DOMAIN query /\ n[1] \in Fields /\ filters[k] = FilterOf(n)  BY <1>3, <2>3 DEF Kept
  <2>5. Understood(n)  BY <1>2, <2>1, <2>3, <2>4, KeyIsLookup
  <2>6. Wrong(n)  BY <1>2, <2>1, <2>3, <2>4, <2>5, ComparedValues
  <2>7. Deserved'  BY <1>1, <1>2, <1>5, <2>4, <2>5, <2>6 DEF Deserved
  <2> QED BY <1>1, <1>2, <1>5, <2>7 DEF Meaning
<1>6. CASE pc' = "apply"
  <2>1. Taken(k)' = Taken(k) /\ \A l : Taken(l)' <=> Taken(l)  BY <1>1, <1>6 DEF Taken
  <2>2. \A n : Taken(KeyOf(n))' <=> Taken(KeyOf(n))  BY <1>1, <1>2, <1>6 DEF Taken
  <2>3. Kept(K)'  BY <1>1, <1>2, <1>3, <2>1, <2>2 DEF Kept
  <2>4. /\ IsLookup(k) => Bad \notin Operands(k, filters[k])
        /\ qs' = {r \in qs : Passes(r, k, filters[k])}
    <3>1. CASE ~IsLookup(k)
      <4>1. qs' = qs  BY <3>1 DEF Apply
      <4> QED BY <3>1, <4>1 DEF Passes
    <3>2. CASE IsLookup(k)
      <4>1. Bad \notin Operands(k, filters[k]) /\ qs' = Select(qs, k, filters[k])
            BY <1>6, <3>2 DEF Apply
      <4> QED BY <3>2, <4>1 DEF Select, Passes
    <3> QED BY <3>1, <3>2
  <2>5. DOMAIN filters \ pending' = (DOMAIN filters \ pending) \cup {k}  BY <1>1, <1>4
  <2>6. Applied'
    <3>1. todo' = {} /\ pending' \subseteq DOMAIN filters'  BY <1>1, <1>4 DEF Applied
    <3>2. parent' # Absent => <<Owner>> \in DOMAIN filters' /\ filters'[<<Owner>>] \in ParentFilters'
      <4>1. ParentFilters' = ParentFilters  BY <1>1 DEF ParentFilters
      <4> QED BY <1>1, <1>4, <4>1 DEF Applied
    <3>3. qs' = {r \in Table : \A l \in DOMAIN filters' \ pending' : Passes(r, l, filters'[l])}
          BY <1>1, <1>4, <2>4, <2>5 DEF Applied
    <3>4. \A l \in DOMAIN filters' \ pending' : IsLookup(l) => Bad \notin Operands(l, filters'[l])
          BY <1>1, <1>4, <2>4, <2>5 DEF Applied
    <3> QED BY <3>1, <3>2, <3>3, <3>4 DEF Applied
  <2>7. Deserved'  BY <1>6 DEF Deserved
  <2>8. route' \in Routes /\ parent' \in {Absent, None} \cup SUBSET Owners /\ todo' \subseteq DOMAIN query'
        BY <1>1 DEF Meaning
  <2>9. K \in SUBSET DOMAIN query'  BY <1>1
  <2> QED BY <1>2, <1>6, <2>3, <2>6, <2>7, <2>8, <2>9 DEF Meaning
<1> QED BY <1>1, <1>5, <1>6

\* Steps that leave everything but pc.
LEMMA MeaningStays ==
    ASSUME Meaning, UNCHANGED <<query, sort, paged, route, parent, todo, filters, pending, qs>>,
           \/ pc' = pc
           \/ /\ pc = "apply" /\ pc' = "answered" /\ pending = {}
              /\ ToSet(sort) \subseteq Fields \/ (paged /\ qs = {})
           \/ /\ pc = "apply" /\ pc' = "error"
              /\ SeveralAsked \/ (~(ToSet(sort) \subseteq Fields) /\ ~(paged /\ qs = {}))
    PROVE  Meaning'
<1>1. /\ (Query' <=> Query) /\ Asked' = Asked /\ ParentFilters' = ParentFilters
      /\ \A n : /\ KeyOf(n)' = KeyOf(n) /\ FilterOf(n)' = FilterOf(n)
               /\ (Wrong(n)' <=> Wrong(n)) /\ (Understood(n)' <=> Understood(n))
      BY SameQuery DEF ParentFilters
<1>2. pc' # "error" => \A k : Taken(k)' <=> Taken(k)  BY DEF Taken
<1>3. pc' # "error" => \A n : Taken(KeyOf(n))' <=> Taken(KeyOf(n))  BY <1>1 DEF Taken
<1>4. pc' \in {"read", "apply", "answered"} => \E K \in SUBSET DOMAIN query' : Kept(K)'
  <2> SUFFICES ASSUME pc' \in {"read", "apply", "answered"}
               PROVE  \E K \in SUBSET DOMAIN query' : Kept(K)'
      OBVIOUS
  <2>1. PICK K \in SUBSET DOMAIN query : Kept(K)  BY DEF Meaning
  <2>2. Kept(K)'  BY <1>1, <1>2, <1>3, <2>1 DEF Kept
  <2> QED BY <2>2
<1>5. pc' \in {"apply", "answered"} => Applied'  BY <1>1 DEF Meaning, Applied
<1>6. Deserved'  BY <1>1 DEF Meaning, Deserved, SeveralAsked
<1> QED BY <1>1, <1>4, <1>5, <1>6 DEF Meaning

LEMMA MeaningEvaluate ==
    ASSUME IInv, Meaning, Evaluate
    PROVE  Meaning'
<1>1. /\ pc = "apply" /\ pending = {}
      /\ UNCHANGED <<query, sort, paged, route, parent, todo, filters, pending, qs>>
      BY DEF Evaluate
<1>2. CASE Several /\ pc' = "error"
  <2>1. PICK p \in parent, q \in parent : p # q  BY <1>2 DEF Several
  <2>2. parent \notin {Absent, None} /\ p \in Owners /\ q \in Owners
        BY <1>2 DEF Several, Meaning
  <2>3. /\ route \in Owners => parent = {route}
        /\ (route \in {Absent, None} /\ Asked # <<>>) => parent \subseteq ToSet(Asked)
        /\ (route = None /\ Asked = <<>>) => parent = None
        /\ route # Missing /\ (route = Flat => parent = Absent)
        /\ route = Absent /\ Asked = <<>> => parent = Absent
        BY <1>1 DEF IInv, ParentIsMeant
  <2>4. route \in {Absent, None} /\ Asked # <<>>
        BY <2>1, <2>2, <2>3 DEF Meaning, Routes
  <2>5. SeveralAsked  BY <2>1, <2>2, <2>3, <2>4 DEF SeveralAsked
  <2> QED BY <1>1, <1>2, <2>5, MeaningStays
<1>3. CASE pc' = IF ToSet(sort) \subseteq Fields \/ (paged /\ qs = {}) THEN "answered" ELSE "error"
      BY <1>1, <1>3, MeaningStays
<1> QED BY <1>2, <1>3 DEF Evaluate

LEMMA AlwaysMeaning == Spec => []Meaning
<1>1. Init => Meaning  BY MeaningInit
<1>2. IInv /\ Meaning /\ [Next]_vars => Meaning'
  <2> SUFFICES ASSUME IInv, Meaning, [Next]_vars PROVE Meaning'  OBVIOUS
  <2>1. CASE GetResources  BY <2>1, MeaningGetResources
  <2>2. ASSUME NEW n \in todo, ReadParam(n) PROVE Meaning'  BY <2>2, MeaningReadParam
  <2>3. CASE Defaults  BY <2>3, MeaningDefaults
  <2>4. ASSUME NEW k \in pending, Apply(k) PROVE Meaning'  BY <2>4, MeaningApply
  <2>5. CASE Evaluate  BY <2>5, MeaningEvaluate
  <2>6. CASE UNCHANGED vars  BY <2>6, MeaningStays DEF vars
  <2> QED BY <2>1, <2>2, <2>3, <2>4, <2>5, <2>6 DEF Next
<1> QED BY <1>1, <1>2, AlwaysInside, PTL DEF Spec

\* The rows of a listing are those that satisfy the query, in whatever orders
\* Python visits the two dictionaries (AnswerMeansQuery).
THEOREM ListingMeansQuery == Spec => []AnswerMeansQuery
BY AlwaysMeaning, MeaningMeansQuery, PTL

\* A request is refused for a cause, and an answer is given where there was none
\* (FailuresAreDeserved).
THEOREM ListingFailsForCause == Spec => []FailuresAreDeserved
BY AlwaysMeaning, MeaningDeserved, PTL
=============================================================================
