--------------------------- MODULE RegistryProof ---------------------------
(***************************************************************************)
(* Theorems about Registry, for any number of classes and Apis, and any    *)
(* hierarchy Python accepts.                                               *)
(***************************************************************************)
EXTENDS Registry, FiniteSetTheorems, SequenceTheorems, WellFoundedInduction, TLAPS

-----------------------------------------------------------------------------
\* A set of numbers has a least one.
LEMMA Least ==
    ASSUME NEW S \in SUBSET Nat, S # {}
    PROVE  \E x \in S : \A y \in S : x <= y
<1> DEFINE Below == {0..x : x \in S}
           R == StrictSubsetOrdering(Nat)
<1>1. Below \subseteq FiniteSubsetsOf(Nat) /\ Below # {}
  <2>1. ASSUME NEW x \in S PROVE 0..x \in FiniteSubsetsOf(Nat)
        BY FS_Interval DEF FiniteSubsetsOf
  <2> QED BY <2>1
<1>2. PICK b \in Below : \A d \in Below : <<d, b>> \notin R
  <2> HIDE DEF Below
  <2> QED BY <1>1, FS_StrictSubsetOrderingWellFounded, WFMin, Zenon
<1>3. PICK x \in S : b = 0..x  OBVIOUS
<1>4. ASSUME NEW y \in S, y < x PROVE FALSE
  <2>1. 0..y \in Below  OBVIOUS
  <2>2. <<0..y, 0..x>> \in R  BY <1>4 DEF StrictSubsetOrdering
  <2> QED BY <1>2, <1>3, <2>1, <2>2
<1> QED BY <1>4

USE RegistryAssumption DEF Root, ResourceView, MapResource, AutoJSONRPC

-----------------------------------------------------------------------------
\* What holds of the order s of a class, where m are the orders of all: it ends
\* with Root, has no class twice, and with a class all that this inherits from.
Lineage(s, m) ==
    /\ s # <<>> /\ s[Len(s)] = Root
    /\ \A i, j \in DOMAIN s : s[i] = s[j] => i = j
    /\ \A x \in ToSet(s) : ToSet(m[x]) \subseteq ToSet(s)

Order(c, m) == m[c] \in Seq(1..c) /\ m[c][1] = c /\ Lineage(m[c], m)

\* n classes with these orders and Metas.
Ordered(n, metas, m) ==
    /\ n \in Nat /\ n >= 4
    /\ metas[Root] = Options
    /\ \A c \in 1..n : Order(c, m) /\ metas[c] \in (SUBSET Options) \cup {None}

\* v is the nearest in the order of x with a Meta of its own.
IsMeta(x, v, metas, m) ==
    \E i \in DOMAIN m[x] :
        /\ v = m[x][i] /\ metas[v] # None
        /\ \A j \in 1..(i - 1) : metas[m[x][j]] = None

\* v is the Meta of the first in the order of c whose Meta has the option o.
IsMerged(c, o, v, metas, m) ==
    \E i \in DOMAIN m[c] :
        /\ v = MetaOf(m[c][i], metas, m) /\ o \in metas[v]
        /\ \A j \in 1..(i - 1) : o \notin metas[MetaOf(m[c][j], metas, m)]

LEMMA MetaExists ==
    ASSUME NEW n, NEW metas, NEW m, Ordered(n, metas, m), NEW x \in 1..n
    PROVE  /\ IsMeta(x, MetaOf(x, metas, m), metas, m)
           /\ \A v : IsMeta(x, v, metas, m) => v = MetaOf(x, metas, m)
<1>1. /\ m[x] \in Seq(1..x) /\ m[x] # <<>> /\ m[x][Len(m[x])] = Root
      /\ metas[Root] = Options /\ DOMAIN m[x] = 1..Len(m[x]) /\ Len(m[x]) \in 1..Len(m[x])
      BY DEF Ordered, Order, Lineage
<1> DEFINE S == {i \in DOMAIN m[x] : metas[m[x][i]] # None}
           P(i) == /\ metas[m[x][i]] # None
                   /\ \A j \in 1..(i - 1) : metas[m[x][j]] = None
<1>2. Len(m[x]) \in S  BY <1>1
<1>3. PICK k \in S : \A y \in S : k <= y
  <2>1. S \in SUBSET Nat  BY <1>1
  <2> QED BY <1>2, <2>1, Least
<1>4. k \in DOMAIN m[x] /\ P(k)
  <2>1. ASSUME NEW j \in 1..(k - 1) PROVE metas[m[x][j]] = None
    <3>1. j \in DOMAIN m[x] /\ j \in Nat /\ k \in Nat /\ j < k  BY <1>1, <1>3
    <3>2. j \notin S
      <4> HIDE DEF S
      <4> QED BY <1>1, <1>3, <3>1
    <3> QED BY <3>1, <3>2
  <2> QED BY <1>3, <2>1
<1>5. \A i \in DOMAIN m[x] : P(i) => i = k
  <2> SUFFICES ASSUME NEW i \in DOMAIN m[x], P(i) PROVE i = k  OBVIOUS
  <2>1. i \in Int /\ k \in Int  BY <1>1, <1>4
  <2>2. ~(i < k)
    <3>1. i < k => i \in 1..(k - 1)  BY <1>1, <2>1
    <3> QED BY <1>4, <3>1
  <2>3. ~(k < i)
    <3>1. k < i => k \in 1..(i - 1)  BY <1>1, <1>4, <2>1
    <3> QED BY <1>4, <3>1
  <2> QED BY <2>1, <2>2, <2>3
<1>6. (CHOOSE i \in DOMAIN m[x] : P(i)) = k
  <2> HIDE DEF P
  <2> QED BY <1>4, <1>5
<1>7. MetaOf(x, metas, m) = m[x][k]  BY <1>6 DEF MetaOf
<1> QED BY <1>4, <1>5, <1>7 DEF IsMeta

\* It is one that x inherits from.
LEMMA MetaInherited ==
    ASSUME NEW n, NEW metas, NEW m, Ordered(n, metas, m), NEW x \in 1..n
    PROVE  /\ MetaOf(x, metas, m) \in ToSet(m[x]) \cap 1..n
           /\ metas[MetaOf(x, metas, m)] \in SUBSET Options
<1>1. PICK i \in DOMAIN m[x] :
         /\ MetaOf(x, metas, m) = m[x][i] /\ metas[MetaOf(x, metas, m)] # None
      BY MetaExists DEF IsMeta
<1>2. m[x] \in Seq(1..x) /\ n \in Nat  BY DEF Ordered, Order
<1>3. m[x][i] \in 1..x  BY <1>2
<1>4. m[x][i] \in 1..n  BY <1>2, <1>3
<1>5. metas[m[x][i]] \in (SUBSET Options) \cup {None}  BY <1>4 DEF Ordered
<1>6. m[x][i] \in ToSet(m[x])  BY DEF ToSet
<1>7. metas[m[x][i]] # None  BY <1>1
<1>8. metas[m[x][i]] \in SUBSET Options  BY <1>5, <1>7, Zenon
<1> QED BY <1>1, <1>4, <1>6, <1>8

LEMMA MetaOwn ==
    ASSUME NEW n, NEW metas, NEW m, Ordered(n, metas, m), NEW x \in 1..n, metas[x] # None
    PROVE  MetaOf(x, metas, m) = x
<1>1. m[x] \in Seq(1..x) /\ m[x][1] = x /\ 1 \in DOMAIN m[x]
      BY DEF Ordered, Order, Lineage
<1>2. IsMeta(x, x, metas, m)  BY <1>1 DEF IsMeta
<1> QED BY <1>2, MetaExists

LEMMA MergeExists ==
    ASSUME NEW n, NEW metas, NEW m, Ordered(n, metas, m), NEW c \in 1..n, NEW o \in Options
    PROVE  /\ IsMerged(c, o, Merge(c, metas, m)[o], metas, m)
           /\ \A v : IsMerged(c, o, v, metas, m) => v = Merge(c, metas, m)[o]
<1> DEFINE From(i) == MetaOf(m[c][i], metas, m)
           P(i) == /\ o \in metas[From(i)]
                   /\ \A j \in 1..(i - 1) : o \notin metas[From(j)]
           S == {i \in DOMAIN m[c] : o \in metas[From(i)]}
<1>1. /\ m[c] \in Seq(1..c) /\ m[c] # <<>> /\ m[c][Len(m[c])] = Root
      /\ metas[Root] = Options /\ DOMAIN m[c] = 1..Len(m[c]) /\ Len(m[c]) \in 1..Len(m[c])
      /\ Root \in 1..n
      BY DEF Ordered, Order, Lineage
<1>2. From(Len(m[c])) = Root  BY <1>1, MetaOwn
<1>3. Len(m[c]) \in S  BY <1>1, <1>2
<1>4. PICK k \in S : \A y \in S : k <= y
  <2>1. S \in SUBSET Nat  BY <1>1
  <2> QED BY <1>3, <2>1, Least
<1>5. k \in DOMAIN m[c] /\ P(k)
  <2>1. ASSUME NEW j \in 1..(k - 1) PROVE o \notin metas[From(j)]
    <3>1. j \in DOMAIN m[c] /\ j < k  BY <1>1, <1>4
    <3> HIDE DEF From
    <3> QED BY <1>1, <1>4, <3>1
  <2> QED BY <1>4, <2>1
<1>6. \A i \in DOMAIN m[c] : P(i) => i = k
  <2> SUFFICES ASSUME NEW i \in DOMAIN m[c], P(i) PROVE i = k  OBVIOUS
  <2> HIDE DEF From
  <2> QED BY <1>1, <1>5
<1>7. (CHOOSE i \in DOMAIN m[c] : P(i)) = k
  <2> HIDE DEF P
  <2> QED BY <1>5, <1>6
<1>8. Merge(c, metas, m)[o] = From(k)  BY <1>7 DEF Merge
<1> HIDE DEF From
<1>9. \A v : IsMerged(c, o, v, metas, m) <=> \E i \in DOMAIN m[c] : v = From(i) /\ P(i)
      BY DEF IsMerged, From
<1> QED BY <1>5, <1>6, <1>8, <1>9

\* An option's class is one that c inherits from, whose Meta has the option.
LEMMA MergeInherited ==
    ASSUME NEW n, NEW metas, NEW m, Ordered(n, metas, m), NEW c \in 1..n, NEW o \in Options
    PROVE  LET v == Merge(c, metas, m)[o]
           IN  v \in ToSet(m[c]) /\ v \in 1..n /\ metas[v] \in SUBSET Options /\ o \in metas[v]
<1> DEFINE v == Merge(c, metas, m)[o]
<1>1. PICK i \in DOMAIN m[c] : v = MetaOf(m[c][i], metas, m) /\ o \in metas[v]
      BY MergeExists DEF IsMerged
<1>2. m[c] \in Seq(1..c) /\ n \in Nat /\ m[c][i] \in ToSet(m[c])
      BY DEF Ordered, Order, ToSet
<1>3. m[c][i] \in 1..c  BY <1>2
<1>4. m[c][i] \in 1..n  BY <1>2, <1>3
<1>5. v \in ToSet(m[m[c][i]]) /\ v \in 1..n /\ metas[v] \in SUBSET Options
      BY <1>1, <1>4, MetaInherited
<1>6. ToSet(m[m[c][i]]) \subseteq ToSet(m[c])
      BY <1>2 DEF Ordered, Order, Lineage
<1> QED BY <1>1, <1>5, <1>6

\* New classes change nothing for the old ones.
LEMMA MetaStable ==
    ASSUME NEW n, NEW metas, NEW m, Ordered(n, metas, m),
           NEW n2, NEW metas2, NEW m2, Ordered(n2, metas2, m2), n <= n2,
           \A x \in 1..n : m2[x] = m[x] /\ metas2[x] = metas[x],
           NEW c \in 1..n
    PROVE  MetaOf(c, metas2, m2) = MetaOf(c, metas, m)
<1>1. n \in Nat /\ n2 \in Nat /\ m[c] \in Seq(1..c) /\ c \in 1..n2
      BY DEF Ordered, Order
<1>2. \A i \in DOMAIN m[c] : m[c][i] \in 1..n
  <2>1. ASSUME NEW i \in DOMAIN m[c] PROVE m[c][i] \in 1..c  BY <1>1
  <2> QED BY <1>1, <2>1
<1>3. PICK i \in DOMAIN m[c] :
         /\ MetaOf(c, metas, m) = m[c][i] /\ metas[m[c][i]] # None
         /\ \A j \in 1..(i - 1) : metas[m[c][j]] = None
      BY MetaExists DEF IsMeta
<1>4. \A j \in 1..(i - 1) : j \in DOMAIN m[c]  BY <1>1
<1>5. m2[c] = m[c] /\ metas2[m[c][i]] # None
      BY <1>2, <1>3
<1>6. \A j \in 1..(i - 1) : metas2[m[c][j]] = None
      BY <1>2, <1>3, <1>4
<1>7. IsMeta(c, m[c][i], metas2, m2)  BY <1>5, <1>6 DEF IsMeta
<1> QED BY <1>1, <1>3, <1>7, MetaExists, SMTT(30)

LEMMA MergeIsFunction ==
    ASSUME NEW c, NEW metas, NEW m
    PROVE  Merge(c, metas, m) = [o \in Options |-> Merge(c, metas, m)[o]]
BY DEF Merge

LEMMA MergeStable ==
    ASSUME NEW n, NEW metas, NEW m, Ordered(n, metas, m),
           NEW n2, NEW metas2, NEW m2, Ordered(n2, metas2, m2), n <= n2,
           \A x \in 1..n : m2[x] = m[x] /\ metas2[x] = metas[x],
           NEW c \in 1..n
    PROVE  Merge(c, metas2, m2) = Merge(c, metas, m)
<1> DEFINE v(o) == Merge(c, metas, m)[o]
<1>1. n \in Nat /\ n2 \in Nat /\ m[c] \in Seq(1..c) /\ c \in 1..n2 /\ m2[c] = m[c]
      BY DEF Ordered, Order
<1>2. \A i \in DOMAIN m[c] : m[c][i] \in 1..n
  <2>1. ASSUME NEW i \in DOMAIN m[c] PROVE m[c][i] \in 1..c  BY <1>1
  <2> QED BY <1>1, <2>1
<1>3. ASSUME NEW o \in Options PROVE Merge(c, metas2, m2)[o] = v(o)
  <2>1. PICK i \in DOMAIN m[c] :
           /\ v(o) = MetaOf(m[c][i], metas, m) /\ o \in metas[v(o)]
           /\ \A j \in 1..(i - 1) : o \notin metas[MetaOf(m[c][j], metas, m)]
        BY MergeExists DEF IsMerged
  <2>2. \A j \in DOMAIN m[c] :
           /\ MetaOf(m[c][j], metas2, m2) = MetaOf(m[c][j], metas, m)
           /\ metas2[MetaOf(m[c][j], metas, m)] = metas[MetaOf(m[c][j], metas, m)]
    <3> SUFFICES ASSUME NEW j \in DOMAIN m[c]
                 PROVE  /\ MetaOf(m[c][j], metas2, m2) = MetaOf(m[c][j], metas, m)
                        /\ metas2[MetaOf(m[c][j], metas, m)] = metas[MetaOf(m[c][j], metas, m)]
        OBVIOUS
    <3>1. m[c][j] \in 1..n  BY <1>2
    <3>2. MetaOf(m[c][j], metas, m) \in 1..n  BY <3>1, MetaInherited
    <3>3. MetaOf(m[c][j], metas2, m2) = MetaOf(m[c][j], metas, m)  BY <3>1, MetaStable
    <3> QED BY <3>2, <3>3
  <2>3. \A j \in 1..(i - 1) : j \in DOMAIN m[c]  BY <1>1
  <2>4. IsMerged(c, o, v(o), metas2, m2)
    <3> HIDE DEF v
    <3>1. v(o) = MetaOf(m2[c][i], metas2, m2) /\ o \in metas2[v(o)] /\ i \in DOMAIN m2[c]
          BY <1>1, <2>1, <2>2
    <3>2. \A j \in 1..(i - 1) : o \notin metas2[MetaOf(m2[c][j], metas2, m2)]
      <4> SUFFICES ASSUME NEW j \in 1..(i - 1)
                   PROVE  o \notin metas2[MetaOf(m2[c][j], metas2, m2)]
          OBVIOUS
      <4>1. o \notin metas[MetaOf(m[c][j], metas, m)]  BY <2>1
      <4>2. j \in DOMAIN m[c]  BY <2>3
      <4> QED BY <1>1, <2>2, <4>1, <4>2
    <3> QED BY <3>1, <3>2 DEF IsMerged
  <2> HIDE DEF v
  <2> QED BY <1>1, <2>4, MergeExists, SMTT(30)
<1>4. [o \in Options |-> Merge(c, metas2, m2)[o]] = [o \in Options |-> Merge(c, metas, m)[o]]
      BY <1>3
<1> QED BY <1>4, MergeIsFunction

\* With one base and a Meta of its own a class has its own options, and else its base's.
LEMMA MergeOwn ==
    ASSUME NEW n, NEW metas, NEW m, Ordered(n, metas, m),
           NEW c \in 1..n, NEW p \in 1..n, m[c] = <<c>> \o m[p], metas[c] # None,
           NEW o \in Options
    PROVE  Merge(c, metas, m)[o] = IF o \in metas[c] THEN c ELSE Merge(p, metas, m)[o]
<1> DEFINE v == Merge(p, metas, m)[o]
<1>1. /\ m[p] \in Seq(1..p) /\ m[c] \in Seq(1..c) /\ 1 \in DOMAIN m[c] /\ m[c][1] = c
      /\ MetaOf(m[c][1], metas, m) = c
  <2>1. m[p] \in Seq(1..p) /\ m[c] \in Seq(1..c) /\ m[c] # <<>> /\ m[c][1] = c
        BY DEF Ordered, Order, Lineage
  <2> QED BY <2>1, MetaOwn
<1>2. CASE o \in metas[c]
  <2>1. c = MetaOf(m[c][1], metas, m) /\ o \in metas[c] /\ 1..(1 - 1) = {}  BY <1>1, <1>2
  <2>2. IsMerged(c, o, c, metas, m)  BY <1>1, <2>1, Zenon DEF IsMerged
  <2> QED BY <1>2, <2>2, MergeExists
<1>3. CASE o \notin metas[c]
  <2>1. PICK i \in DOMAIN m[p] :
           /\ v = MetaOf(m[p][i], metas, m) /\ o \in metas[v]
           /\ \A j \in 1..(i - 1) : o \notin metas[MetaOf(m[p][j], metas, m)]
        BY MergeExists DEF IsMerged
  <2>2. i \in Nat /\ i >= 1 /\ i + 1 \in DOMAIN m[c] /\ m[c][i + 1] = m[p][i]  BY <1>1, SMTT(30)
  <2>3. ASSUME NEW j \in 1..i PROVE o \notin metas[MetaOf(m[c][j], metas, m)]
    <3>1. CASE j = 1  BY <1>1, <1>3, <3>1
    <3>2. CASE j # 1
      <4>1. j - 1 \in 1..(i - 1) /\ m[c][j] = m[p][j - 1]  BY <1>1, <2>2, <3>2
      <4> QED BY <2>1, <4>1
    <3> QED BY <3>1, <3>2
  <2>4. IsMerged(c, o, v, metas, m)
    <3> HIDE DEF v
    <3>1. 1..((i + 1) - 1) = 1..i  BY <2>2
    <3> QED BY <2>1, <2>2, <2>3, <3>1 DEF IsMerged
  <2> QED BY <1>3, <2>4, MergeExists
<1> QED BY <1>2, <1>3

-----------------------------------------------------------------------------
LEMMA SuffixIndex ==
    ASSUME NEW S, NEW s \in Seq(S), NEW t \in Seq(S), IsSuffix(s, t)
    PROVE  Len(s) <= Len(t) /\ \A i \in 1..Len(s) : s[i] = t[Len(t) - Len(s) + i]
<1>1. /\ Reverse(s) \in Seq(S) /\ Len(Reverse(s)) = Len(s)
      /\ Reverse(t) \in Seq(S) /\ Len(Reverse(t)) = Len(t)
      /\ \A i \in 1..Len(s) : Reverse(s)[i] = s[Len(s) - i + 1]
      /\ \A i \in 1..Len(t) : Reverse(t)[i] = t[Len(t) - i + 1]
      BY DEF Reverse
<1>2. /\ Len(s) <= Len(t)
      /\ SubSeq(Reverse(s), 1, Len(s)) = SubSeq(Reverse(t), 1, Len(s))
      BY <1>1 DEF IsSuffix, IsPrefix
<1>3. \A i \in 1..Len(s) : Reverse(s)[i] = Reverse(t)[i]
  <2> SUFFICES ASSUME NEW i \in 1..Len(s) PROVE Reverse(s)[i] = Reverse(t)[i]  OBVIOUS
  <2>1. SubSeq(Reverse(s), 1, Len(s))[i] = Reverse(s)[i]  BY <1>1
  <2>2. SubSeq(Reverse(t), 1, Len(s))[i] = Reverse(t)[i]  BY <1>1, <1>2
  <2> QED BY <1>2, <2>1, <2>2
<1>4. ASSUME NEW i \in 1..Len(s) PROVE s[i] = t[Len(t) - Len(s) + i]
  <2> DEFINE j == Len(s) - i + 1
  <2>1. j \in 1..Len(s) /\ j \in 1..Len(t) /\ Len(s) - j + 1 = i
        /\ Len(t) - j + 1 = Len(t) - Len(s) + i
        BY <1>2
  <2>2. Reverse(s)[j] = s[i] /\ Reverse(t)[j] = t[Len(t) - Len(s) + i]
    <3> HIDE DEF j
    <3> QED BY <1>1, <2>1
  <2> QED BY <1>3, <2>1, <2>2
<1> QED BY <1>2, <1>4

\* What is merged is what Python's attribute lookup would find.
LEMMA MergeIsNearest ==
    ASSUME Ordered(made, own, mro), NEW c \in Made, Straight(c), NEW o \in Options
    PROVE  Merge(c, own, mro)[o] = Nearest(c, o)
<1> DEFINE s == mro[c]
           v == Merge(c, own, mro)[o]
           Has(i) == own[s[i]] # None /\ o \in own[s[i]]
           P(i) == own[s[i]] # None /\ o \in own[s[i]]
                   /\ \A j \in 1..(i - 1) : own[s[j]] # None => o \notin own[s[j]]
<1>1. /\ made \in Nat /\ s \in Seq(1..c) /\ DOMAIN s = 1..Len(s) /\ Len(s) \in Nat
      /\ \A i, j \in DOMAIN s : s[i] = s[j] => i = j
      BY DEF Ordered, Order, Lineage, Made
<1>2. \A i \in DOMAIN s : s[i] \in 1..made
  <2>1. ASSUME NEW i \in DOMAIN s PROVE s[i] \in 1..c
    <3> HIDE DEF s
    <3> QED BY <1>1, ElementOfSeq
  <2> QED BY <1>1, <2>1 DEF Made
<1>3. PICK k \in DOMAIN s :
         /\ v = MetaOf(s[k], own, mro) /\ o \in own[v]
         /\ \A j \in 1..(k - 1) : o \notin own[MetaOf(s[j], own, mro)]
      BY MergeExists DEF IsMerged, Made
<1>4. \A j \in 1..(k - 1) : own[s[j]] # None => o \notin own[s[j]]
  <2> SUFFICES ASSUME NEW j \in 1..(k - 1), own[s[j]] # None PROVE o \notin own[s[j]]
      OBVIOUS
  <2>1. j \in DOMAIN s  BY <1>1
  <2>2. MetaOf(s[j], own, mro) = s[j]
    <3> HIDE DEF s
    <3> QED BY <1>2, <2>1, MetaOwn
  <2> QED BY <1>3, <2>2
<1>5. \E q \in DOMAIN s : v = s[q] /\ P(q)
  <2>1. CASE own[s[k]] # None
    <3>1. MetaOf(s[k], own, mro) = s[k]
      <4> HIDE DEF s
      <4> QED BY <1>2, <2>1, MetaOwn
    <3> QED BY <1>3, <1>4, <2>1, <3>1
  <2>2. CASE own[s[k]] = None
    <3> DEFINE t == mro[s[k]]
               d == Len(s) - Len(t)
    <3>1. t \in Seq(1..s[k]) /\ t # <<>> /\ t[1] = s[k] /\ s[k] \in 1..made
          BY <1>2 DEF Ordered, Order, Lineage
    <3>2. t \in Seq(1..made) /\ s \in Seq(1..made)
      <4>1. 1..s[k] \subseteq 1..made /\ 1..c \subseteq 1..made  BY <1>1, <3>1 DEF Made
      <4> HIDE DEF s, t
      <4> QED BY <1>1, <3>1, <4>1, SeqMonotonic
    <3>3. IsSuffix(t, s)  BY <2>2 DEF Straight
    <3>4. Len(t) <= Len(s) /\ \A i \in 1..Len(t) : t[i] = s[d + i]
      <4> HIDE DEF s, t
      <4> QED BY <3>2, <3>3, SuffixIndex
    <3>5. d \in Nat /\ d + 1 = k
      <4> HIDE DEF s, t
      <4>1. d \in Nat /\ 1 \in 1..Len(t) /\ d + 1 \in DOMAIN s  BY <1>1, <3>1, <3>2, <3>4
      <4>2. s[d + 1] = s[k]  BY <3>1, <3>4, <4>1
      <4> QED BY <1>1, <4>1, <4>2
    <3>6. PICK e \in DOMAIN t : /\ v = t[e] /\ own[v] # None
                                /\ \A j \in 1..(e - 1) : own[t[j]] = None
      <4>1. IsMeta(s[k], v, own, mro)
        <5> HIDE DEF s, v
        <5> QED BY <1>3, <3>1, MetaExists
      <4> QED BY <4>1 DEF IsMeta
    <3>7. e \in Nat /\ e >= 1 /\ d + e \in DOMAIN s /\ v = s[d + e]
      <4> HIDE DEF s, t, v
      <4>1. e \in 1..Len(t) /\ Len(t) \in Nat  BY <3>2, <3>6
      <4>2. d + e \in 1..Len(s)  BY <1>1, <3>4, <3>5, <4>1
      <4> QED BY <1>1, <3>4, <3>6, <4>1, <4>2
    <3>8. \A j \in 1..((d + e) - 1) : own[s[j]] # None => o \notin own[s[j]]
      <4> SUFFICES ASSUME NEW j \in 1..((d + e) - 1), own[s[j]] # None PROVE o \notin own[s[j]]
          OBVIOUS
      <4>1. CASE j < k  BY <1>4, <3>5, <4>1
      <4>2. CASE j >= k
        <5> HIDE DEF s, t, v
        <5>1. j - d \in 1..(e - 1) /\ j - d \in 1..Len(t) /\ d + (j - d) = j
              BY <3>2, <3>5, <3>6, <3>7, <4>2 DEF d
        <5>2. t[j - d] = s[j] /\ own[t[j - d]] = None  BY <3>4, <3>6, <5>1
        <5> QED BY <5>2
      <4> QED BY <3>5, <4>1, <4>2
    <3>9. P(d + e)
      <4> HIDE DEF s, t, v, d
      <4>1. own[s[d + e]] # None /\ o \in own[s[d + e]]  BY <1>3, <3>6, <3>7
      <4> QED BY <3>8, <4>1
    <3> HIDE DEF s, t, v, d, P
    <3> QED BY <3>7, <3>9
  <2> QED BY <2>1, <2>2
<1>6. PICK q \in DOMAIN s : v = s[q] /\ P(q)  BY <1>5
<1>7. \A i \in DOMAIN s : P(i) => i = q
  <2> SUFFICES ASSUME NEW i \in DOMAIN s, P(i) PROVE i = q  OBVIOUS
  <2>1. i \in Int /\ q \in Int /\ i >= 1 /\ q >= 1  BY <1>1
  <2>2. ~(i < q)
    <3>1. i < q => i \in 1..(q - 1)  BY <2>1
    <3> QED BY <1>6, <3>1
  <2>3. ~(q < i)
    <3>1. q < i => q \in 1..(i - 1)  BY <2>1
    <3> QED BY <1>6, <3>1
  <2> QED BY <2>1, <2>2, <2>3
<1>8. (CHOOSE i \in DOMAIN s : P(i)) = q
  <2> HIDE DEF P
  <2> QED BY <1>6, <1>7
<1> QED BY <1>6, <1>8 DEF Nearest

-----------------------------------------------------------------------------
LEMMA InToSet ==
    ASSUME NEW S, NEW s \in Seq(S)
    PROVE  /\ \A i \in 1..Len(s) : s[i] \in ToSet(s)
           /\ \A x \in ToSet(s) : x \in S /\ \E i \in 1..Len(s) : x = s[i]
BY DEF ToSet

LEMMA SeqOfFunction ==
    ASSUME NEW S, NEW k \in Nat, NEW f \in [1..k -> S]
    PROVE  f \in Seq(S)
OBVIOUS

LEMMA OldOrder ==
    ASSUME NEW n, NEW metas, NEW m, Ordered(n, metas, m), NEW b \in 1..n
    PROVE  m[b] \in Seq(1..n) /\ Lineage(m[b], m)
<1>1. m[b] \in Seq(1..b) /\ Lineage(m[b], m) /\ n \in Nat  BY DEF Ordered, Order
<1>2. 1..b \subseteq 1..n  BY <1>1
<1> QED BY <1>1, <1>2, SeqMonotonic

\* A class put before such an order makes another.
LEMMA NewOrder ==
    ASSUME NEW n, NEW metas, NEW m, Ordered(n, metas, m),
           NEW s \in Seq(1..n), Lineage(s, m),
           NEW c, c = n + 1, NEW metas2, NEW m2,
           \A x \in 1..n : m2[x] = m[x] /\ metas2[x] = metas[x],
           m2[c] = <<c>> \o s, metas2[c] \in (SUBSET Options) \cup {None}
    PROVE  Ordered(c, metas2, m2)
<1> DEFINE t == <<c>> \o s
<1>1. n \in Nat /\ n >= 4 /\ Root \in 1..n /\ c \in Nat /\ metas2[Root] = Options
      /\ 1..c = 1..n \cup {c} /\ c \notin 1..n /\ m2[c] = t
      BY DEF Ordered
<1>2. ASSUME NEW x \in 1..n
      PROVE  Order(x, m2) /\ metas2[x] \in (SUBSET Options) \cup {None}
  <2>1. m[x] \in Seq(1..x) /\ m[x][1] = x /\ Lineage(m[x], m) /\ m2[x] = m[x]
        BY DEF Ordered, Order
  <2>2. \A y \in ToSet(m[x]) : m2[y] = m[y]
    <3>1. \A y \in ToSet(m[x]) : y \in 1..x  BY <2>1, InToSet
    <3> QED BY <1>1, <3>1
  <2>3. Lineage(m[x], m2)  BY <2>1, <2>2 DEF Lineage
  <2> QED BY <2>1, <2>3 DEF Order, Ordered
<1>3. /\ s # <<>> /\ s[Len(s)] = Root
      /\ \A i, j \in 1..Len(s) : s[i] = s[j] => i = j
      /\ \A x \in ToSet(s) : ToSet(m[x]) \subseteq ToSet(s)
      /\ Len(s) \in 1..Len(s) /\ Len(s) \in Nat /\ \A i \in 1..Len(s) : s[i] \in 1..n
  <2>1. DOMAIN s = 1..Len(s) /\ Len(s) \in Nat /\ \A i \in 1..Len(s) : s[i] \in 1..n
        BY LenProperties, ElementOfSeq
  <2>2. s # <<>> => Len(s) \in 1..Len(s)  OBVIOUS
  <2> QED BY <2>1, <2>2 DEF Lineage
<1>4. /\ t \in Seq(1..c) /\ Len(t) = Len(s) + 1 /\ t[1] = c
      /\ \A i \in 2..Len(t) : t[i] = s[i - 1] /\ i - 1 \in 1..Len(s)
  <2>1. s \in Seq(1..c)  BY <1>1, SeqMonotonic
  <2> QED BY <1>1, <1>3, <2>1
<1>5. t # <<>> /\ t[Len(t)] = Root
  <2> HIDE DEF t
  <2>1. Len(t) \in 2..Len(t) /\ Len(t) - 1 = Len(s)  BY <1>3, <1>4
  <2> QED BY <1>3, <1>4, <2>1, SMTT(30)
<1>6. \A i, j \in DOMAIN t : t[i] = t[j] => i = j
  <2> SUFFICES ASSUME NEW i \in 1..Len(t), NEW j \in 1..Len(t), t[i] = t[j] PROVE i = j
      BY <1>4
  <2> HIDE DEF t
  <2>1. CASE i = 1 /\ j # 1
    <3>1. j \in 2..Len(t)  BY <1>3, <1>4, <2>1
    <3>2. t[j] \in 1..n  BY <1>3, <1>4, <3>1
    <3> QED BY <1>1, <1>4, <2>1, <3>2
  <2>2. CASE i # 1 /\ j = 1
    <3>1. i \in 2..Len(t)  BY <1>3, <1>4, <2>2
    <3>2. t[i] \in 1..n  BY <1>3, <1>4, <3>1
    <3> QED BY <1>1, <1>4, <2>2, <3>2
  <2>3. CASE i # 1 /\ j # 1
    <3>1. i \in 2..Len(t) /\ j \in 2..Len(t)  BY <1>3, <1>4, <2>3
    <3>2. t[i] = s[i - 1] /\ i - 1 \in 1..Len(s) /\ t[j] = s[j - 1] /\ j - 1 \in 1..Len(s)
          BY <1>4, <3>1
    <3>3. i - 1 = j - 1  BY <1>3, <3>2
    <3> QED BY <3>1, <3>3
  <2> QED BY <2>1, <2>2, <2>3
<1>7. ToSet(t) = ToSet(s) \cup {c}
  <2> HIDE DEF t
  <2>1. ASSUME NEW x \in ToSet(t) PROVE x \in ToSet(s) \cup {c}
    <3>1. PICK i \in 1..Len(t) : x = t[i]  BY <1>4, InToSet
    <3>2. CASE i = 1  BY <1>4, <3>1, <3>2
    <3>3. CASE i # 1
      <4>1. i \in 2..Len(t)  BY <1>3, <1>4, <3>3
      <4>2. x = s[i - 1] /\ i - 1 \in 1..Len(s)  BY <1>4, <3>1, <4>1
      <4>3. x \in ToSet(s)  BY <4>2, InToSet
      <4> QED BY <4>3
    <3> QED BY <3>2, <3>3
  <2>2. c \in ToSet(t)  BY <1>3, <1>4, InToSet
  <2>3. ASSUME NEW x \in ToSet(s) PROVE x \in ToSet(t)
    <3>1. PICK i \in 1..Len(s) : x = s[i]  BY InToSet
    <3>2. i + 1 \in 2..Len(t) /\ (i + 1) - 1 = i  BY <1>3, <1>4
    <3>3. t[i + 1] = x  BY <1>4, <3>1, <3>2
    <3>4. i + 1 \in 1..Len(t)  BY <3>2
    <3> QED BY <1>4, <3>3, <3>4, InToSet
  <2> QED BY <2>1, <2>2, <2>3
<1>8. \A x \in ToSet(t) : ToSet(m2[x]) \subseteq ToSet(t)
  <2> SUFFICES ASSUME NEW x \in ToSet(t) PROVE ToSet(m2[x]) \subseteq ToSet(t)  OBVIOUS
  <2> HIDE DEF t
  <2>1. CASE x = c  BY <1>1, <2>1
  <2>2. CASE x \in ToSet(s)
    <3>1. x \in 1..n  BY <2>2, InToSet
    <3> QED BY <1>3, <1>7, <2>2, <3>1
  <2> QED BY <1>7, <2>1, <2>2
<1>9. Order(c, m2)
  <2> HIDE DEF t
  <2> QED BY <1>1, <1>4, <1>5, <1>6, <1>8 DEF Order, Lineage
<1> QED BY <1>1, <1>2, <1>9 DEF Ordered

\* The order Python makes of two.
LEMMA CombinedOrder ==
    ASSUME NEW n, NEW metas, NEW m, Ordered(n, metas, m), NEW b1 \in 1..n, NEW b2 \in 1..n,
           b1 # Root,
           NEW t \in SetToSeqs((ToSet(m[b1]) \cup ToSet(m[b2])) \ {b1, Root})
    PROVE  <<b1>> \o t \o <<Root>> \in Seq(1..n) /\ Lineage(<<b1>> \o t \o <<Root>>, m)
<1> DEFINE S == ToSet(m[b1]) \cup ToSet(m[b2])
           T == S \ {b1, Root}
           k == Cardinality(T)
           s == <<b1>> \o t \o <<Root>>
<1>1. /\ m[b1] \in Seq(1..n) /\ Lineage(m[b1], m) /\ m[b1][1] = b1
      /\ m[b2] \in Seq(1..n) /\ Lineage(m[b2], m) /\ n \in Nat /\ n >= 4
      BY OldOrder DEF Ordered, Order
<1>2. S \subseteq 1..n /\ IsFiniteSet(T) /\ k \in Nat
  <2>1. S \subseteq 1..n  BY <1>1, InToSet
  <2>2. IsFiniteSet(1..n)
    <3>1. 1 \in Int /\ n \in Int  BY <1>1
    <3> QED BY <3>1, FS_Interval
  <2>3. T \subseteq 1..n  BY <2>1
  <2> HIDE DEF S, T
  <2> QED BY <2>1, <2>2, <2>3, FS_Subset, FS_CardinalityType
<1>3. t \in [1..k -> T] /\ \A i, j \in 1..k : t[i] = t[j] => i = j
      BY DEF SetToSeqs
<1>4. b1 \in S /\ Root \in S
  <2>1. m[b1] # <<>> /\ m[b1][Len(m[b1])] = Root  BY <1>1 DEF Lineage
  <2>2. 1 \in 1..Len(m[b1]) /\ Len(m[b1]) \in 1..Len(m[b1])  BY <1>1, <2>1
  <2> QED BY <1>1, <2>1, <2>2, InToSet
<1> HIDE DEF S
<1>5. /\ t \in Seq(1..n) /\ Len(t) = k
      /\ s \in Seq(1..n) /\ Len(s) = k + 2 /\ DOMAIN s = 1..(k + 2)
      /\ s[1] = b1 /\ s[k + 2] = Root /\ \A i \in 1..k : s[i + 1] = t[i]
  <2>1. t \in [1..k -> 1..n]  BY <1>2, <1>3
  <2> HIDE DEF T, k
  <2>2. t \in Seq(1..n)  BY <1>2, <2>1, SeqOfFunction
  <2>3. Len(t) = k
    <3>1. DOMAIN t = 1..k /\ DOMAIN t = 1..Len(t) /\ Len(t) \in Nat  BY <2>1, <2>2
    <3> QED BY <1>2, <3>1
  <2>4. Root \in 1..n  BY <1>1
  <2> QED BY <1>2, <2>2, <2>3, <2>4
<1>6. ASSUME NEW i \in 1..(k + 2) PROVE i = 1 \/ i = k + 2 \/ (i - 1 \in 1..k /\ s[i] = t[i - 1])
  <2> HIDE DEF T, k, s
  <2>1. i # 1 /\ i # k + 2 => i - 1 \in 1..k /\ (i - 1) + 1 = i  BY <1>2
  <2> QED BY <1>5, <2>1
<1>7. \A i, j \in DOMAIN s : s[i] = s[j] => i = j
  <2> SUFFICES ASSUME NEW i \in 1..(k + 2), NEW j \in 1..(k + 2), s[i] = s[j] PROVE i = j
      BY <1>5
  <2>1. \A x \in 1..k : t[x] \in T  BY <1>3
  <2>2. b1 \notin T /\ Root \notin T  OBVIOUS
  <2> HIDE DEF T, k, s
  <2>3. CASE i - 1 \in 1..k /\ j - 1 \in 1..k /\ s[i] = t[i - 1] /\ s[j] = t[j - 1]
    <3>1. i - 1 = j - 1  BY <1>3, <2>3
    <3> QED BY <1>2, <3>1
  <2> QED BY <1>5, <1>6, <2>1, <2>2, <2>3
<1>8. ToSet(s) = S
  <2>1. ToSet(s) \subseteq S
    <3>1. \A x \in 1..k : t[x] \in S  BY <1>3
    <3> HIDE DEF T, k, s
    <3>2. \A i \in 1..(k + 2) : s[i] \in S  BY <1>4, <1>5, <1>6, <3>1
    <3> QED BY <1>5, <3>2, InToSet
  <2>2. ASSUME NEW x \in S PROVE x \in ToSet(s)
    <3>1. CASE x = b1 \/ x = Root
      <4> HIDE DEF T, k, s
      <4>1. 1 \in 1..Len(s) /\ k + 2 \in 1..Len(s)  BY <1>2, <1>5
      <4> QED BY <1>5, <3>1, <4>1, InToSet
    <3>2. CASE x \in T
      <4> HIDE DEF T
      <4>1. t \in Injection(1..k, T)  BY <1>3 DEF Injection, IsInjective
      <4>2. 1 \in Int /\ k \in Int /\ IsFiniteSet(1..k) /\ Cardinality(1..k) = k
            BY <1>2, FS_Interval
      <4>3. t \in Surjection(1..k, T)  BY <1>2, <4>1, <4>2, FS_Injection
      <4>4. PICK i \in 1..k : t[i] = x  BY <3>2, <4>3 DEF Surjection
      <4>5. i + 1 \in 1..Len(s)  BY <1>2, <1>5
      <4> HIDE DEF k, s
      <4> QED BY <1>5, <4>4, <4>5, InToSet
    <3> QED BY <3>1, <3>2
  <2> QED BY <2>1, <2>2
<1>9. \A x \in S : ToSet(m[x]) \subseteq S  BY <1>1 DEF Lineage, S
<1>10. s # <<>> /\ s[Len(s)] = Root  BY <1>2, <1>5
<1> HIDE DEF s
<1> QED BY <1>5, <1>7, <1>8, <1>9, <1>10 DEF Lineage, s

-----------------------------------------------------------------------------
Typed ==
    /\ made <= MaxClasses
    /\ mro \in [Classes -> Seq(Nat)]
    /\ own \in [Classes -> (SUBSET Options) \cup {None}]
    /\ dict \in [Classes -> Dictionaries]
    /\ meta \in [Classes -> [Options -> Nat]]
    /\ fields \in [Dictionaries -> Nat \cup {None}]

TypedRegistries ==
    /\ api \in [Classes -> Apis \cup {None}]
    /\ url \in [Classes -> Names \cup {None}]
    /\ resources \in [Apis -> [Names -> Classes \cup {None}] \cup {None}]

\* _meta is what merging the Metas would give now.
Merged == \A c \in Made : meta[c] = Merge(c, own, mro)

\* The last class made with emit_fields has written them into its dictionary.
Setters(d) == {x \in Sharers(d) : meta[x]["emit_fields"] # Root}

Written ==
    \A d \in Dictionaries :
        IF Setters(d) = {} THEN fields[d] = None
        ELSE \E x \in Setters(d) : /\ \A y \in Setters(d) : y <= x
                                   /\ fields[d] = meta[x]["emit_fields"]

\* The dictionary in a Meta was written there, or is the Api's.
Lent(c) ==
    dict[c] = c \/ (api[c] = dict[c] /\ "emit_models" \in ApiOptions[api[c]] \cap own[c])

\* What an Api has made, and what it has in its registry.
FromResource(c) ==
    \E p \in Made \ {Root, ResourceView} :
        /\ mro[c] = <<c>> \o mro[p] /\ own[c] \in SUBSET Options
        /\ ApiOptions[api[c]] \subseteq own[c] \/ (p \in {MapResource, AutoJSONRPC} /\ own[c] = {})

IsLatest(x, C) == IF C = {} THEN x = None ELSE x \in C /\ \A c \in C : c <= x

Registered ==
    /\ \A c \in Classes \ Made : api[c] = None
    /\ \A c \in Made : Lent(c) /\ (api[c] # None => FromResource(c) /\ resources[api[c]] # None)
    /\ \A a \in unfinished : a \in Apis /\ resources[a] # None
    /\ \A a \in Apis, n \in Names :
          resources[a] # None => IsLatest(resources[a][n], RegisteredAs(a, n))

IInv ==
    Typed /\ TypedRegistries /\ Ordered(made, own, mro) /\ Merged /\ Written /\ Registered

LEMMA InitInv == Init => IInv
<1> SUFFICES ASSUME Init PROVE IInv  OBVIOUS
<1>1. /\ made = 4 /\ Made = {1, 2, 3, 4}
      /\ Classes = 1..MaxClasses /\ MaxClasses \in Nat /\ MaxClasses >= 4
      /\ mro[1] = <<1>> /\ mro[2] = <<2, 1>> /\ mro[3] = <<3, 2, 1>> /\ mro[4] = <<4, 2, 1>>
      /\ own[1] = Options /\ own[2] = {} /\ own[3] = {} /\ own[4] = {}
      BY DEF Init, Made, Classes
<1>2. Typed /\ TypedRegistries
  <2>1. mro \in [Classes -> Seq(Nat)]
    <3>1. <<1>> \in Seq(Nat) /\ <<2, 1>> \in Seq(Nat) /\ <<>> \in Seq(Nat)  OBVIOUS
    <3>2. <<3, 2, 1>> \in Seq(Nat) /\ <<4, 2, 1>> \in Seq(Nat)  OBVIOUS
    <3> QED BY <3>1, <3>2 DEF Init
  <2>2. own \in [Classes -> (SUBSET Options) \cup {None}]  BY DEF Init
  <2>3. meta \in [Classes -> [Options -> Nat]]  BY DEF Init
  <2>4. dict \in [Classes -> Dictionaries]  BY DEF Init, Dictionaries
  <2> QED BY <1>1, <2>1, <2>2, <2>3, <2>4 DEF Typed, TypedRegistries, Init
<1>3. Ordered(made, own, mro)
  <2>1. /\ ToSet(<<1>>) = {1} /\ ToSet(<<2, 1>>) = {1, 2}
        /\ ToSet(<<3, 2, 1>>) = {1, 2, 3} /\ ToSet(<<4, 2, 1>>) = {1, 2, 4}
        BY DEF ToSet
  <2>2. Lineage(<<1>>, mro) /\ Lineage(<<2, 1>>, mro)
        BY <1>1, <2>1 DEF Lineage
  <2>3. Lineage(<<3, 2, 1>>, mro) /\ Lineage(<<4, 2, 1>>, mro)
        BY <1>1, <2>1 DEF Lineage
  <2>4. /\ <<1>> \in Seq(1..1) /\ <<2, 1>> \in Seq(1..2)
        /\ <<3, 2, 1>> \in Seq(1..3) /\ <<4, 2, 1>> \in Seq(1..4)
        OBVIOUS
  <2>5. Order(1, mro) /\ Order(2, mro) /\ Order(3, mro) /\ Order(4, mro)
        BY <1>1, <2>2, <2>3, <2>4 DEF Order
  <2>6. own[1] \in SUBSET Options /\ \A c \in 2..4 : own[c] \in SUBSET Options  BY <1>1
  <2>7. \A c \in 1..made : c = 1 \/ c = 2 \/ c = 3 \/ c = 4  BY <1>1
  <2> QED BY <1>1, <2>5, <2>6, <2>7 DEF Ordered
<1>4. Merged
  <2> SUFFICES ASSUME NEW c \in Made, NEW o \in Options PROVE Root = Merge(c, own, mro)[o]
    <3>1. \A c \in Made : meta[c] = [o \in Options |-> Root]  BY <1>1 DEF Init
    <3> QED BY <3>1, MergeIsFunction DEF Merged
  <2>1. c \in 1..made  BY DEF Made
  <2>2. /\ Merge(c, own, mro)[o] \in 1..made
        /\ o \in own[Merge(c, own, mro)[o]]
        BY <1>3, <2>1, MergeInherited
  <2> QED BY <1>1, <2>2
<1>5. Written
  <2>1. \A d \in Dictionaries : Setters(d) = {}  BY <1>1 DEF Init, Setters, Sharers, Options
  <2> QED BY <2>1 DEF Written, Init
<1>6. Registered
  <2>1. Made \subseteq Classes  BY <1>1
  <2>2. \A c \in Classes : api[c] = None /\ dict[c] = c  BY DEF Init
  <2> QED BY <2>1, <2>2 DEF Init, Registered, Lent
<1> QED BY <1>2, <1>3, <1>4, <1>5, <1>6 DEF IInv

\* A new class leaves the old ones as they are ...
LEMMA MakeOrdered ==
    ASSUME IInv, NEW s \in Seq(Made), Lineage(s, mro), NEW o \in (SUBSET Options) \cup {None},
           NEW l, Make(s, o, l)
    PROVE  /\ made + 1 \in Classes /\ made' = made + 1 /\ made \in Nat
           /\ Made' = Made \cup {made + 1} /\ Made \subseteq Classes /\ made + 1 \notin Made
           /\ \A x \in Made : mro'[x] = mro[x] /\ own'[x] = own[x] /\ meta'[x] = meta[x]
           /\ mro'[made + 1] = <<made + 1>> \o s /\ own'[made + 1] = o
           /\ meta'[made + 1] = Merge(made + 1, own', mro')
           /\ Ordered(made', own', mro')
<1>1. made \in Nat /\ made >= 4 /\ made < MaxClasses /\ made' = made + 1
      BY DEF IInv, Ordered, Make
<1>2. /\ made + 1 \in Classes /\ Made' = Made \cup {made + 1} /\ Made \subseteq Classes
      /\ made + 1 \notin Made
      BY <1>1 DEF Classes, Made
<1>3. /\ mro' = [mro EXCEPT ![made + 1] = <<made + 1>> \o s]
      /\ own' = [own EXCEPT ![made + 1] = o]
      /\ meta' = [meta EXCEPT ![made + 1] = Merge(made + 1, own', mro')]
      BY DEF Make
<1>4. /\ \A x \in Made : mro'[x] = mro[x] /\ own'[x] = own[x] /\ meta'[x] = meta[x]
      /\ mro'[made + 1] = <<made + 1>> \o s /\ own'[made + 1] = o
      /\ meta'[made + 1] = Merge(made + 1, own', mro')
      BY <1>2, <1>3 DEF IInv, Typed
<1>5. Ordered(made', own', mro')
  <2>1. Ordered(made, own, mro) /\ s \in Seq(1..made)  BY DEF IInv, Made
  <2>2. \A x \in 1..made : mro'[x] = mro[x] /\ own'[x] = own[x]  BY <1>4 DEF Made
  <2> DEFINE k == made + 1
  <2>3. k = made + 1 /\ mro'[k] = <<k>> \o s /\ own'[k] \in (SUBSET Options) \cup {None}
        BY <1>4
  <2> HIDE DEF k
  <2>4. Ordered(k, own', mro')  BY <2>1, <2>2, <2>3, NewOrder
  <2> QED BY <1>1, <2>3, <2>4
<1> QED BY <1>1, <1>2, <1>4, <1>5

\* ... except for the dictionary it shares.
LEMMA MakeInv ==
    ASSUME IInv, NEW s \in Seq(Made), Lineage(s, mro), NEW o \in (SUBSET Options) \cup {None},
           NEW l \in Dictionaries, Make(s, o, l)
    PROVE  /\ Typed' /\ Merged' /\ Written'
           /\ dict'[made + 1] = l /\ \A x \in Made : dict'[x] = dict[x]
<1>0. PICK c : c = made + 1  OBVIOUS
<1> DEFINE options == Merge(c, own', mro')
           d == Dict(c, options, dict')
<1>1. /\ c \in Classes /\ c \in Nat /\ made' = c /\ made \in Nat
      /\ Made' = Made \cup {c} /\ Made \subseteq Classes /\ c \notin Made
      /\ \A x \in Made : mro'[x] = mro[x] /\ own'[x] = own[x] /\ meta'[x] = meta[x]
      /\ meta'[c] = options /\ Ordered(made', own', mro')
  <2>1. /\ made + 1 \in Classes /\ made' = made + 1 /\ made \in Nat
        /\ Made' = Made \cup {made + 1} /\ Made \subseteq Classes /\ made + 1 \notin Made
        /\ \A x \in Made : mro'[x] = mro[x] /\ own'[x] = own[x] /\ meta'[x] = meta[x]
        /\ mro'[made + 1] = <<made + 1>> \o s /\ own'[made + 1] = o
        /\ meta'[made + 1] = Merge(made + 1, own', mro')
        /\ Ordered(made', own', mro')
        BY MakeOrdered
  <2> QED BY <1>0, <2>1 DEF Classes
<1>2. Typed /\ Merged /\ Written /\ Ordered(made, own, mro)  BY DEF IInv
<1>3. /\ mro' = [mro EXCEPT ![c] = <<c>> \o s] /\ own' = [own EXCEPT ![c] = o]
      /\ meta' = [meta EXCEPT ![c] = options] /\ made' <= MaxClasses
      /\ dict' = [dict EXCEPT ![c] = l]
      /\ fields' = IF options["emit_fields"] = Root THEN fields
                   ELSE [fields EXCEPT ![d] = options["emit_fields"]]
      BY <1>0, <1>1 DEF Make, Classes
<1>4. \A p \in Options : options[p] \in 1..made'
  <2>1. c \in 1..made'  BY <1>0, <1>1
  <2> QED BY <1>1, <2>1, MergeInherited
<1>5. options \in [Options -> Nat]
  <2>1. options = [p \in Options |-> options[p]]  BY MergeIsFunction
  <2>2. \A p \in Options : options[p] \in Nat  BY <1>4
  <2> HIDE DEF options
  <2> QED BY <2>1, <2>2
<1>6. d \in Dictionaries /\ dict' \in [Classes -> Dictionaries]
      /\ dict'[c] = l /\ \A x \in Made : dict'[x] = dict[x]
  <2>1. 1..made' \subseteq Classes  BY <1>1 DEF Classes
  <2>2. dict' \in [Classes -> Dictionaries]  BY <1>2, <1>3 DEF Typed
  <2>3. dict'[c] = l /\ \A x \in Made : dict'[x] = dict[x]  BY <1>1, <1>2, <1>3 DEF Typed
  <2> HIDE DEF options
  <2>4. options["emit_models"] \in Classes  BY <1>4, <2>1 DEF Options
  <2>5. d \in Dictionaries  BY <1>1, <2>2, <2>4 DEF Dict, Dictionaries
  <2> QED BY <2>2, <2>3, <2>5
<1>7. <<c>> \o s \in Seq(Nat)
  <2>1. Made \subseteq Nat  BY DEF Made
  <2>2. s \in Seq(Nat)  BY <2>1, SeqMonotonic
  <2>3. c \in Nat  BY <1>0, <1>1
  <2> HIDE DEF options, d
  <2> QED BY <2>2, <2>3
<1>8. Merged'
  <2> SUFFICES ASSUME NEW x \in Made PROVE meta'[x] = Merge(x, own', mro')
    <3> QED BY <1>1 DEF Merged
  <2>1. \A y \in 1..made : mro'[y] = mro[y] /\ own'[y] = own[y]  BY <1>1 DEF Made
  <2>2. Merge(x, own', mro') = Merge(x, own, mro)
        BY <1>1, <1>2, <2>1, MergeStable DEF Made
  <2> QED BY <1>1, <1>2, <2>2 DEF Merged
<1>9. Written'
  <2> SUFFICES ASSUME NEW e \in Dictionaries
               PROVE  IF Setters(e)' = {} THEN fields'[e] = None
                      ELSE \E x \in Setters(e)' : /\ \A y \in Setters(e)' : y <= x
                                                  /\ fields'[e] = meta'[x]["emit_fields"]
      BY DEF Written, Dictionaries, Classes
  <2> HIDE DEF options
  <2>1. \A x \in Made : DictOf(x)' = DictOf(x)
    <3> SUFFICES ASSUME NEW x \in Made PROVE DictOf(x)' = DictOf(x)  OBVIOUS
    <3>1. meta[x]["emit_models"] \in Made
          BY <1>2, MergeInherited DEF Merged, Made, Options
    <3> QED BY <1>1, <1>6, <3>1 DEF DictOf, Dict
  <2>2. DictOf(c)' = d  BY <1>1 DEF DictOf
  <2>3. Setters(e)' = IF e = d /\ options["emit_fields"] # Root THEN Setters(e) \cup {c} ELSE Setters(e)
    <3>1. Setters(e)' = {x \in Made \cup {c} : DictOf(x)' = e /\ meta'[x]["emit_fields"] # Root}
          BY <1>1 DEF Setters, Sharers
    <3>2. Setters(e) = {x \in Made : DictOf(x) = e /\ meta[x]["emit_fields"] # Root}
          BY DEF Setters, Sharers
    <3> HIDE DEF d
    <3> QED BY <1>1, <2>1, <2>2, <3>1, <3>2
  <2>4. Setters(e) \subseteq Made  BY DEF Setters, Sharers
  <2>5. CASE e = d /\ options["emit_fields"] # Root
    <3>1. fields'[e] = meta'[c]["emit_fields"]  BY <1>1, <1>2, <1>3, <1>6, <2>5 DEF Typed
    <3>2. \A y \in Setters(e)' : y <= c
      <4>1. \A y \in Made : y <= c  BY <1>0, <1>1 DEF Made
      <4>2. Setters(e)' = Setters(e) \cup {c} /\ c <= c  BY <1>1, <2>3, <2>5
      <4> HIDE DEF d
      <4> QED BY <2>4, <4>1, <4>2
    <3> QED BY <2>3, <2>5, <3>1, <3>2
  <2>6. CASE ~(e = d /\ options["emit_fields"] # Root)
    <3>1. fields'[e] = fields[e]  BY <1>2, <1>3, <2>6 DEF Typed
    <3>2. Setters(e)' = Setters(e)  BY <2>3, <2>6
    <3>3. \A x \in Setters(e) : meta'[x] = meta[x]  BY <1>1, <2>4
    <3> QED BY <1>2, <3>1, <3>2, <3>3 DEF Written
  <2> QED BY <2>5, <2>6
<1> HIDE DEF options, d
<1>10. fields' \in [Dictionaries -> Nat \cup {None}]
  <2>1. options["emit_fields"] \in Nat  BY <1>5 DEF Options
  <2> QED BY <1>2, <1>3, <1>6, <2>1 DEF Typed
<1>11. Typed'
  <2>1. Classes' = Classes /\ Dictionaries' = Dictionaries  BY DEF Classes, Dictionaries
  <2>2. /\ mro' \in [Classes -> Seq(Nat)]
        /\ own' \in [Classes -> (SUBSET Options) \cup {None}]
        /\ meta' \in [Classes -> [Options -> Nat]]
        BY <1>2, <1>3, <1>5, <1>7 DEF Typed
  <2> QED BY <1>3, <1>6, <1>10, <2>1, <2>2 DEF Typed
<1> QED BY <1>0, <1>6, <1>8, <1>9, <1>11

-----------------------------------------------------------------------------
\* A class that is there stays what it was.
LEMMA OldStays ==
    ASSUME IInv, NEW s \in Seq(Made), Lineage(s, mro), NEW o \in (SUBSET Options) \cup {None},
           NEW l \in Dictionaries, Make(s, o, l),
           NEW x \in Made, api'[x] = api[x]
    PROVE  Lent(x)' /\ (api[x] # None => FromResource(x)')
<1>1. /\ Made \subseteq Made' /\ dict'[x] = dict[x]
      /\ \A y \in Made : mro'[y] = mro[y] /\ own'[y] = own[y]
      BY MakeOrdered, MakeInv
<1>2. Lent(x) /\ (api[x] # None => FromResource(x))  BY DEF IInv, Registered
<1>3. Lent(x)'
  <2>1. dict[x] = x \/ (api[x] = dict[x] /\ "emit_models" \in ApiOptions[api[x]] \cap own[x])
        BY <1>2 DEF Lent
  <2>2. dict'[x] = dict[x] /\ api'[x] = api[x] /\ own'[x] = own[x]  BY <1>1
  <2> QED BY <2>1, <2>2 DEF Lent
<1>4. ASSUME api[x] # None PROVE FromResource(x)'
  <2>1. PICK p \in Made \ {Root, ResourceView} :
           /\ mro[x] = <<x>> \o mro[p] /\ own[x] \in SUBSET Options
           /\ \/ ApiOptions[api[x]] \subseteq own[x]
              \/ p \in {MapResource, AutoJSONRPC} /\ own[x] = {}
        BY <1>2, <1>4 DEF FromResource
  <2>2. p \in Made' \ {Root, ResourceView} /\ mro'[p] = mro[p]  BY <1>1
  <2> QED BY <1>1, <2>1, <2>2 DEF FromResource
<1> QED BY <1>3, <1>4

\* A class that is not registered.
LEMMA MakeRegistered ==
    ASSUME IInv, NEW s \in Seq(Made), Lineage(s, mro), NEW o \in (SUBSET Options) \cup {None},
           Make(s, o, made + 1), UNCHANGED registries
    PROVE  IInv'
<1>0. PICK c : c = made + 1  OBVIOUS
<1>1. /\ Made' = Made \cup {c} /\ Made \subseteq Classes /\ c \in Classes \ Made
      /\ Ordered(made', own', mro')
      BY <1>0, MakeOrdered
<1>2. c \in Dictionaries /\ Classes' = Classes  BY <1>1 DEF Dictionaries, Classes
<1>3. Typed' /\ Merged' /\ Written' /\ dict'[c] = c
      BY <1>0, <1>2, MakeInv
<1>4. UNCHANGED <<api, url, unfinished, resources>>  BY DEF registries
<1>5. api[c] = None /\ \A x \in Classes \ Made : api[x] = None
      BY <1>1 DEF IInv, Registered
<1>6. ASSUME NEW a \in Apis, NEW n \in Names
      PROVE  RegisteredAs(a, n)' = RegisteredAs(a, n)
  <2>1. c \notin {x \in Made' : api[x] = a /\ url[x] = n}  BY <1>5, KindsAssumption
  <2> QED BY <1>1, <1>4, <2>1 DEF RegisteredAs
<1>7. \A x \in Made : Lent(x)' /\ (api[x] # None => FromResource(x)')
      BY <1>0, <1>2, <1>4, OldStays
<1>8. Lent(c)'  BY <1>3 DEF Lent
<1>9. Registered'
  <2>1. Registered  BY DEF IInv
  <2>2. \A x \in Made' : Lent(x)' /\ (api'[x] # None => FromResource(x)' /\ resources'[api'[x]] # None)
        BY <1>1, <1>4, <1>5, <1>7, <1>8, <2>1 DEF Registered
  <2>3. \A x \in Classes' \ Made' : api'[x] = None  BY <1>1, <1>2, <1>4, <1>5
  <2>4. \A a \in Apis, n \in Names :
           resources'[a] # None => IsLatest(resources'[a][n], RegisteredAs(a, n)')
        BY <1>4, <1>6, <2>1 DEF Registered
  <2>5. \A a \in unfinished' : a \in Apis /\ resources'[a] # None
        BY <1>4, <2>1 DEF Registered
  <2> HIDE DEF IsLatest
  <2> QED BY <2>2, <2>3, <2>4, <2>5 DEF Registered
<1>10. TypedRegistries'  BY <1>2, <1>4 DEF IInv, TypedRegistries
<1> QED BY <1>1, <1>3, <1>9, <1>10 DEF IInv

\* A class that is.
LEMMA EnterInv ==
    ASSUME IInv, NEW a \in Apis, NEW p \in Made \ {Root, ResourceView}, NEW o \in SUBSET Options,
           ApiOptions[a] \subseteq o \/ (p \in {MapResource, AutoJSONRPC} /\ o = {}),
           NEW l, l = made + 1 \/ (l = a /\ "emit_models" \in ApiOptions[a] \cap o),
           NEW u \in Names, NEW before \in [Names -> Classes \cup {None}],
           \A n \in Names : IsLatest(before[n], RegisteredAs(a, n)),
           unfinished' \subseteq unfinished \cup {a},
           Enter(a, p, o, l, u, before)
    PROVE  IInv'
<1>0. PICK c : c = made + 1  OBVIOUS
<1>1. mro[p] \in Seq(Made) /\ Lineage(mro[p], mro) /\ o \in (SUBSET Options) \cup {None}
      BY OldOrder DEF IInv, Made
<1>2. Make(mro[p], o, l)  BY DEF Enter
<1>3. /\ Made' = Made \cup {c} /\ Made \subseteq Classes /\ c \in Classes \ Made /\ c \in Nat
      /\ \A x \in Made : mro'[x] = mro[x] /\ own'[x] = own[x]
      /\ mro'[c] = <<c>> \o mro[p] /\ own'[c] = o
      /\ Ordered(made', own', mro')
  <2>1. /\ made + 1 \in Classes /\ made' = made + 1 /\ made \in Nat
        /\ Made' = Made \cup {made + 1} /\ Made \subseteq Classes /\ made + 1 \notin Made
        /\ \A x \in Made : mro'[x] = mro[x] /\ own'[x] = own[x] /\ meta'[x] = meta[x]
        /\ mro'[made + 1] = <<made + 1>> \o mro[p] /\ own'[made + 1] = o
        /\ meta'[made + 1] = Merge(made + 1, own', mro')
        /\ Ordered(made', own', mro')
        BY <1>1, <1>2, MakeOrdered
  <2> QED BY <1>0, <2>1 DEF Classes
<1>4. l \in Dictionaries /\ Classes' = Classes  BY <1>0, <1>3 DEF Dictionaries, Classes
<1>5. Typed' /\ Merged' /\ Written' /\ dict'[c] = l  BY <1>0, <1>1, <1>2, <1>4, MakeInv
<1>6. /\ api' = [api EXCEPT ![c] = a] /\ url' = [url EXCEPT ![c] = u]
      /\ resources' = [resources EXCEPT ![a] = [before EXCEPT ![u] = c]]
      BY <1>0 DEF Enter
<1>7. TypedRegistries  BY DEF IInv
<1>8. /\ api'[c] = a /\ \A x \in Classes : x # c => api'[x] = api[x]
      /\ url'[c] = u /\ \A x \in Classes : x # c => url'[x] = url[x]
      BY <1>3, <1>6, <1>7 DEF TypedRegistries
<1>9. TypedRegistries'
  <2>1. [before EXCEPT ![u] = c] \in [Names -> Classes \cup {None}]  BY <1>3
  <2>2. api' \in [Classes -> Apis \cup {None}] /\ url' \in [Classes -> Names \cup {None}]
        BY <1>3, <1>6, <1>7 DEF TypedRegistries
  <2>3. resources' \in [Apis -> [Names -> Classes \cup {None}] \cup {None}]
        BY <1>6, <1>7, <2>1 DEF TypedRegistries
  <2> QED BY <1>4, <2>2, <2>3 DEF TypedRegistries
<1>10. resources'[a] # None /\ \A b \in Apis : b # a => resources'[b] = resources[b]
  <2>1. [before EXCEPT ![u] = c] \in [Names -> Classes \cup {None}]  BY <1>3
  <2>2. [before EXCEPT ![u] = c] # None  BY <2>1, KindsAssumption
  <2> QED BY <1>6, <1>7, <2>2 DEF TypedRegistries
<1>11. /\ \A n \in Names : resources'[a][n] = IF n = u THEN c ELSE before[n]
       BY <1>6, <1>7 DEF TypedRegistries
<1>12. \A b \in Apis, n \in Names :
          RegisteredAs(b, n)' = IF b = a /\ n = u THEN RegisteredAs(b, n) \cup {c}
                                ELSE RegisteredAs(b, n)
  <2> SUFFICES ASSUME NEW b \in Apis, NEW n \in Names
               PROVE  RegisteredAs(b, n)' = IF b = a /\ n = u THEN RegisteredAs(b, n) \cup {c}
                                            ELSE RegisteredAs(b, n)
      OBVIOUS
  <2>1. \A x \in Made' : x \in Made \/ x = c  BY <1>3
  <2>2. \A x \in Made : x # c /\ api'[x] = api[x] /\ url'[x] = url[x]  BY <1>3, <1>8
  <2>3. \A x \in Made : x \in RegisteredAs(b, n)' <=> x \in RegisteredAs(b, n)
        BY <1>3, <2>2 DEF RegisteredAs
  <2>4. c \in RegisteredAs(b, n)' <=> b = a /\ n = u  BY <1>3, <1>8 DEF RegisteredAs
  <2>5. RegisteredAs(b, n) \subseteq Made /\ RegisteredAs(b, n)' \subseteq Made'
        BY DEF RegisteredAs
  <2>6. c \notin RegisteredAs(b, n)  BY <1>3, <2>5
  <2> DEFINE Now == RegisteredAs(b, n)
             Then == RegisteredAs(b, n)'
  <2>7. /\ \A x : x \in Then => x \in Made \/ x = c
        /\ \A x : x \in Now => x \in Made
        /\ \A x \in Made : x \in Then <=> x \in Now
        /\ c \in Then <=> b = a /\ n = u
        /\ c \notin Now
    <3> QED BY <2>1, <2>3, <2>4, <2>5, <2>6
  <2> HIDE DEF Now, Then
  <2>8. CASE b = a /\ n = u
    <3>1. \A x : x \in Then <=> x \in Now \/ x = c  BY <2>7, <2>8
    <3>2. Then = Now \cup {c}  BY <3>1
    <3> QED BY <2>8, <3>2 DEF Now, Then
  <2>9. CASE ~(b = a /\ n = u)
    <3>1. \A x : x \in Then <=> x \in Now  BY <2>7, <2>9
    <3>2. Then = Now  BY <3>1
    <3> QED BY <2>9, <3>2 DEF Now, Then
  <2> QED BY <2>8, <2>9
<1>13. FromResource(c)'
  <2>1. p \in Made' \ {Root, ResourceView} /\ mro'[p] = mro[p]  BY <1>3
  <2>2. mro'[c] = <<c>> \o mro'[p] /\ own'[c] \in SUBSET Options  BY <1>3, <2>1
  <2>3. ApiOptions[api'[c]] \subseteq own'[c] \/ (p \in {MapResource, AutoJSONRPC} /\ own'[c] = {})
    <3>1. api'[c] = a /\ own'[c] = o  BY <1>3, <1>8
    <3> QED BY <3>1
  <2> QED BY <2>1, <2>2, <2>3 DEF FromResource
<1>14. Lent(c)'  BY <1>0, <1>3, <1>5, <1>8 DEF Lent
<1>15. ASSUME NEW x \in Made'
       PROVE  Lent(x)' /\ (api'[x] # None => FromResource(x)' /\ resources'[api'[x]] # None)
  <2>1. CASE x = c  BY <1>8, <1>10, <1>13, <1>14, <2>1
  <2>2. CASE x # c
    <3>1. x \in Made /\ api'[x] = api[x]  BY <1>3, <1>8, <2>2
    <3>2. Lent(x)' /\ (api[x] # None => FromResource(x)')
          BY <1>1, <1>2, <1>4, <3>1, OldStays
    <3>3. api[x] # None => resources[api[x]] # None  BY <3>1 DEF IInv, Registered
    <3>4. api[x] \in Apis \cup {None}  BY <1>3, <1>7, <3>1 DEF TypedRegistries
    <3> QED BY <1>10, <3>1, <3>2, <3>3, <3>4
  <2> QED BY <2>1, <2>2
<1>16. ASSUME NEW b \in Apis, NEW n \in Names, resources'[b] # None
       PROVE  IsLatest(resources'[b][n], RegisteredAs(b, n)')
  <2>1. CASE b = a /\ n = u
    <3>1. resources'[b][n] = c /\ RegisteredAs(b, n)' = RegisteredAs(b, n) \cup {c}
          BY <1>11, <1>12, <2>1
    <3>2. \A x \in RegisteredAs(b, n) : x <= c
      <4>1. made \in Nat /\ \A x \in RegisteredAs(b, n) : x \in 1..made
            BY DEF RegisteredAs, Made, IInv, Ordered
      <4> QED BY <1>0, <4>1
    <3>3. c <= c  BY <1>3
    <3>4. RegisteredAs(b, n)' # {} /\ c \in RegisteredAs(b, n)'  BY <3>1
    <3>5. \A x \in RegisteredAs(b, n)' : x <= c  BY <3>1, <3>2, <3>3
    <3>6. IsLatest(c, RegisteredAs(b, n)')  BY <3>4, <3>5 DEF IsLatest
    <3> QED BY <3>1, <3>6
  <2>2. CASE b = a /\ n # u
    <3>1. resources'[b][n] = before[n] /\ RegisteredAs(b, n)' = RegisteredAs(b, n)
          BY <1>11, <1>12, <2>2
    <3> QED BY <2>2, <3>1
  <2>3. CASE b # a
    <3>1. resources'[b] = resources[b] /\ RegisteredAs(b, n)' = RegisteredAs(b, n)
          BY <1>10, <1>12, <2>3
    <3>2. IsLatest(resources[b][n], RegisteredAs(b, n))  BY <1>16, <3>1 DEF IInv, Registered
    <3> QED BY <3>1, <3>2
  <2> QED BY <2>1, <2>2, <2>3
<1>17. Registered'
  <2>1. \A x \in Classes' \ Made' : api'[x] = None
    <3>1. \A x \in Classes \ Made : api[x] = None  BY DEF IInv, Registered
    <3> QED BY <1>3, <1>4, <1>8, <3>1
  <2>2. \A b \in unfinished' : b \in Apis /\ resources'[b] # None
    <3>1. \A b \in unfinished : b \in Apis /\ resources[b] # None  BY DEF IInv, Registered
    <3> QED BY <1>10, <3>1
  <2> QED BY <1>15, <1>16, <2>1, <2>2 DEF Registered
<1> QED BY <1>3, <1>5, <1>9, <1>17 DEF IInv

\* Api.__init__ of an Api that nothing has been registered with.
LEMMA CreateInv ==
    ASSUME IInv, NEW a \in Apis, NEW map \in BOOLEAN, NEW rpc \in BOOLEAN, Create(a, map, rpc)
    PROVE  IInv'
<1> DEFINE empty == [n \in Names |-> None]
<1>1. resources[a] = None /\ unfinished' \subseteq unfinished \cup {a}  BY DEF Create
<1>2. \A n \in Names : RegisteredAs(a, n) = {}
  <2>1. \A x \in Made : api[x] # a  BY <1>1, KindsAssumption DEF IInv, Registered
  <2> QED BY <2>1 DEF RegisteredAs
<1>3. CASE map
  <2>1. Enter(a, MapResource, {}, made + 1, Map, empty)  BY <1>3 DEF Create
  <2>2. MapResource \in Made \ {Root, ResourceView}  BY DEF IInv, Ordered, Made
  <2>3. empty \in [Names -> Classes \cup {None}] /\ \A n \in Names : empty[n] = None  OBVIOUS
  <2>4. {} \in SUBSET Options /\ Map \in Names  BY OptionsAssumption
  <2>5. \A n \in Names : IsLatest(empty[n], RegisteredAs(a, n))  BY <1>2, <2>3 DEF IsLatest
  <2> HIDE DEF empty
  <2> QED BY <1>1, <2>1, <2>2, <2>3, <2>4, <2>5, EnterInv
<1>4. CASE ~map
  <2>1. /\ UNCHANGED <<made, mro, own, dict, meta, fields, api, url>>
        /\ resources' = [resources EXCEPT ![a] = empty]
        BY <1>4 DEF Create
  <2>2. Typed'  BY <2>1 DEF IInv, Typed, Classes, Dictionaries
  <2>3. Merged' /\ Written' /\ Ordered(made', own', mro')
        BY <2>1 DEF IInv, Merged, Made, Written, Setters, Sharers, DictOf, Dict
  <2>4. Made' = Made /\ Classes' = Classes  BY <2>1 DEF Made, Classes
  <2>5. TypedRegistries  BY DEF IInv
  <2>6. resources' \in [Apis -> [Names -> Classes \cup {None}] \cup {None}]
        BY <2>1, <2>5 DEF TypedRegistries
  <2>7. TypedRegistries'  BY <2>1, <2>4, <2>5, <2>6 DEF TypedRegistries
  <2>8. resources'[a] = empty /\ \A b \in Apis : b # a => resources'[b] = resources[b]
        BY <2>1, <2>5 DEF TypedRegistries
  <2>9. empty # None /\ \A n \in Names : empty[n] = None
    <3>1. empty \in [Names -> Classes \cup {None}]  OBVIOUS
    <3> QED BY <3>1, KindsAssumption
  <2>10. Registered'
    <3> HIDE DEF empty
    <3>1. \A b \in Apis, n \in Names : RegisteredAs(b, n)' = RegisteredAs(b, n)
          BY <2>1, <2>4 DEF RegisteredAs
    <3>2. ASSUME NEW x \in Made
          PROVE  Lent(x)' /\ (api[x] # None => FromResource(x)' /\ resources'[api[x]] # None)
      <4>1. Lent(x) /\ (api[x] # None => FromResource(x) /\ resources[api[x]] # None)
            BY DEF IInv, Registered
      <4>2. Lent(x)' /\ (FromResource(x)' <=> FromResource(x))
            BY <2>1, <2>4, <4>1 DEF Lent, FromResource
      <4>3. x \in Classes  BY DEF IInv, Typed, Ordered, Made, Classes
      <4>4. api[x] \in Apis \cup {None}  BY <2>5, <4>3 DEF TypedRegistries
      <4> QED BY <2>8, <2>9, <4>1, <4>2, <4>4
    <3>3. ASSUME NEW b \in Apis, NEW n \in Names, resources'[b] # None
          PROVE  IsLatest(resources'[b][n], RegisteredAs(b, n))
      <4>1. CASE b = a  BY <1>2, <2>8, <2>9, <4>1 DEF IsLatest
      <4>2. CASE b # a  BY <2>8, <3>3, <4>2 DEF IInv, Registered
      <4> QED BY <4>1, <4>2
    <3>4. \A b \in unfinished' : b \in Apis /\ resources'[b] # None
      <4>1. \A b \in unfinished : b \in Apis /\ resources[b] # None  BY DEF IInv, Registered
      <4> QED BY <1>1, <2>8, <2>9, <4>1
    <3>5. \A x \in Classes \ Made : api[x] = None  BY DEF IInv, Registered
    <3> QED BY <2>1, <2>4, <3>1, <3>2, <3>3, <3>4, <3>5 DEF Registered
  <2> QED BY <2>2, <2>3, <2>7, <2>10 DEF IInv
<1> QED BY <1>3, <1>4

LEMMA NextInv == IInv /\ [Next]_vars => IInv'
<1> SUFFICES ASSUME IInv, [Next]_vars PROVE IInv'  OBVIOUS
<1>0. Ordered(made, own, mro) /\ Made = 1..made  BY DEF IInv, Made
<1>1. ASSUME NEW b \in Made, NEW o \in Metas \cup {None}, Derive(b, o) PROVE IInv'
  <2>1. mro[b] \in Seq(Made) /\ Lineage(mro[b], mro)  BY <1>0, OldOrder
  <2>2. Make(mro[b], o, made + 1) /\ UNCHANGED registries /\ o \in (SUBSET Options) \cup {None}
        BY <1>1, OptionsAssumption DEF Derive
  <2> QED BY <2>1, <2>2, MakeRegistered
<1>2. ASSUME NEW b1 \in Made, NEW b2 \in Made, Combine(b1, b2)
      PROVE  IInv'
  <2>1. PICK t \in SetToSeqs((ToSet(mro[b1]) \cup ToSet(mro[b2])) \ {b1, Root}) :
           \E o \in Metas \cup {None} : Make(<<b1>> \o t \o <<Root>>, o, made + 1)
        BY <1>2 DEF Combine
  <2>2. PICK o \in Metas \cup {None} : Make(<<b1>> \o t \o <<Root>>, o, made + 1)
        BY <2>1
  <2>3. b1 # Root /\ UNCHANGED registries  BY <1>2 DEF Combine
  <2>4. <<b1>> \o t \o <<Root>> \in Seq(Made) /\ Lineage(<<b1>> \o t \o <<Root>>, mro)
        BY <1>0, <2>3, CombinedOrder
  <2>5. o \in (SUBSET Options) \cup {None}  BY OptionsAssumption
  <2> DEFINE s == <<b1>> \o t \o <<Root>>
  <2>6. s \in Seq(Made) /\ Lineage(s, mro) /\ Make(s, o, made + 1)  BY <2>2, <2>4
  <2> HIDE DEF s
  <2> QED BY <2>3, <2>5, <2>6, MakeRegistered
<1>3. ASSUME NEW a \in Apis, NEW map \in BOOLEAN, NEW rpc \in BOOLEAN, Create(a, map, rpc)
      PROVE  IInv'
      BY <1>3, CreateInv
<1>4. ASSUME NEW a \in Apis, CreateRPC(a) PROVE IInv'
  <2>1. /\ a \in unfinished /\ unfinished' \subseteq unfinished \cup {a}
        /\ Enter(a, AutoJSONRPC, {}, made + 1, RPC, resources[a])
        BY <1>4 DEF CreateRPC
  <2>2. AutoJSONRPC \in Made \ {Root, ResourceView}  BY <1>0 DEF Ordered
  <2>3. resources[a] # None  BY <2>1 DEF IInv, Registered
  <2>4. resources[a] \in [Names -> Classes \cup {None}]  BY <2>3 DEF IInv, TypedRegistries
  <2>5. \A n \in Names : IsLatest(resources[a][n], RegisteredAs(a, n))
        BY <2>3 DEF IInv, Registered
  <2>6. {} \in SUBSET Options /\ RPC \in Names  BY OptionsAssumption
  <2> QED BY <2>1, <2>2, <2>4, <2>5, <2>6, EnterInv
<1>5. ASSUME NEW a \in Apis, NEW c \in Made, NEW o \in Metas, NEW n \in Names,
             Register(a, c, o, n)
      PROVE  IInv'
  <2> DEFINE given == ApiOptions[a] \cup o
             l == GivenDict(a, o)
  <2>1. /\ Enter(a, c, given, l, n, resources[a]) /\ resources[a] # None
        /\ c \notin {Root, ResourceView} /\ unfinished' = unfinished
        BY <1>5 DEF Register, Given
  <2>2. given \in SUBSET Options /\ ApiOptions[a] \subseteq given
    <3>1. ApiOptions[a] \in SUBSET Options /\ o \in SUBSET Options  BY OptionsAssumption
    <3> QED BY <3>1
  <2>3. l = made + 1 \/ (l = a /\ "emit_models" \in ApiOptions[a] \cap given)
        BY DEF GivenDict
  <2>4. resources[a] \in [Names -> Classes \cup {None}]  BY <2>1 DEF IInv, TypedRegistries
  <2>5. \A k \in Names : IsLatest(resources[a][k], RegisteredAs(a, k))
        BY <2>1 DEF IInv, Registered
  <2> HIDE DEF given, l
  <2> QED BY <2>1, <2>2, <2>3, <2>4, <2>5, EnterInv
<1>6. CASE UNCHANGED vars
  <2>1. UNCHANGED <<made, mro, own, dict, meta, fields, api, url, unfinished, resources>>
        BY <1>6 DEF vars, registries
  <2>2. Typed' /\ TypedRegistries'
        BY <2>1 DEF IInv, Typed, TypedRegistries, Classes, Dictionaries
  <2>3. Merged' /\ Written' /\ Ordered(made', own', mro')
        BY <2>1 DEF IInv, Merged, Made, Written, Setters, Sharers, DictOf, Dict
  <2>4. Made' = Made /\ Classes' = Classes  BY <2>1 DEF Made, Classes
  <2>5. \A b \in Apis, n \in Names : RegisteredAs(b, n)' = RegisteredAs(b, n)
        BY <2>1, <2>4 DEF RegisteredAs
  <2>6. Registered  BY DEF IInv
  <2>7. Registered'  BY <2>1, <2>4, <2>5, <2>6 DEF Registered, Lent, FromResource
  <2> QED BY <2>2, <2>3, <2>7 DEF IInv
<1> QED BY <1>1, <1>2, <1>3, <1>4, <1>5, <1>6 DEF Next

LEMMA Invariant == Spec => []IInv
BY InitInv, NextInv, PTL DEF Spec

-----------------------------------------------------------------------------
\* An option is the one of the nearest class in the order whose Meta has it
\* (NearestWins).
THEOREM NearestMetaWins == Spec => []NearestWins
<1>1. IInv => NearestWins
  <2> SUFFICES ASSUME IInv, NEW c \in Made, Straight(c), NEW o \in Options
               PROVE  meta[c][o] = Nearest(c, o)
      BY DEF NearestWins
  <2> QED BY MergeIsNearest DEF IInv, Merged
<1> QED BY <1>1, Invariant, PTL

\* A registered class has the options given and those of its Api, and else its
\* resource's, except those the Api makes for itself; and an Api's registry has
\* under each name what it has made last as that (RegistrationRedefines).
THEOREM RegistrationsRedefine == Spec => []RegistrationRedefines
<1>1. IInv => RegistrationRedefines
  <2> SUFFICES ASSUME IInv PROVE RegistrationRedefines  OBVIOUS
  <2>1. ASSUME NEW c \in Made, api[c] # None
        PROVE  /\ Tail(mro[c]) = mro[mro[c][2]] /\ mro[c][2] \notin {Root, ResourceView}
               /\ \A o \in Options : meta[c][o] = IF o \in own[c] THEN c ELSE meta[mro[c][2]][o]
               /\ \/ ApiOptions[api[c]] \subseteq own[c]
                  \/ mro[c][2] \in {MapResource, AutoJSONRPC} /\ own[c] = {}
    <3>1. PICK p \in Made \ {Root, ResourceView} :
             /\ mro[c] = <<c>> \o mro[p] /\ own[c] \in SUBSET Options
             /\ \/ ApiOptions[api[c]] \subseteq own[c]
                \/ p \in {MapResource, AutoJSONRPC} /\ own[c] = {}
          BY <2>1 DEF IInv, Registered, FromResource
    <3>2. mro[p] \in Seq(1..p) /\ mro[p] # <<>> /\ mro[p][1] = p
          BY DEF IInv, Ordered, Order, Lineage, Made
    <3>3. Tail(mro[c]) = mro[p] /\ mro[c][2] = p
          BY <3>1, <3>2
    <3>4. own[c] # None  BY <3>1
    <3>5. ASSUME NEW o \in Options
          PROVE  meta[c][o] = IF o \in own[c] THEN c ELSE meta[p][o]
      <4>1. Merge(c, own, mro)[o] = IF o \in own[c] THEN c ELSE Merge(p, own, mro)[o]
            BY <3>1, <3>4, MergeOwn DEF IInv, Made
      <4> QED BY <4>1 DEF IInv, Merged
    <3> QED BY <3>1, <3>3, <3>5
  <2>2. \A a \in Apis, n \in Names :
           resources[a] # None => IsLatest(resources[a][n], RegisteredAs(a, n))
        BY DEF IInv, Registered
  <2> QED BY <2>1, <2>2 DEF RegistrationRedefines, IsLatest
<1> QED BY <1>1, Invariant, PTL

\* A class' dictionary is its own, an ancestor's or an Api's which has registered
\* it or an ancestor; and of all that share one the last made with emit_fields
\* has determined what they serialize (SharedForCause).
THEOREM SharingHasCause == Spec => []SharedForCause
<1>1. IInv => SharedForCause
  <2> SUFFICES ASSUME IInv, NEW c \in Made
               PROVE  /\ \/ DictOf(c) = c
                         \/ /\ DictOf(c) \in ToSet(mro[c]) \ {Root} /\ own[DictOf(c)] # None
                            /\ "emit_models" \in own[DictOf(c)]
                         \/ \E x \in ToSet(mro[c]) :
                              /\ api[x] = DictOf(c)
                              /\ "emit_models" \in ApiOptions[api[x]] \cap own[x]
                      /\ fields[DictOf(c)] =
                           IF Setters(DictOf(c)) = {} THEN None
                           ELSE meta[CHOOSE x \in Setters(DictOf(c)) :
                                        \A y \in Setters(DictOf(c)) : y <= x]["emit_fields"]
      BY DEF SharedForCause, Setters
  <2> DEFINE v == meta[c]["emit_models"]
  <2>1. Ordered(made, own, mro) /\ c \in 1..made /\ v = Merge(c, own, mro)["emit_models"]
        /\ "emit_models" \in Options
        BY DEF IInv, Merged, Made, Options
  <2>2. /\ v \in ToSet(mro[c]) /\ v \in 1..made
        /\ own[v] \in SUBSET Options /\ "emit_models" \in own[v]
        BY <2>1, MergeInherited
  <2>3. DictOf(c) = IF v = Root THEN c ELSE dict[v]  BY DEF DictOf, Dict
  <2>4. dict[v] = v \/ (api[v] = dict[v] /\ "emit_models" \in ApiOptions[api[v]] \cap own[v])
        BY <2>2 DEF IInv, Registered, Lent, Made
  <2>5. DictOf(c) \in Dictionaries
    <3>1. made \in Nat /\ made <= MaxClasses  BY DEF IInv, Typed, Ordered
    <3>2. c \in Classes /\ v \in Classes  BY <2>1, <2>2, <3>1 DEF Classes
    <3>3. dict[v] \in Dictionaries  BY <3>2 DEF IInv, Typed
    <3> QED BY <2>3, <3>2, <3>3 DEF Dictionaries
  <2>6. fields[DictOf(c)] =
           IF Setters(DictOf(c)) = {} THEN None
           ELSE meta[CHOOSE x \in Setters(DictOf(c)) :
                        \A y \in Setters(DictOf(c)) : y <= x]["emit_fields"]
    <3> DEFINE T == Setters(DictOf(c))
    <3>1. CASE T = {}  BY <2>5, <3>1 DEF IInv, Written
    <3>2. CASE T # {}
      <4>1. PICK x \in T : (\A y \in T : y <= x) /\ fields[DictOf(c)] = meta[x]["emit_fields"]
            BY <2>5, <3>2 DEF IInv, Written
      <4>2. T \subseteq Nat  BY DEF Setters, Sharers, Made
      <4>3. (CHOOSE z \in T : \A y \in T : y <= z) = x
        <5> HIDE DEF T
        <5>1. \A z \in T : (\A y \in T : y <= z) => z = x  BY <4>1, <4>2
        <5> QED BY <4>1, <5>1
      <4> QED BY <3>2, <4>1, <4>3
    <3> QED BY <3>1, <3>2
  <2>7. own[v] # None  BY <2>2
  <2> QED BY <2>2, <2>3, <2>4, <2>6, <2>7
<1> QED BY <1>1, Invariant, PTL
=============================================================================
