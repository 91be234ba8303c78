--------------------------- MODULE SerializeProof ---------------------------
(***************************************************************************)
(* Theorems about Serialize, for any models, rows and options, however     *)
(* deep these are.                                                         *)
(***************************************************************************)
EXTENDS Serialize, FiniteSetTheorems, WellFoundedInduction, TLAPS

-----------------------------------------------------------------------------
\* A set of numbers has a least one.
LEMMA Least ==
    ASSUME NEW S \in SUBSET Nat, S # {}
    PROVE  \E x \in S : \A y \in S : x <= y
<1> DEFINE Intervals == {0..x : x \in S}
           R == StrictSubsetOrdering(Nat)
<1>1. Intervals \subseteq FiniteSubsetsOf(Nat) /\ Intervals # {}
  <2>1. ASSUME NEW x \in S PROVE 0..x \in FiniteSubsetsOf(Nat)
        BY FS_Interval DEF FiniteSubsetsOf
  <2> QED BY <2>1
<1>2. PICK b \in Intervals : \A d \in Intervals : <<d, b>> \notin R
  <2> HIDE DEF Intervals
  <2> QED BY <1>1, FS_StrictSubsetOrderingWellFounded, WFMin, Zenon
<1>3. PICK x \in S : b = 0..x  OBVIOUS
<1>4. ASSUME NEW y \in S, y < x PROVE FALSE
  <2>1. 0..y \in Intervals  OBVIOUS
  <2>2. <<0..y, 0..x>> \in R  BY <1>4 DEF StrictSubsetOrdering
  <2> QED BY <1>2, <1>3, <2>1, <2>2
<1> QED BY <1>4

\* What holds of 0, and of each number after one it holds of, up to n, holds up to n.
LEMMA UpTo ==
    ASSUME NEW n \in Nat, NEW S \in SUBSET Nat, 0 \in S,
           \A i \in 0..(n - 1) : i \in S => i + 1 \in S
    PROVE  0..n \subseteq S
<1> SUFFICES ASSUME (0..n) \ S # {} PROVE FALSE  OBVIOUS
<1> DEFINE Left == (0..n) \ S
<1>0. Left \in SUBSET Nat /\ Left # {}  OBVIOUS
<1>1. PICK x \in Left : \A y \in Left : x <= y
  <2> HIDE DEF Left
  <2> QED BY <1>0, Least
<1>2. x - 1 \in 0..(n - 1) /\ x - 1 \in S  BY <1>1
<1> QED BY <1>1, <1>2

\* The sequence of a finite set has each of its elements once.
LEMMA Listed ==
    ASSUME NEW S, IsFiniteSet(S)
    PROVE  LET s == SetToSeq(S)
           IN  /\ s \in Seq(S) /\ \A x \in S : \E i \in DOMAIN s : s[i] = x
               /\ \A i, j \in DOMAIN s : s[i] = s[j] => i = j
<1> DEFINE n == Cardinality(S)
           s == SetToSeq(S)
<1>1. n \in Nat /\ \E f : f \in Bijection(1..n, S)
      BY FS_CardinalityType DEF ExistsBijection
<1>2. PICK f \in [1..n -> S] : IsInjective(f)
      BY <1>1 DEF Bijection, Injection, IsInjective
<1>3. s \in [1..n -> S] /\ IsInjective(s)  BY <1>2 DEF SetToSeq
<1>4. s \in Injection(1..n, S)  BY <1>3 DEF Injection, IsInjective
<1>5. IsFiniteSet(1..n) /\ Cardinality(1..n) = n  BY <1>1, FS_Interval
<1>6. s \in Surjection(1..n, S)  BY <1>1, <1>4, <1>5, FS_Injection
<1>7. s \in Seq(S)  BY <1>1, <1>3
<1> QED BY <1>3, <1>6, <1>7 DEF Surjection, IsInjective

\* What stands where when others take the place of the first of t, changed to x.
LEMMA Pushed ==
    ASSUME NEW S, NEW t \in Seq(S), t # <<>>, NEW others \in Seq(S), NEW x \in S
    PROVE  LET r == others \o <<x>> \o Tail(t)
           IN  /\ r \in Seq(S) /\ r # <<>> /\ Len(r) = Len(others) + Len(t)
               /\ \A i \in 1..Len(others) : r[i] = others[i]
               /\ r[Len(others) + 1] = x
               /\ \A i \in 2..Len(t) : r[Len(others) + i] = t[i]
<1> DEFINE u == others \o <<x>>
           r == u \o Tail(t)
<1>1. /\ u \in Seq(S) /\ Len(u) = Len(others) + 1 /\ u[Len(others) + 1] = x
      /\ \A i \in 1..Len(others) : u[i] = others[i]
      OBVIOUS
<1>2. /\ Tail(t) \in Seq(S) /\ Len(Tail(t)) = Len(t) - 1
      /\ \A i \in 1..(Len(t) - 1) : Tail(t)[i] = t[i + 1]
      OBVIOUS
<1> HIDE DEF u
<1>3. /\ r \in Seq(S) /\ Len(r) = Len(others) + Len(t) /\ r # <<>>
      /\ \A i \in 1..Len(u) : r[i] = u[i]
      /\ \A i \in 1..Len(Tail(t)) : r[Len(u) + i] = Tail(t)[i]
      BY <1>1, <1>2
<1>4. \A i \in 2..Len(t) : r[Len(others) + i] = t[i]
  <2> SUFFICES ASSUME NEW i \in 2..Len(t) PROVE r[Len(others) + i] = t[i]  OBVIOUS
  <2>1. i - 1 \in 1..Len(Tail(t)) /\ Len(u) + (i - 1) = Len(others) + i  BY <1>1, <1>2
  <2> QED BY <1>2, <1>3, <2>1
<1>5. \A i \in 1..(Len(others) + 1) : r[i] = u[i]  BY <1>1, <1>3
<1> QED BY <1>1, <1>3, <1>4, <1>5 DEF u

LEMMA Wider ==
    ASSUME NEW S, NEW R, S \subseteq R, NEW t \in Seq(S)
    PROVE  t \in Seq(R)
OBVIOUS

LEMMA Popped ==
    ASSUME NEW S, NEW t \in Seq(S), t # <<>>
    PROVE  /\ Tail(t) \in Seq(S) /\ Len(Tail(t)) = Len(t) - 1 /\ Len(t) \in Nat \ {0}
           /\ \A i \in 1..(Len(t) - 1) : Tail(t)[i] = t[i + 1]
OBVIOUS

-----------------------------------------------------------------------------
\* o is the options that hold at the first k objects on a way, and where it starts.
Handed(o, way, k) ==
    o = [i \in 0..k |-> IF i = 0 THEN job.options ELSE Related(o[i - 1], way[i])]

LEMMA HandedExists ==
    ASSUME NEW way, NEW n \in Nat
    PROVE  \E o : Handed(o, way, n)
<1> DEFINE S == {k \in Nat : \E o : Handed(o, way, k)}
<1>1. 0 \in S
  <2> DEFINE o == [i \in 0..0 |-> job.options]
  <2>1. Handed(o, way, 0)  BY DEF Handed
  <2> QED BY <2>1
<1>2. ASSUME NEW k \in 0..(n - 1), k \in S PROVE k + 1 \in S
  <2>1. PICK o : Handed(o, way, k)  BY <1>2
  <2> DEFINE w == [i \in 0..(k + 1) |-> IF i = k + 1 THEN Related(o[k], way[k + 1]) ELSE o[i]]
  <2>2. ASSUME NEW i \in 0..(k + 1)
        PROVE  w[i] = IF i = 0 THEN job.options ELSE Related(w[i - 1], way[i])
    <3>1. CASE i = k + 1
      <4>1. w[i] = Related(o[k], way[i]) /\ w[i - 1] = o[k]  BY <3>1
      <4> QED BY <3>1, <4>1
    <3>2. CASE i # k + 1
      <4>1. i \in 0..k /\ w[i] = o[i] /\ (i # 0 => w[i - 1] = o[i - 1])  BY <3>2
      <4>2. o[i] = IF i = 0 THEN job.options ELSE Related(o[i - 1], way[i])
            BY <2>1, <4>1 DEF Handed
      <4> QED BY <4>1, <4>2
    <3> QED BY <3>1, <3>2
  <2>3. w = [i \in 0..(k + 1) |-> w[i]]  OBVIOUS
  <2> HIDE DEF w
  <2>4. Handed(w, way, k + 1)  BY <2>2, <2>3 DEF Handed
  <2> QED BY <2>4
<1> HIDE DEF S
<1>3. 0..n \subseteq S
  <2>1. S \in SUBSET Nat  BY DEF S
  <2> QED BY <1>1, <1>2, <2>1, UpTo
<1>4. n \in S  BY <1>3
<1> QED BY <1>4 DEF S

\* There is one only, and it depends on no more of the way.
Agree(way, way2, k) == \A i \in 1..k : way2[i] = way[i]

LEMMA HandedOnce ==
    ASSUME NEW way, NEW way2, NEW n \in Nat, NEW n2 \in Nat, n <= n2,
           Agree(way, way2, n), NEW o, Handed(o, way, n), NEW o2, Handed(o2, way2, n2)
    PROVE  o[n] = o2[n]
<1> DEFINE S == {k \in Nat : k <= n => o[k] = o2[k]}
<1>1. 0 \in S  BY DEF Handed
<1>2. ASSUME NEW k \in 0..(n - 1), k \in S PROVE k + 1 \in S
  <2>1. o[k] = o2[k] /\ way2[k + 1] = way[k + 1]  BY <1>2 DEF Agree
  <2>2. o[k + 1] = Related(o[k], way[k + 1])  BY DEF Handed
  <2>3. o2[k + 1] = Related(o2[k], way2[k + 1])  BY DEF Handed
  <2> QED BY <2>1, <2>2, <2>3
<1> HIDE DEF S
<1>3. 0..n \subseteq S
  <2>1. S \in SUBSET Nat  BY DEF S
  <2> QED BY <1>1, <1>2, <2>1, UpTo
<1>4. n \in S  BY <1>3
<1> QED BY <1>4 DEF S

\* OptionsBelow is what its definition says.
LEMMA BelowHanded ==
    ASSUME NEW S, NEW way \in Seq(S)
    PROVE  \E o : Handed(o, way, Len(way)) /\ OptionsBelow(way) = o[Len(way)]
<1> DEFINE o == CHOOSE o : o = [i \in 0..Len(way) |->
                                  IF i = 0 THEN job.options ELSE Related(o[i - 1], way[i])]
<1>1. \E h : Handed(h, way, Len(way))  BY HandedExists
<1>2. Handed(o, way, Len(way))  BY <1>1 DEF Handed
<1>3. OptionsBelow(way) = o[Len(way)]  BY DEF OptionsBelow, Related
<1> QED BY <1>2, <1>3

LEMMA BelowNothing == OptionsBelow(<<>>) = job.options
<1> DEFINE way == <<>>
<1>1. way \in Seq({}) /\ Len(way) = 0  OBVIOUS
<1> HIDE DEF way
<1>2. PICK o : Handed(o, way, Len(way)) /\ OptionsBelow(way) = o[Len(way)]  BY <1>1, BelowHanded
<1>3. o[0] = job.options  BY <1>1, <1>2 DEF Handed
<1> QED BY <1>1, <1>2, <1>3 DEF way

LEMMA BelowNext ==
    ASSUME NEW S, NEW way \in Seq(S), NEW n \in S
    PROVE  OptionsBelow(Append(way, n)) = Related(OptionsBelow(way), n)
<1> DEFINE way2 == Append(way, n)
<1>1. PICK o : Handed(o, way, Len(way)) /\ OptionsBelow(way) = o[Len(way)]  BY BelowHanded
<1>2. way2 \in Seq(S) /\ Len(way2) = Len(way) + 1 /\ way2[Len(way) + 1] = n
      /\ \A i \in 1..Len(way) : way2[i] = way[i]
      OBVIOUS
<1> HIDE DEF way2
<1>3. PICK o2 : Handed(o2, way2, Len(way2)) /\ OptionsBelow(way2) = o2[Len(way2)]
      BY <1>2, BelowHanded
<1>4. o[Len(way)] = o2[Len(way)]
  <2>1. PICK k \in Nat, k2 \in Nat : k = Len(way) /\ k2 = Len(way2) /\ k <= k2  BY <1>2
  <2>2. Handed(o, way, k) /\ Handed(o2, way2, k2) /\ Agree(way, way2, k)
        BY <1>1, <1>2, <1>3, <2>1 DEF Agree
  <2>3. o[k] = o2[k]  BY <2>1, <2>2, HandedOnce
  <2> QED BY <2>1, <2>3
<1>5. o2[Len(way) + 1] = Related(o2[Len(way)], n)  BY <1>2, <1>3 DEF Handed
<1> QED BY <1>1, <1>2, <1>3, <1>4, <1>5 DEF way2

LEMMA BelowIsOption ==
    ASSUME job.options \in Options, NEW S, NEW way \in Seq(S)
    PROVE  OptionsBelow(way) \in Options
<1>1. PICK n \in Nat : n = Len(way)  OBVIOUS
<1>2. PICK o : Handed(o, way, n) /\ OptionsBelow(way) = o[n]  BY <1>1, BelowHanded
<1> DEFINE T == {i \in Nat : i <= n => o[i] \in Options}
<1>3. 0 \in T  BY <1>2 DEF Handed
<1>4. ASSUME NEW i \in 0..(n - 1), i \in T PROVE i + 1 \in T
  <2>1. o[i] \in Options  BY <1>4
  <2>2. o[i + 1] = Related(o[i], way[i + 1])  BY <1>2 DEF Handed
  <2>3. Related(o[i], way[i + 1]) \in Options  BY <2>1, OptionsAssumption DEF Related
  <2> QED BY <2>2, <2>3
<1> HIDE DEF T
<1>5. 0..n \subseteq T
  <2>1. T \in SUBSET Nat  BY DEF T
  <2> QED BY <1>3, <1>4, <2>1, UpTo
<1>6. n \in T  BY <1>5
<1> QED BY <1>2, <1>6 DEF T

-----------------------------------------------------------------------------
ModelFields == UNION {Default[m] : m \in DOMAIN Default}
AskedFields == UNION {o.fields \cup o.include : o \in Options}
FieldNames == ModelFields \cup AskedFields
Places == Keys \cup FieldNames

\* A path to an object.
OnPath(p) == p \in Seq(Places) /\ Len(p) % 2 = 1 /\ p[Len(p)] \in Keys

LEMMA PathIsSeq ==
    ASSUME NEW p, OnPath(p)
    PROVE  p \in Seq(Places) /\ Len(p) \in Nat
<1>1. p \in Seq(Places)  BY DEF OnPath
<1> QED BY <1>1

\* The path to an object k that the one at p shows as its n.
On(p, n, k) == Append(Append(p, n), k)

LEMMA OnIs ==
    ASSUME NEW p, OnPath(p), NEW n, NEW k
    PROVE  LET q == On(p, n, k)
           IN  /\ Len(q) = Len(p) + 2 /\ Len(p) \in Nat \ {0}
               /\ q[Len(p) + 1] = n /\ q[Len(p) + 2] = k
               /\ \A i \in 1..Len(p) : q[i] = p[i]
               /\ Last(q) = k /\ Front(q) = Append(p, n)
<1> DEFINE S == Places \cup {n, k}
           r == Append(p, n)
           q == Append(r, k)
<1>1. p \in Seq(S) /\ n \in S /\ k \in S /\ Len(p) \in Nat \ {0}
  <2>1. p \in Seq(Places) /\ Len(p) \in Nat \ {0}  BY DEF OnPath
  <2> QED BY <2>1
<1> HIDE DEF S
<1>2. r \in Seq(S) /\ Len(r) = Len(p) + 1 /\ r[Len(p) + 1] = n
      /\ \A i \in 1..Len(p) : r[i] = p[i]
      BY <1>1
<1> HIDE DEF r
<1>3. q \in Seq(S) /\ Len(q) = Len(r) + 1 /\ q[Len(r) + 1] = k
      /\ (\A i \in 1..Len(r) : q[i] = r[i]) /\ SubSeq(q, 1, Len(r)) = r
      BY <1>1, <1>2
<1> HIDE DEF q
<1>4. Last(q) = k /\ Front(q) = r  BY <1>2, <1>3 DEF Last, Front
<1>5. q[Len(p) + 1] = n /\ \A i \in 1..Len(p) : q[i] = p[i]  BY <1>1, <1>2, <1>3
<1> QED BY <1>1, <1>2, <1>3, <1>4, <1>5 DEF On, q, r

\* It tells what it is made of.
LEMMA OnOnce ==
    ASSUME NEW p, OnPath(p), NEW n, NEW k, NEW p2, OnPath(p2), NEW n2, NEW k2,
           On(p, n, k) = On(p2, n2, k2)
    PROVE  p = p2 /\ n = n2 /\ k = k2
<1> DEFINE q == On(p, n, k)
<1>1. Len(q) = Len(p) + 2 /\ Len(p) \in Nat /\ q[Len(p) + 1] = n /\ q[Len(p) + 2] = k
      /\ \A i \in 1..Len(p) : q[i] = p[i]
      BY OnIs
<1>2. Len(q) = Len(p2) + 2 /\ Len(p2) \in Nat /\ q[Len(p2) + 1] = n2 /\ q[Len(p2) + 2] = k2
      /\ \A i \in 1..Len(p2) : q[i] = p2[i]
      BY OnIs
<1> HIDE DEF q
<1>3. Len(p) = Len(p2)  BY <1>1, <1>2
<1>4. p \in Seq(Places) /\ p2 \in Seq(Places)  BY DEF OnPath
<1>5. p = p2  BY <1>1, <1>2, <1>3, <1>4
<1> QED BY <1>1, <1>2, <1>3, <1>5

LEMMA OnIsPath ==
    ASSUME NEW p, OnPath(p), NEW n \in FieldNames, NEW k \in Keys
    PROVE  OnPath(On(p, n, k))
<1> DEFINE q == On(p, n, k)
<1>1. p \in Seq(Places) /\ n \in Places /\ k \in Places /\ Len(p) % 2 = 1
      BY DEF OnPath, Places
<1>2. q \in Seq(Places)  BY <1>1 DEF On
<1>3. Len(q) = Len(p) + 2 /\ q[Len(p) + 2] = k /\ Len(p) \in Nat  BY OnIs
<1> QED BY <1>1, <1>2, <1>3 DEF OnPath

LEMMA WayIsSeq ==
    ASSUME NEW p, OnPath(p)
    PROVE  /\ Way(p) \in Seq(Places) /\ Len(Way(p)) = Len(p) \div 2
           /\ DOMAIN Way(p) = 1..Len(Way(p))
           /\ \A i \in 1..Len(Way(p)) : Way(p)[i] = p[2 * i]
<1>1. p \in Seq(Places) /\ Len(p) \in Nat /\ Len(p) \div 2 \in Nat  BY DEF OnPath
<1>2. \A i \in 1..(Len(p) \div 2) : 2 * i \in 1..Len(p)  BY <1>1
<1>3. \A i \in 1..(Len(p) \div 2) : p[2 * i] \in Places  BY <1>1, <1>2
<1>4. Way(p) \in [1..(Len(p) \div 2) -> Places]  BY <1>3 DEF Way
<1> QED BY <1>1, <1>4 DEF Way

LEMMA WayOn ==
    ASSUME NEW p, OnPath(p), NEW n \in FieldNames, NEW k \in Keys
    PROVE  Way(On(p, n, k)) = Append(Way(p), n)
<1> DEFINE q == On(p, n, k)
           w == Way(p)
           v == Append(w, n)
<1>1. /\ OnPath(q) /\ Len(q) = Len(p) + 2 /\ Len(p) \in Nat \ {0} /\ q[Len(p) + 1] = n
      /\ \A i \in 1..Len(p) : q[i] = p[i]
      BY OnIs, OnIsPath
<1>2. w \in Seq(Places) /\ Len(w) = Len(p) \div 2 /\ \A i \in 1..Len(w) : w[i] = p[2 * i]
      BY WayIsSeq
<1>3. Way(q) \in Seq(Places) /\ Len(Way(q)) = Len(q) \div 2
      /\ \A i \in 1..Len(Way(q)) : Way(q)[i] = q[2 * i]
      BY <1>1, WayIsSeq
<1>4. n \in Places /\ Len(p) % 2 = 1  BY DEF Places, OnPath
<1> HIDE DEF q, w
<1>5. v \in Seq(Places) /\ Len(v) = Len(w) + 1 /\ v[Len(w) + 1] = n
      /\ \A i \in 1..Len(w) : v[i] = w[i]
      BY <1>2, <1>4
<1> HIDE DEF v
<1>6. Len(Way(q)) = Len(v)  BY <1>1, <1>2, <1>3, <1>4, <1>5
<1>7. ASSUME NEW i \in 1..Len(v) PROVE Way(q)[i] = v[i]
  <2>1. CASE i = Len(w) + 1
    <3>1. 2 * i = Len(p) + 1  BY <1>1, <1>2, <1>4, <2>1
    <3> QED BY <1>1, <1>3, <1>5, <1>6, <2>1, <3>1
  <2>2. CASE i # Len(w) + 1
    <3>1. i \in 1..Len(w) /\ 2 * i \in 1..Len(p)  BY <1>1, <1>2, <1>5, <2>2
    <3> QED BY <1>1, <1>2, <1>3, <1>5, <1>6, <3>1
  <2> QED BY <2>1, <2>2
<1> QED BY <1>3, <1>5, <1>6, <1>7 DEF q, v, w

\* The first objects that a handler returns.
LEMMA WayStart ==
    ASSUME NEW k \in Keys
    PROVE  LET p == Append(<<>>, k)
           IN  OnPath(p) /\ Len(p) = 1 /\ p[1] = k /\ Way(p) = <<>>
<1> DEFINE p == Append(<<>>, k)
<1>1. p = <<k>> /\ k \in Places  BY DEF Places
<1>2. OnPath(p) /\ Len(p) = 1 /\ p[1] = k  BY <1>1 DEF OnPath
<1>3. Way(p) \in Seq(Places) /\ Len(Way(p)) = 0
  <2>1. Len(p) \div 2 = 0  BY <1>2
  <2> HIDE DEF p
  <2> QED BY <1>2, <2>1, WayIsSeq
<1> QED BY <1>2, <1>3

-----------------------------------------------------------------------------
\* UnfoldsAsTold, of one path.
Told(p) ==
    \A i \in DOMAIN Way(p) :
        /\ Way(p)[i] \in OptionsAt(p, i - 1).fields \cup OptionsAt(p, i - 1).include
                        \cup DOMAIN OptionsAt(p, i - 1).related
        /\ i < Len(Way(p)) => Way(p)[i] \in DOMAIN OptionsAt(p, i - 1).related

\* Where the options are other than none, related options have led there.
LEMMA LedByRelated ==
    ASSUME NEW p, OnPath(p), Way(p) # <<>>, OptionsBelow(Way(p)) # NoOptions
    PROVE  Way(p)[Len(Way(p))] \in DOMAIN OptionsAt(p, Len(Way(p)) - 1).related
<1> DEFINE w == Way(p)
           l == Len(w)
           v == SubSeq(w, 1, l - 1)
<1>1. w \in Seq(Places)  BY WayIsSeq
<1> HIDE DEF w
<1>2. w # <<>> /\ OptionsBelow(w) # NoOptions  BY DEF w
<1>3. l \in Nat \ {0} /\ w[l] \in Places /\ v \in Seq(Places) /\ w = Append(v, w[l])
      BY <1>1, <1>2
<1> HIDE DEF v
<1>4. OptionsBelow(w) = Related(OptionsBelow(v), w[l])  BY <1>3, BelowNext
<1>5. w[l] \in DOMAIN OptionsBelow(v).related  BY <1>2, <1>4 DEF Related
<1> QED BY <1>5 DEF OptionsAt, w, v

LEMMA ToldOn ==
    ASSUME NEW p, OnPath(p), Told(p), NEW n \in FieldNames, NEW k \in Keys,
           NEW o, o = OptionsBelow(Way(p)), o # NoOptions,
           n \in o.fields \cup o.include \cup DOMAIN o.related
    PROVE  Told(On(p, n, k))
<1> DEFINE q == On(p, n, k)
           w == Way(p)
           v == Append(w, n)
           l == Len(w)
<1>1. OnPath(q) /\ Way(q) = v  BY OnIsPath, WayOn
<1>2. w \in Seq(Places) /\ DOMAIN w = 1..l  BY WayIsSeq
<1>3. n \in Places  BY DEF Places
<1>4. w # <<>> => w[l] \in DOMAIN OptionsAt(p, l - 1).related  BY LedByRelated
<1> HIDE DEF q, w
<1>5. /\ v \in Seq(Places) /\ Len(v) = l + 1 /\ l \in Nat /\ DOMAIN v = 1..(l + 1) /\ v[l + 1] = n
      /\ \A i \in 1..l : v[i] = w[i]
      BY <1>2, <1>3
<1>6. ASSUME NEW i \in 0..l PROVE SubSeq(v, 1, i) = SubSeq(w, 1, i)
  <2>1. SubSeq(v, 1, i) \in Seq(Places) /\ SubSeq(w, 1, i) \in Seq(Places)
        /\ Len(SubSeq(v, 1, i)) = i /\ Len(SubSeq(w, 1, i)) = i
        BY <1>2, <1>5
  <2>2. ASSUME NEW j \in 1..i PROVE SubSeq(v, 1, i)[j] = SubSeq(w, 1, i)[j]
        BY <1>2, <1>5
  <2> QED BY <2>1, <2>2
<1>7. SubSeq(w, 1, l) = w
  <2>1. SubSeq(w, 1, l) \in Seq(Places) /\ Len(SubSeq(w, 1, l)) = l  BY <1>2
  <2>2. ASSUME NEW j \in 1..l PROVE SubSeq(w, 1, l)[j] = w[j]  BY <1>2, <1>5
  <2> QED BY <1>2, <2>1, <2>2
<1> HIDE DEF v
<1>8. \A i \in 0..l : OptionsAt(q, i) = OptionsAt(p, i)
      BY <1>1, <1>6 DEF OptionsAt, w
<1>9. OptionsAt(q, l) = o
  <2>1. OptionsAt(q, l) = OptionsAt(p, l)  BY <1>5, <1>8
  <2>2. OptionsAt(p, l) = OptionsBelow(w)  BY <1>7 DEF OptionsAt, w
  <2> QED BY <2>1, <2>2 DEF w
<1>10. ASSUME NEW i \in DOMAIN Way(q)
       PROVE  /\ Way(q)[i] \in OptionsAt(q, i - 1).fields \cup OptionsAt(q, i - 1).include
                               \cup DOMAIN OptionsAt(q, i - 1).related
              /\ i < Len(Way(q)) => Way(q)[i] \in DOMAIN OptionsAt(q, i - 1).related
  <2>1. i \in 1..(l + 1)  BY <1>1, <1>5
  <2>2. CASE i = l + 1
    <3>1. OptionsAt(q, i - 1) = o /\ Way(q)[i] = n /\ ~(i < Len(Way(q)))
          BY <1>1, <1>5, <1>9, <2>2
    <3> QED BY <3>1
  <2>3. CASE i # l + 1
    <3>1. i \in 1..l /\ i - 1 \in 0..l /\ i \in DOMAIN w  BY <1>2, <1>5, <2>1, <2>3
    <3>2. OptionsAt(q, i - 1) = OptionsAt(p, i - 1) /\ Way(q)[i] = w[i]  BY <1>1, <1>5, <1>8, <3>1
    <3>3. /\ w[i] \in OptionsAt(p, i - 1).fields \cup OptionsAt(p, i - 1).include
                       \cup DOMAIN OptionsAt(p, i - 1).related
          /\ i < l => w[i] \in DOMAIN OptionsAt(p, i - 1).related
          BY <3>1 DEF Told, w
    <3>4. w # <<>>  BY <1>2, <3>1
    <3>5. CASE i < l  BY <3>2, <3>3, <3>5
    <3>6. CASE i = l  BY <1>4, <3>2, <3>3, <3>4, <3>6
    <3> QED BY <1>5, <3>1, <3>5, <3>6
  <2> QED BY <2>2, <2>3
<1> QED BY <1>10 DEF Told, q

-----------------------------------------------------------------------------
FrameSet(I) == [path : {p \in Seq(Places) : OnPath(p)}, instance : I, options : Options,
                left : SUBSET FieldNames]

\* Instances that may stand in one list.
OneList(instances) ==
    IsFiniteSet(instances) /\ \A x, y \in instances : x.key = y.key => x = y

LEMMA NamesAreFieldNames ==
    ASSUME NEW o \in Options, NEW m \in DOMAIN Default
    PROVE  Names(o, m) \subseteq FieldNames /\ "of_model" \notin Names(o, m)
<1>1. (o.fields \cup o.include) \subseteq FieldNames /\ Default[m] \subseteq FieldNames
  <2>1. Default[m] \subseteq ModelFields  BY DEF ModelFields
  <2>2. (o.fields \cup o.include) \subseteq AskedFields  BY DEF AskedFields
  <2> QED BY <2>1, <2>2 DEF FieldNames
<1>2. "of_model" \notin o.fields \cup o.include  BY OptionsAssumption
<1>3. "of_model" \notin Default[m]  BY ModelsAssumption
<1> QED BY <1>1, <1>2, <1>3 DEF Names

\* What to_simple has in work of a list, below an object or to start with.
IsList(g, I, instances, o, below) ==
    /\ g \in Seq(FrameSet(I))
    /\ \A i \in 1..Len(g) :
          /\ g[i].instance \in instances /\ g[i].path = Append(below, g[i].instance.key)
          /\ g[i].options = o /\ g[i].left = Names(o, Objects[g[i].instance.key])
    /\ \A x \in instances : \E i \in 1..Len(g) : g[i].instance = x
    /\ \A i, j \in 1..Len(g) : g[i].instance.key = g[j].instance.key => i = j

LEMMA FramesOfList ==
    ASSUME NEW I, \A x \in I : x.key \in Keys, NEW instances \in SUBSET I, OneList(instances),
           NEW o \in Options, NEW below, \A k \in Keys : OnPath(Append(below, k))
    PROVE  IsList(Frames(below, instances, o), I, instances, o, below)
<1> DEFINE s == SetToSeq(instances)
           g == Frames(below, instances, o)
           F(x) == [path |-> Append(below, x.key), instance |-> x, options |-> o,
                    left |-> Names(o, Objects[x.key])]
<1>1. /\ s \in Seq(instances) /\ \A x \in instances : \E i \in DOMAIN s : s[i] = x
      /\ \A i, j \in DOMAIN s : s[i] = s[j] => i = j
      BY Listed DEF OneList
<1>2. ASSUME NEW x \in instances PROVE F(x) \in FrameSet(I)
  <2>1. x.key \in Keys /\ Objects[x.key] \in DOMAIN Default  BY ObjectsAssumption
  <2>2. Append(below, x.key) \in {p \in Seq(Places) : OnPath(p)}  BY <2>1 DEF OnPath
  <2>3. Names(o, Objects[x.key]) \subseteq FieldNames  BY <2>1, NamesAreFieldNames
  <2> QED BY <2>2, <2>3 DEF FrameSet
<1> HIDE DEF s
<1>3. g = [i \in DOMAIN s |-> F(s[i])]  BY DEF Frames, s
<1>4. DOMAIN s = 1..Len(s) /\ Len(s) \in Nat /\ \A i \in 1..Len(s) : s[i] \in instances  BY <1>1
<1>5. g \in [1..Len(s) -> FrameSet(I)] /\ \A i \in 1..Len(s) : g[i] = F(s[i])
  <2> HIDE DEF F
  <2> QED BY <1>2, <1>3, <1>4
<1>6. g \in Seq(FrameSet(I)) /\ Len(g) = Len(s)  BY <1>4, <1>5
<1> HIDE DEF g
<1>7. ASSUME NEW i \in 1..Len(g)
      PROVE  /\ g[i].instance = s[i] /\ g[i].path = Append(below, s[i].key)
             /\ g[i].options = o /\ g[i].left = Names(o, Objects[s[i].key])
      BY <1>5, <1>6
<1>8. \A x \in instances : \E i \in 1..Len(g) : g[i].instance = x  BY <1>1, <1>4, <1>6, <1>7
<1>9. ASSUME NEW i \in 1..Len(g), NEW j \in 1..Len(g), g[i].instance.key = g[j].instance.key
      PROVE  i = j
  <2>1. s[i] = s[j]  BY <1>4, <1>6, <1>7, <1>9 DEF OneList
  <2> QED BY <1>1, <1>4, <1>6, <2>1
<1> QED BY <1>4, <1>6, <1>7, <1>8, <1>9 DEF g, IsList

-----------------------------------------------------------------------------
\* What has been read from the database: the values of foreign keys are keys of rows,
\* which are there, or have been deleted meanwhile.
Rows ==
    /\ DOMAIN table \subseteq Keys
    /\ \A k \in DOMAIN table :
          /\ DOMAIN table[k] = DOMAIN ForeignKeys[Objects[k]]
          /\ \A f \in DOMAIN table[k] : table[k][f] \in DOMAIN table

Read(x) ==
    /\ x.key \in Keys /\ DOMAIN x.row = DOMAIN ForeignKeys[Objects[x.key]]
    /\ \A f \in DOMAIN x.row : x.row[f] \in Keys /\ x.row[f] \in DOMAIN table \cup gone
    /\ changes = 0 => x.key \in DOMAIN table /\ x.row = table[x.key]

\* I has only instances that were read, and with one that was found from another
\* this other one, to which it refers.
Known(I) ==
    \A x \in I :
        /\ Read(x)
        /\ x.via # None => x.by \in I /\ x.via \in DOMAIN x.row /\ x.row[x.via] = x.by.key

\* q leads below p by its n.
Under(p, n, q) ==
    Len(q) > Len(p) /\ (\A i \in 1..Len(p) : q[i] = p[i]) /\ q[Len(p) + 1] = n

\* A path leads to an object that is shown by another only from what leads to this one,
\* or from this one itself.
LEMMA UnderOn ==
    ASSUME NEW p, OnPath(p), NEW n, NEW k, NEW r, OnPath(r), NEW m, Under(r, m, On(p, n, k))
    PROVE  Under(r, m, p) \/ (r = p /\ m = n)
<1> DEFINE q == On(p, n, k)
<1>1. Len(q) = Len(p) + 2 /\ Len(p) \in Nat \ {0} /\ q[Len(p) + 1] = n
      /\ \A i \in 1..Len(p) : q[i] = p[i]
      BY OnIs
<1> HIDE DEF q
<1>2. Len(q) > Len(r) /\ (\A i \in 1..Len(r) : q[i] = r[i]) /\ q[Len(r) + 1] = m
      BY DEF Under, q
<1>3. /\ Len(r) \in Nat \ {0} /\ Len(r) % 2 = 1 /\ Len(p) % 2 = 1
      /\ p \in Seq(Places) /\ r \in Seq(Places)
      BY DEF OnPath
<1>4. Len(r) <= Len(p)
  <2>1. Len(r) # Len(p) + 1  BY <1>1, <1>3
  <2> QED BY <1>1, <1>2, <1>3, <2>1
<1>5. CASE Len(r) = Len(p)
  <2>1. r = p  BY <1>1, <1>2, <1>3, <1>5
  <2> QED BY <1>1, <1>2, <1>5, <2>1
<1>6. CASE Len(r) < Len(p)
  <2>1. Len(r) + 1 \in 1..Len(p)  BY <1>1, <1>3, <1>6
  <2>2. \A i \in 1..Len(r) : p[i] = r[i]  BY <1>1, <1>2, <1>3, <1>6
  <2>3. p[Len(r) + 1] = m  BY <1>1, <1>2, <2>1
  <2> QED BY <1>6, <2>2, <2>3 DEF Under
<1> QED BY <1>1, <1>3, <1>4, <1>5, <1>6

\* What leads on from there leads on from the other.
LEMMA OnUnder ==
    ASSUME NEW p, OnPath(p), NEW n, NEW k
    PROVE  /\ Under(p, n, On(p, n, k))
           /\ \A m, q : Len(q) \in Nat /\ Under(On(p, n, k), m, q) => Under(p, n, q)
<1> DEFINE r == On(p, n, k)
<1>1. Len(r) = Len(p) + 2 /\ Len(p) \in Nat \ {0} /\ r[Len(p) + 1] = n
      /\ \A i \in 1..Len(p) : r[i] = p[i]
      BY OnIs
<1> HIDE DEF r
<1>2. Under(p, n, r)  BY <1>1 DEF Under
<1>3. ASSUME NEW m, NEW q, Len(q) \in Nat, Under(r, m, q) PROVE Under(p, n, q)
  <2>1. Len(q) > Len(r) /\ \A i \in 1..Len(r) : q[i] = r[i]  BY <1>3 DEF Under
  <2>2. \A i \in 1..Len(p) : q[i] = p[i]  BY <1>1, <2>1
  <2>3. q[Len(p) + 1] = n  BY <1>1, <2>1
  <2>4. Len(q) > Len(p)  BY <1>1, <1>3, <2>1
  <2> QED BY <2>2, <2>3, <2>4 DEF Under
<1> QED BY <1>2, <1>3 DEF r

Open(p) == \E i \in 1..Len(todo) : todo[i].path = p
HasName(p, n) == \E e \in out : e.at = p /\ e.name = n
Asked(p) == Names(OptionsBelow(Way(p)), Objects[p[Len(p)]])

\* An object in work: what it has shown and what is left are what is asked, and there
\* is nothing yet below what is left.
Working(f) ==
    /\ f.path[Len(f.path)] = f.instance.key /\ f.options = OptionsBelow(Way(f.path))
    /\ f.left \subseteq Asked(f.path)
    /\ \A n : HasName(f.path, n) <=> n \in Asked(f.path) \ f.left
    /\ \A n \in f.left, q \in Paths : ~Under(f.path, n, q)
    /\ Len(f.path) > 1 =>
          LET managers == Managers[Objects[f.path[Len(f.path) - 2]]]
              name == f.path[Len(f.path) - 1]
          IN  name \in DOMAIN managers => f.instance.via = managers[name].key

\* An object that is done.
Done(p) ==
    /\ \A n : HasName(p, n) <=> n \in Asked(p) \cup {IF job.simple THEN "id" ELSE "of_model"}
    /\ job.simple => Shown(p, "id", p[Len(p)]) \in out

\* The keys of the objects that the one at p shows as its n, if nothing changes.
Expected(p, n) ==
    LET k == p[Len(p)]
        model == Objects[k]
    IN  IF n \in DOMAIN ForeignKeys[model] THEN {table[k][n]}
        ELSE {j \in DOMAIN table : /\ Objects[j] = Managers[model][n].model
                                   /\ table[j][Managers[model][n].key] = k}

\* The stack holds frames of instances in I; every path leads to an object.
Typed(I) ==
    /\ todo \in Seq(FrameSet(I)) /\ changes \in Nat /\ job.options \in Options
    /\ \A p \in Paths : OnPath(p)
\* Each object of the stack is in work, and no two of them stand at one place; every
\* other object is done; and nothing is shown twice.
Worked == \A i \in 1..Len(todo) : Working(todo[i])
Apart == \A i, j \in 1..Len(todo) : todo[i].path = todo[j].path => i = j
Ended == \A p \in Paths : Open(p) \/ Done(p)
Once == \A e, f \in out : e.at = f.at /\ e.name = f.name /\ e.name # "of_model" => e = f

\* Until something changes, an object that has shown related ones has all of them below.
Complete ==
    changes = 0 =>
        \A e \in out : e.shows = "objects" /\ e.name # "of_model" =>
            \A k : On(e.at, e.name, k) \in Paths <=> k \in Expected(e.at, e.name)

Answered == pc = "answered" => todo = <<>>

\* I stands for the instances read so far.
Inv(I) ==
    /\ Typed(I) /\ Rows /\ Known(I) /\ Worked /\ Apart /\ Ended /\ Once /\ Complete
    /\ Answered /\ UnfoldsAsTold /\ FailsForCause

\* A message instead of objects.
Message == todo = <<>> /\ (\A e \in out : e.at = <<>>) /\ FailsForCause

IInv == Message \/ \E I : Inv(I)

-----------------------------------------------------------------------------
LEMMA PathsAre ==
    ASSUME NEW I, Typed(I)
    PROVE  \A p : p \in Paths <=> Open(p) \/ \E e \in out : e.at = p
BY DEF Paths, Open, Typed

LEMMA TopIs ==
    ASSUME NEW I, Typed(I), Known(I), Worked, todo # <<>>
    PROVE  /\ Len(todo) \in Nat \ {0} /\ Top = todo[1] /\ Top \in FrameSet(I) /\ Working(Top)
           /\ Top.instance \in I /\ Top.instance.key \in Keys /\ Read(Top.instance)
           /\ OnPath(Top.path) /\ Top.path \in Paths /\ Open(Top.path)
           /\ Top.options \in Options /\ Top.left \subseteq FieldNames
<1>1. todo \in Seq(FrameSet(I)) /\ Len(todo) \in Nat \ {0} /\ 1 \in 1..Len(todo)  BY DEF Typed
<1>2. Top = todo[1] /\ Top \in FrameSet(I)  BY <1>1 DEF Top
<1>3. Working(Top)  BY <1>1, <1>2 DEF Worked
<1>4. /\ OnPath(Top.path) /\ Top.instance \in I
      /\ Top.options \in Options /\ Top.left \subseteq FieldNames
      BY <1>2 DEF FrameSet
<1>5. Read(Top.instance)  BY <1>4 DEF Known
<1>6. Top.instance.key \in Keys  BY <1>5 DEF Read
<1>7. Open(Top.path)  BY <1>1, <1>2 DEF Open
<1>8. Top.path \in Paths  BY <1>7, PathsAre
<1> QED BY <1>1, <1>2, <1>3, <1>4, <1>5, <1>6, <1>7, <1>8

\* Rows that are read, as instances.
AllFound(ks, by, via) == {Found(k, by, via) : k \in ks}

LEMMA ReadIsKnown ==
    ASSUME NEW I, Known(I), Rows, NEW ks \in SUBSET DOMAIN table, NEW by, NEW via,
           via # None =>
              by \in I /\ \A k \in ks : via \in DOMAIN table[k] /\ table[k][via] = by.key
    PROVE  LET instances == AllFound(ks, by, via)
           IN  /\ Known(I \cup instances) /\ OneList(instances)
               /\ \A x \in instances : x.key \in ks /\ x.via = via
               /\ \A k \in ks : \E x \in instances : x.key = k
<1> DEFINE F(k) == Found(k, by, via)
           instances == {F(k) : k \in ks}
<1>1. \A k \in ks : F(k).key = k /\ F(k).row = table[k] /\ F(k).by = by /\ F(k).via = via
      BY DEF Found
<1>2. IsFiniteSet(instances)
  <2>1. IsFiniteSet(ks)  BY FS_Subset, ObjectsAssumption DEF Rows
  <2> DEFINE f == [k \in ks |-> F(k)]
  <2> HIDE DEF F
  <2>2. f \in Surjection(ks, instances)  BY DEF Surjection
  <2> HIDE DEF f, instances
  <2> QED BY <2>1, <2>2, FS_Surjection
<1> HIDE DEF F
<1>3. ASSUME NEW k \in ks PROVE Read(F(k))  BY <1>1 DEF Rows, Read
<1>4. OneList(instances)  BY <1>1, <1>2 DEF OneList
<1>5. Known(I \cup instances)  BY <1>1, <1>3 DEF Known
<1> QED BY <1>1, <1>4, <1>5 DEF F, AllFound

-----------------------------------------------------------------------------
\* The settings of the resource stay.
LEMMA SameOptions ==
    ASSUME job' = job
    PROVE  /\ \A w : OptionsBelow(w)' = OptionsBelow(w)
           /\ \A p : Asked(p)' = Asked(p)
           /\ \A p : Told(p)' = Told(p)
<1>1. ASSUME NEW w PROVE OptionsBelow(w)' = OptionsBelow(w)  BY DEF OptionsBelow
<1>2. \A p, i : OptionsAt(p, i)' = OptionsAt(p, i)  BY <1>1 DEF OptionsAt
<1>3. ASSUME NEW p PROVE Asked(p)' = Asked(p)  BY <1>1 DEF Asked
<1>4. ASSUME NEW p PROVE Told(p)' = Told(p)  BY <1>2 DEF Told
<1> QED BY <1>1, <1>3, <1>4

LEMMA FramesOfNothing ==
    ASSUME NEW below, NEW o
    PROVE  Frames(below, {}, o) = <<>>
<1>1. SetToSeq({}) \in Seq({})  BY FS_EmptySet, Listed
<1>2. SetToSeq({}) = <<>>  BY <1>1
<1> QED BY <1>2 DEF Frames

\* What a turn of the loop does, unless serialization fails.
Shows(I, n, value, instances) ==
    LET model == Objects[Top.instance.key]
        o == Top.options
    IN  /\ Known(I \cup instances) /\ OneList(instances)
        /\ Put(n, value, Frames(Append(Top.path, n), instances, Related(o, n)))
        /\ instances # {} => o # NoOptions /\ n \in o.fields \cup o.include \cup DOMAIN o.related
        /\ n \in DOMAIN Managers[model] => \A x \in instances : x.via = Managers[model][n].key
        /\ value # "objects" => instances = {}
        /\ value = "objects" /\ changes = 0 =>
              \A k : k \in Expected(Top.path, n) <=> \E x \in instances : x.key = k

LEMMA FieldShows ==
    ASSUME NEW I, Inv(I), NEW n, Field(n)
    PROVE  \/ /\ pc' = "failed" /\ UNCHANGED <<table, job, todo, out, changes, gone>>
              /\ FailsForCause'
           \/ \E value, instances : Shows(I, n, value, instances)
<1> DEFINE me == Top.instance
           model == Objects[me.key]
           o == Top.options
           below == Append(Top.path, n)
<1>1. pc = "simplify" /\ todo # <<>> /\ n \in Top.left /\ UNCHANGED <<table, job, changes, gone>>
      BY DEF Field
<1>2. /\ Known(I) /\ Rows /\ Working(Top) /\ OnPath(Top.path)
      /\ me \in I /\ me.key \in Keys /\ Read(me)
      /\ o \in Options
      BY <1>1, TopIs DEF Inv
<1>3. model \in DOMAIN Default  BY <1>2, ObjectsAssumption
<1>4. /\ DOMAIN ForeignKeys[model] \subseteq Default[model]
      /\ DOMAIN Managers[model] \cap Default[model] = {} /\ None \notin Default[model]
      BY <1>3, ModelsAssumption
<1>5. ASSUME NEW value, value # "objects", Put(n, value, <<>>)
      PROVE  Shows(I, n, value, {})
  <2>1. Known(I \cup {}) /\ OneList({})  BY <1>2, FS_EmptySet DEF OneList
  <2>2. Put(n, value, Frames(below, {}, Related(o, n)))  BY <1>5, FramesOfNothing
  <2> QED BY <1>5, <2>1, <2>2 DEF Shows
<1>6. CASE n \in job.custom
  <2>1. Put(n, "custom", <<>>)  BY <1>6 DEF Field
  <2> QED BY <1>5, <2>1
<1>7. CASE n \notin job.custom /\ n \in DOMAIN ForeignKeys[model]
  <2> DEFINE k == me.row[n]
  <2>1. n \in DOMAIN me.row /\ k \in Keys /\ k \in DOMAIN table \cup gone /\ n # None
        /\ n \notin DOMAIN Managers[model]
        BY <1>2, <1>4, <1>7 DEF Read
  <2>2. IF n \notin DOMAIN o.related THEN Put(n, k, <<>>)
        ELSE IF me.via = n THEN Put(n, "objects", Frames(below, {me.by}, Related(o, n)))
        ELSE IF k \in DOMAIN table
        THEN Put(n, "objects", Frames(below, {Instance(k)}, Related(o, n)))
        ELSE pc' = "failed" /\ UNCHANGED <<todo, out>>
    BY <1>4, <1>7 DEF Field
  <2>3. CASE n \notin DOMAIN o.related
    <3>1. k # "objects"  BY <2>1, ObjectsAssumption
    <3> QED BY <1>5, <2>2, <2>3, <3>1
  <2>4. n \in DOMAIN o.related => o # NoOptions  BY DEF NoOptions
  <2>5. changes = 0 => Expected(Top.path, n) = {k}
        BY <1>2, <1>7 DEF Working, Read, Expected
  <2>6. CASE n \in DOMAIN o.related /\ me.via = n
    <3>1. me.by \in I /\ me.by.key = k  BY <1>2, <2>1, <2>6 DEF Known
    <3>2. Known(I \cup {me.by})
      <4>1. I \cup {me.by} = I  BY <3>1
      <4> QED BY <1>2, <4>1
    <3>3. OneList({me.by})  BY FS_Singleton DEF OneList
    <3>4. Put(n, "objects", Frames(below, {me.by}, Related(o, n)))  BY <2>2, <2>6
    <3>5. Shows(I, n, "objects", {me.by})
      <4> HIDE DEF k
      <4> QED BY <2>1, <2>4, <2>5, <2>6, <3>1, <3>2, <3>3, <3>4 DEF Shows
    <3> QED BY <3>5
  <2>7. CASE n \in DOMAIN o.related /\ me.via # n /\ k \in DOMAIN table
    <3> DEFINE ks == {k}
             instances == AllFound(ks, None, None)
    <3>1. instances = {Instance(k)}  BY DEF AllFound, Instance
    <3>2. /\ Known(I \cup instances) /\ OneList(instances)
          /\ (\A x \in instances : x.key \in ks) /\ \A j \in ks : \E x \in instances : x.key = j
      <4>1. ks \in SUBSET DOMAIN table  BY <2>7
      <4>2. Known(I) /\ Rows  BY <1>2
      <4> HIDE DEF ks
      <4> QED BY <4>1, <4>2, ReadIsKnown
    <3> HIDE DEF instances
    <3>3. Put(n, "objects", Frames(below, instances, Related(o, n)))  BY <2>2, <2>7, <3>1
    <3>4. Shows(I, n, "objects", instances)
      <4> HIDE DEF k
      <4> QED BY <2>1, <2>4, <2>5, <2>7, <3>2, <3>3 DEF Shows
    <3> QED BY <3>4
  <2>8. CASE n \in DOMAIN o.related /\ me.via # n /\ k \notin DOMAIN table
    <3>1. pc' = "failed" /\ UNCHANGED <<table, job, todo, out, changes, gone>>  BY <1>1, <2>2, <2>8
    <3>2. n \in Top.left \cap DOMAIN me.row /\ n \in DOMAIN o.related /\ k \in gone
          BY <1>1, <2>1, <2>8
    <3>3. Len(Top.path) > 1 =>
             LET name == Top.path[Len(Top.path) - 1]
                 managers == Managers[Objects[Top.path[Len(Top.path) - 2]]]
             IN  name \in DOMAIN managers => managers[name].key # n
          BY <1>2, <2>8 DEF Working
    <3>4. Top' = Top  BY <3>1 DEF Top
    <3>5. FailsForCause'  BY <1>1, <3>1, <3>2, <3>3, <3>4 DEF FailsForCause
    <3> QED BY <3>1, <3>5
  <2> QED BY <2>3, <2>6, <2>7, <2>8
<1>8. CASE n \notin job.custom /\ n \in Default[model] \ DOMAIN ForeignKeys[model]
  <2>1. Put(n, Text[me.key], <<>>)  BY <1>4, <1>8 DEF Field
  <2>2. Text[me.key] # "objects"  BY <1>2, ObjectsAssumption
  <2> QED BY <1>5, <2>1, <2>2
<1>9. CASE n \notin job.custom /\ n \in DOMAIN Managers[model]
  <2> DEFINE m == Managers[model][n]
             found == {k \in DOMAIN table : Objects[k] = m.model /\ table[k][m.key] = me.key}
             instances == AllFound(found, me, m.key)
  <2>1. Put(n, "objects", Frames(below, instances, Related(o, n)))
        BY <1>4, <1>9 DEF Field, AllFound
  <2>2. \A k \in found : m.key \in DOMAIN table[k] /\ table[k][m.key] = me.key
    <3>1. m.key \in DOMAIN ForeignKeys[m.model]  BY <1>3, <1>9, ModelsAssumption
    <3> QED BY <1>2, <3>1 DEF Rows
  <2>3. changes = 0 => Expected(Top.path, n) = found
    <3>1. Top.path[Len(Top.path)] = me.key  BY <1>2 DEF Working
    <3>2. n \notin DOMAIN ForeignKeys[model]  BY <1>4, <1>9
    <3> QED BY <3>1, <3>2 DEF Expected
  <2>4. o # NoOptions /\ n \in o.fields \cup o.include
    <3>1. n \in Names(o, model)  BY <1>1, <1>2 DEF Working, Asked
    <3> QED BY <1>4, <1>9, <3>1 DEF Names, NoOptions
  <2> HIDE DEF found
  <2>5. found \in SUBSET DOMAIN table  BY DEF found
  <2>6. /\ Known(I \cup instances) /\ OneList(instances)
        /\ (\A x \in instances : x.key \in found /\ x.via = m.key)
        /\ \A k \in found : \E x \in instances : x.key = k
    <3>1. Known(I) /\ Rows /\ me \in I  BY <1>2
    <3> HIDE DEF me, m
    <3> QED BY <2>2, <2>5, <3>1, ReadIsKnown
  <2> HIDE DEF instances
  <2>7. Shows(I, n, "objects", instances)  BY <2>1, <2>3, <2>4, <2>6 DEF Shows
  <2> QED BY <2>7
<1>10. CASE n \notin job.custom /\ n \notin Default[model] \cup DOMAIN Managers[model]
  <2> DEFINE value == IF n \in {"id", "pk"} THEN me.key ELSE None
  <2>1. Put(n, value, <<>>)  BY <1>4, <1>10 DEF Field
  <2>2. value # "objects"  BY <1>2, ObjectsAssumption
  <2> HIDE DEF value
  <2> QED BY <1>5, <2>1, <2>2
<1> QED BY <1>6, <1>7, <1>8, <1>9, <1>10

-----------------------------------------------------------------------------
\* A turn of the loop that shows a field keeps the invariant.
LEMMA PutKeeps ==
    ASSUME NEW I, Inv(I), pc = "simplify", todo # <<>>,
           NEW n \in Top.left, NEW value, NEW instances,
           Shows(I, n, value, instances), UNCHANGED <<table, job, changes, gone>>,
           NEW P, P = Top.path, NEW o, o = Top.options
    PROVE  Inv(I \cup instances)'
<1> DEFINE J == I \cup instances
           model == Objects[Top.instance.key]
           below == Append(P, n)
           g == Frames(below, instances, Related(o, n))
           x == [Top EXCEPT !.left = @ \ {n}]
           L == Len(g)
           N == Len(todo)
           New(q) == \E y \in instances : q = On(P, n, y.key)
<1>1. /\ Typed(I) /\ Rows /\ Known(I) /\ Worked /\ Apart /\ Ended /\ Once /\ Complete
      /\ UnfoldsAsTold
      BY DEF Inv
<1>2. /\ N \in Nat \ {0} /\ Top = todo[1] /\ Top \in FrameSet(I) /\ Working(Top)
      /\ Top.instance \in I /\ Top.instance.key \in Keys /\ OnPath(P) /\ P \in Paths /\ Open(P)
      /\ o \in Options /\ Top.left \subseteq FieldNames
      BY <1>1, TopIs
<1>3. /\ Known(J) /\ OneList(instances)
      /\ out' = out \cup {Shown(P, n, value)}
      /\ todo' = g \o <<x>> \o Tail(todo) /\ pc' = pc
      BY DEF Shows, Put
<1>4. /\ instances # {} => o # NoOptions /\ n \in o.fields \cup o.include \cup DOMAIN o.related
      /\ n \in DOMAIN Managers[model] => \A y \in instances : y.via = Managers[model][n].key
      /\ value # "objects" => instances = {}
      /\ value = "objects" /\ changes = 0 =>
            \A k : k \in Expected(P, n) <=> \E y \in instances : y.key = k
      BY DEF Shows
<1>5. /\ n \in FieldNames /\ n \in Asked(P) /\ n # "of_model" /\ ~HasName(P, n)
      /\ (\A q \in Paths : ~Under(P, n, q)) /\ o = OptionsBelow(Way(P))
      /\ P[Len(P)] = Top.instance.key
  <2>1. o = OptionsBelow(Way(P)) /\ P[Len(P)] = Top.instance.key  BY <1>2 DEF Working
  <2>2. model \in DOMAIN Default  BY <1>2, ObjectsAssumption
  <2>3. "of_model" \notin Asked(P)  BY <1>2, <2>1, <2>2, NamesAreFieldNames DEF Asked
  <2> QED BY <1>2, <2>1, <2>3 DEF Working
<1>6. \A y \in J : y.key \in Keys  BY <1>3 DEF Known, Read
<1>7. ASSUME NEW k \in Keys
      PROVE  OnPath(On(P, n, k)) /\ On(P, n, k) \notin Paths
  <2>1. Under(P, n, On(P, n, k))  BY <1>2, OnUnder
  <2> QED BY <1>2, <1>5, <2>1, OnIsPath
<1>8. \A q : New(q) => OnPath(q) /\ q \notin Paths  BY <1>6, <1>7
<1>9. Related(o, n) \in Options  BY <1>2, OptionsAssumption DEF Related
<1>10. /\ g \in Seq(FrameSet(J))
       /\ \A i \in 1..L : /\ g[i].instance \in instances /\ g[i].path = On(P, n, g[i].instance.key)
                          /\ g[i].options = Related(o, n)
                          /\ g[i].left = Names(Related(o, n), Objects[g[i].instance.key])
       /\ \A y \in instances : \E i \in 1..L : g[i].instance = y
       /\ \A i, j \in 1..L : g[i].instance.key = g[j].instance.key => i = j
  <2>1. \A k : Append(below, k) = On(P, n, k)  BY DEF On
  <2>2. \A k \in Keys : OnPath(Append(below, k))  BY <1>7, <2>1
  <2> HIDE DEF below
  <2>3. IsList(g, J, instances, Related(o, n), below)
    <3> DEFINE r == Related(o, n)
    <3>1. r \in Options /\ instances \in SUBSET J /\ OneList(instances)  BY <1>3, <1>9
    <3> HIDE DEF r, J
    <3> QED BY <1>6, <2>2, <3>1, FramesOfList DEF r
  <2> HIDE DEF On, g
  <2> QED BY <2>1, <2>3 DEF IsList
<1>11. /\ x \in FrameSet(J) /\ x.path = P /\ x.instance = Top.instance /\ x.options = o
       /\ x.left = Top.left \ {n}
       BY <1>2 DEF FrameSet
<1>12. todo \in Seq(FrameSet(J))
  <2>1. FrameSet(I) \subseteq FrameSet(J)  BY DEF FrameSet
  <2>2. todo \in Seq(FrameSet(I))  BY <1>1 DEF Typed
  <2> QED BY <2>1, <2>2, Wider
<1> HIDE DEF g, x
<1>13. /\ todo' \in Seq(FrameSet(J)) /\ Len(todo') = L + N /\ L \in Nat
       /\ \A i \in 1..L : todo'[i] = g[i]
       /\ todo'[L + 1] = x /\ \A i \in 2..N : todo'[L + i] = todo[i]
  <2> HIDE DEF J
  <2> QED BY <1>3, <1>10, <1>11, <1>12, Pushed
<1>14. ASSUME NEW i \in 1..Len(todo')
       PROVE  i \in 1..L \/ i = L + 1 \/ \E j \in 2..N : i = L + j
  <2> DEFINE j == i - L
  <2>1. ~(i <= L + 1) => j \in 2..N /\ i = L + j  BY <1>2, <1>13
  <2>2. i <= L + 1 => i \in 1..L \/ i = L + 1  BY <1>2, <1>13
  <2> HIDE DEF j
  <2> QED BY <2>1, <2>2
<1> HIDE DEF L, N, J
<1> DEFINE entry == Shown(P, n, value)
<1>0. entry.at = P /\ entry.name = n /\ entry.shows = value /\ out' = out \cup {entry}
      BY <1>3 DEF Shown
<1> HIDE DEF entry
\* what has changed
<1>15. \A q : Open(q)' <=> Open(q) \/ New(q)
  <2>1. ASSUME NEW q, Open(q) PROVE Open(q)'
    <3>1. PICK i \in 1..N : todo[i].path = q  BY <2>1 DEF Open, N
    <3>2. CASE i = 1
      <4>1. L + 1 \in 1..Len(todo') /\ todo'[L + 1].path = q  BY <1>2, <1>11, <1>13, <3>1, <3>2
      <4> QED BY <4>1 DEF Open
    <3>3. CASE i # 1
      <4>1. i \in 2..N /\ L + i \in 1..Len(todo')  BY <1>2, <1>13, <3>3
      <4>2. todo'[L + i].path = q  BY <1>13, <3>1, <4>1
      <4> QED BY <4>1, <4>2 DEF Open
    <3> QED BY <3>2, <3>3
  <2>2. ASSUME NEW q, New(q) PROVE Open(q)'
    <3>1. PICK y \in instances : q = On(P, n, y.key)  BY <2>2
    <3>2. PICK i \in 1..L : g[i].instance = y  BY <1>10, <3>1 DEF L
    <3>3. i \in 1..Len(todo') /\ todo'[i] = g[i] /\ g[i].path = q
          BY <1>2, <1>10, <1>13, <3>1, <3>2 DEF L
    <3> QED BY <3>3 DEF Open
  <2>3. ASSUME NEW q, Open(q)' PROVE Open(q) \/ New(q)
    <3>1. PICK i \in 1..Len(todo') : todo'[i].path = q  BY <2>3 DEF Open
    <3>2. CASE i \in 1..L
      <4>1. g[i].instance \in instances /\ q = On(P, n, g[i].instance.key)
            BY <1>10, <1>13, <3>1, <3>2 DEF L
      <4> QED BY <4>1
    <3>3. CASE i = L + 1
      <4>1. q = P  BY <1>11, <1>13, <3>1, <3>3
      <4> QED BY <1>2, <4>1
    <3>4. ASSUME NEW j \in 2..N, i = L + j PROVE Open(q)
      <4>1. todo[j].path = q /\ j \in 1..N  BY <1>13, <3>1, <3>4
      <4> QED BY <4>1 DEF Open, N
    <3> QED BY <1>14, <3>2, <3>3, <3>4
  <2> QED BY <2>1, <2>2, <2>3
<1>16. \A q, m : HasName(q, m)' <=> HasName(q, m) \/ (q = P /\ m = n)
      BY <1>0 DEF HasName
<1>17. \A q : q \in Paths' <=> q \in Paths \/ New(q)
  <2>1. \A q : q \in Paths <=> Open(q) \/ \E e \in out : e.at = q  BY <1>1, PathsAre
  <2>2. \A q : q \in Paths' <=> Open(q)' \/ \E e \in out' : e.at = q
    <3>1. DOMAIN todo' = 1..Len(todo')  BY <1>13
    <3> QED BY <3>1 DEF Paths, Open
  <2>3. \A q : (\E e \in out' : e.at = q) <=> (\E e \in out : e.at = q) \/ q = P
        BY <1>0
  <2> HIDE DEF New
  <2> QED BY <1>2, <1>15, <2>1, <2>2, <2>3
<1>18. /\ \A w : OptionsBelow(w)' = OptionsBelow(w)
       /\ \A q : Asked(q)' = Asked(q) /\ Told(q)' = Told(q)
      BY SameOptions
<1>19. \A q : Len(q) \in Nat => (~Under(P, n, q) => \A k, m : ~Under(On(P, n, k), m, q))
      BY <1>2, OnUnder
<1>191. ASSUME NEW a, OnPath(a), NEW m, NEW k, NEW j, On(a, m, k) = On(P, n, j)
        PROVE  a = P /\ m = n /\ k = j
  <2>1. OnPath(P)  BY <1>2
  <2> QED BY <1>191, <2>1, OnOnce
\* the invariant's parts
<1>20. Typed(J)'
  <2>1. \A q \in Paths' : OnPath(q)  BY <1>1, <1>8, <1>17 DEF Typed
  <2>2. changes' \in Nat /\ job'.options \in Options  BY <1>1 DEF Typed
  <2> QED BY <1>13, <2>1, <2>2 DEF Typed
<1>21. Rows'  BY <1>1 DEF Rows
<1>22. Known(J)'  BY <1>3 DEF Known, Read
<1>23. Apart'
  <2> SUFFICES ASSUME NEW i \in 1..Len(todo'), NEW j \in 1..Len(todo'),
                      todo'[i].path = todo'[j].path
               PROVE  i = j
      BY DEF Apart
  <2>1. ASSUME NEW h \in 1..Len(todo')
        PROVE  \/ /\ h \in 1..L /\ todo'[h].path = On(P, n, g[h].instance.key)
                  /\ todo'[h].path \notin Paths
               \/ \E a \in 1..N :
                     h = L + a /\ todo'[h].path = todo[a].path /\ todo'[h].path \in Paths
    <3>1. CASE h \in 1..L
      <4>1. g[h].instance \in instances /\ g[h].path = On(P, n, g[h].instance.key)
            BY <1>10, <3>1 DEF L
      <4>2. g[h].path \notin Paths  BY <1>8, <4>1
      <4> QED BY <1>13, <3>1, <4>1, <4>2
    <3>2. CASE h = L + 1
      <4>1. todo'[h].path = P /\ P = todo[1].path /\ 1 \in 1..N  BY <1>2, <1>11, <1>13, <3>2
      <4> QED BY <1>2, <3>2, <4>1
    <3>3. ASSUME NEW a \in 2..N, h = L + a
          PROVE  a \in 1..N /\ todo'[h].path = todo[a].path /\ todo'[h].path \in Paths
      <4>1. a \in 1..N /\ todo'[h].path = todo[a].path  BY <1>13, <3>3
      <4>2. Open(todo[a].path)  BY <4>1 DEF Open, N
      <4> QED BY <1>1, <4>1, <4>2, PathsAre
    <3> QED BY <1>14, <3>1, <3>2, <3>3
  <2>2. CASE todo'[i].path \notin Paths
    <3>1. i \in 1..L /\ j \in 1..L /\ On(P, n, g[i].instance.key) = On(P, n, g[j].instance.key)
          BY <2>1, <2>2
    <3>2. g[i].instance.key = g[j].instance.key  BY <1>2, <3>1, OnOnce
    <3> QED BY <1>10, <3>1, <3>2 DEF L
  <2>3. CASE todo'[i].path \in Paths
    <3>1. PICK a \in 1..N : i = L + a /\ todo'[i].path = todo[a].path  BY <2>1, <2>3
    <3>2. PICK b \in 1..N : j = L + b /\ todo'[j].path = todo[b].path  BY <2>1, <2>3
    <3>3. a = b  BY <1>1, <3>1, <3>2 DEF Apart, N
    <3> QED BY <3>1, <3>2, <3>3
  <2> QED BY <2>2, <2>3
<1>24. Ended'
  <2> SUFFICES ASSUME NEW q \in Paths', ~Open(q)' PROVE Done(q)'  BY DEF Ended
  <2>1. q \in Paths /\ ~Open(q) /\ q # P  BY <1>2, <1>15, <1>17
  <2>2. Done(q)  BY <1>1, <2>1 DEF Ended
  <2>3. \A m : HasName(q, m)' <=> HasName(q, m)  BY <1>16, <2>1
  <2> QED BY <1>3, <1>18, <2>2, <2>3 DEF Done
<1>25. Once'
  <2>1. \A e \in out : e.at = P => e.name # n  BY <1>5 DEF HasName
  <2>2. ASSUME NEW e \in out', NEW f \in out', e.at = f.at, e.name = f.name, e.name # "of_model"
        PROVE  e = f
    <3>1. CASE e \in out /\ f \in out  BY <1>1, <2>2, <3>1 DEF Once
    <3>2. CASE e = entry /\ f \in out  BY <1>0, <2>1, <2>2, <3>2
    <3>3. CASE e \in out /\ f = entry  BY <1>0, <2>1, <2>2, <3>3
    <3> QED BY <1>0, <3>1, <3>2, <3>3
  <2> QED BY <2>2 DEF Once
<1>26. UnfoldsAsTold'
  <2> SUFFICES ASSUME NEW q \in Paths' PROVE Told(q)'  BY DEF UnfoldsAsTold, Told
  <2>1. CASE q \in Paths  BY <1>1, <1>18, <2>1 DEF UnfoldsAsTold, Told
  <2>2. CASE New(q)
    <3>1. PICK y \in instances : q = On(P, n, y.key)  BY <2>2
    <3>2. Told(P)  BY <1>1, <1>2 DEF UnfoldsAsTold, Told
    <3>3. y.key \in Keys  BY <1>6, <3>1 DEF J
    <3>4. o # NoOptions /\ n \in o.fields \cup o.include \cup DOMAIN o.related  BY <1>4, <3>1
    <3>5. Told(q)  BY <1>2, <1>5, <3>1, <3>2, <3>3, <3>4, ToldOn
    <3> QED BY <1>18, <3>5
  <2> QED BY <1>17, <2>1, <2>2
<1>27. FailsForCause' /\ Answered'  BY <1>3 DEF FailsForCause, Answered
<1>28. Complete'
  <2> SUFFICES ASSUME changes = 0, NEW e \in out', e.shows = "objects", e.name # "of_model", NEW k
               PROVE  On(e.at, e.name, k) \in Paths' <=> k \in Expected(e.at, e.name)
      BY DEF Complete, Expected
  <2>1. CASE e = entry
    <3>1. On(P, n, k) \notin Paths
      <4>1. Under(P, n, On(P, n, k))  BY <1>2, OnUnder
      <4> QED BY <1>5, <4>1
    <3>2. New(On(P, n, k)) <=> \E y \in instances : y.key = k
      <4>1. \A j : On(P, n, k) = On(P, n, j) => k = j  BY <1>2, <1>191
      <4> HIDE DEF On
      <4> QED BY <4>1
    <3> HIDE DEF New
    <3> QED BY <1>0, <1>4, <1>17, <2>1, <3>1, <3>2
  <2>2. CASE e \in out
    <3>1. On(e.at, e.name, k) \in Paths <=> k \in Expected(e.at, e.name)
          BY <1>1, <2>2 DEF Complete
    <3>2. e.at \in Paths /\ OnPath(e.at)  BY <1>1, <2>2, PathsAre DEF Typed
    <3>3. e.at # P \/ e.name # n  BY <1>5, <2>2 DEF HasName
    <3>4. \A j : On(e.at, e.name, k) # On(P, n, j)  BY <1>191, <3>2, <3>3
    <3> HIDE DEF On
    <3> QED BY <1>17, <3>1, <3>4
  <2> QED BY <1>0, <2>1, <2>2
<1>29. Worked'
  <2> SUFFICES ASSUME NEW i \in 1..Len(todo'), NEW f, f = todo'[i] PROVE Working(f)'
      BY DEF Worked
  <2>1. ASSUME NEW y \in instances, f.path = On(P, n, y.key), f.instance = y,
               f.options = Related(o, n),
               f.left = Names(Related(o, n), Objects[y.key])
        PROVE  Working(f)'
    <3> DEFINE p == On(P, n, y.key)
    <3>1. y.key \in Keys /\ OnPath(p) /\ p \notin Paths /\ p # P  BY <1>2, <1>6, <1>7 DEF J
    <3>2. Len(p) = Len(P) + 2 /\ Len(P) \in Nat \ {0} /\ p[Len(P) + 1] = n /\ p[Len(P) + 2] = y.key
          /\ \A h \in 1..Len(P) : p[h] = P[h]
          BY <1>2, OnIs
    <3>3. OptionsBelow(Way(p)) = Related(o, n)
      <4>1. Way(p) = Append(Way(P), n)  BY <1>2, <1>5, <3>1, WayOn
      <4>2. Way(P) \in Seq(Places) /\ n \in Places  BY <1>2, <1>5, WayIsSeq DEF Places
      <4>3. OptionsBelow(Append(Way(P), n)) = Related(OptionsBelow(Way(P)), n)  BY <4>2, BelowNext
      <4> QED BY <1>5, <4>1, <4>3
    <3>4. p[Len(p)] = y.key  BY <3>2
    <3>5. f.left = Asked(p)  BY <2>1, <3>3, <3>4 DEF Asked
    <3>6. \A m : ~HasName(p, m)'
      <4>1. \A m : ~HasName(p, m)  BY <1>1, <3>1, PathsAre DEF HasName
      <4> QED BY <1>16, <3>1, <4>1
    <3>7. ASSUME NEW m, NEW q \in Paths', Under(p, m, q) PROVE FALSE
      <4>1. CASE q \in Paths
        <5>1. Len(q) \in Nat  BY <1>1, <4>1 DEF Typed, OnPath
        <5>2. ~Under(P, n, q)  BY <1>5, <4>1
        <5> QED BY <1>19, <3>7, <5>1, <5>2
      <4>2. ASSUME NEW z \in instances, q = On(P, n, z.key) PROVE FALSE
        <5>1. Len(q) = Len(P) + 2  BY <1>2, <4>2, OnIs
        <5> QED BY <3>2, <3>7, <5>1 DEF Under
      <4> QED BY <1>17, <4>1, <4>2
    <3>8. LET managers == Managers[Objects[p[Len(p) - 2]]]
              name == p[Len(p) - 1]
          IN  name \in DOMAIN managers => y.via = managers[name].key
      <4>1. p[Len(p) - 2] = Top.instance.key /\ p[Len(p) - 1] = n
        <5>1. Len(P) \in 1..Len(P) /\ Len(p) - 2 = Len(P) /\ Len(p) - 1 = Len(P) + 1  BY <3>2
        <5> QED BY <1>5, <3>2, <5>1
      <4> QED BY <1>4, <4>1
    <3> HIDE DEF p
    <3>9. f.path = p /\ f.instance = y /\ f.options = OptionsBelow(Way(p))'
          BY <1>18, <2>1, <3>3 DEF p
    <3>10. \A m : HasName(p, m)' <=> m \in Asked(p)' \ f.left  BY <1>18, <3>5, <3>6
    <3>11. f.left \subseteq Asked(p)'  BY <1>18, <3>5
    <3>12. \A m \in f.left, q \in Paths' : ~Under(p, m, q)  BY <3>7
    <3> QED BY <3>4, <3>8, <3>9, <3>10, <3>11, <3>12 DEF Working
  <2>2. ASSUME f = x PROVE Working(f)'
    <3>1. f.path = P /\ f.instance = Top.instance /\ f.options = o /\ f.left = Top.left \ {n}
          BY <1>11, <2>2
    <3>2. \A m : HasName(P, m)' <=> m \in Asked(P) \ f.left
      <4>1. \A m : HasName(P, m) <=> m \in Asked(P) \ Top.left  BY <1>2 DEF Working
      <4> QED BY <1>5, <1>16, <3>1, <4>1
    <3>3. ASSUME NEW m \in f.left, NEW q \in Paths', Under(P, m, q) PROVE FALSE
      <4>1. m \in Top.left /\ m # n  BY <3>1
      <4>2. CASE q \in Paths  BY <1>2, <3>3, <4>1, <4>2 DEF Working
      <4>3. ASSUME NEW z \in instances, q = On(P, n, z.key) PROVE FALSE
        <5>1. Under(P, m, P)  BY <1>2, <3>3, <4>1, <4>3, UnderOn
        <5> QED BY <1>2, <5>1 DEF Under, OnPath
      <4> QED BY <1>17, <4>2, <4>3
    <3>4. f.left \subseteq Asked(P)  BY <1>2, <3>1 DEF Working
    <3>5. f.path[Len(f.path)] = f.instance.key /\ f.options = OptionsBelow(Way(f.path))'
          BY <1>5, <1>18, <3>1
    <3>6. Len(f.path) > 1 =>
             LET managers == Managers[Objects[f.path[Len(f.path) - 2]]]
                 name == f.path[Len(f.path) - 1]
             IN  name \in DOMAIN managers => f.instance.via = managers[name].key
          BY <1>2, <3>1 DEF Working
    <3>7. /\ f.left \subseteq Asked(f.path)'
          /\ \A m : HasName(f.path, m)' <=> m \in Asked(f.path)' \ f.left
          BY <1>18, <3>1, <3>2, <3>4
    <3> QED BY <3>1, <3>3, <3>5, <3>6, <3>7 DEF Working
  <2>3. ASSUME NEW j \in 2..N, f = todo[j] PROVE Working(f)'
    <3>1. Working(f) /\ f.path \in Paths /\ f.path # P
      <4>1. j \in 1..N /\ 1 \in 1..N /\ j # 1  BY <1>2
      <4>2. Open(f.path)  BY <2>3, <4>1 DEF Open, N
      <4>3. f.path # P  BY <1>1, <1>2, <2>3, <4>1 DEF Apart, N
      <4> QED BY <1>1, <2>3, <4>1, <4>2, <4>3, PathsAre DEF Worked, N
    <3>2. \A m : HasName(f.path, m)' <=> HasName(f.path, m)  BY <1>16, <3>1
    <3>3. ASSUME NEW m \in f.left, NEW q \in Paths', Under(f.path, m, q) PROVE FALSE
      <4>1. CASE q \in Paths  BY <3>1, <3>3, <4>1 DEF Working
      <4>2. ASSUME NEW z \in instances, q = On(P, n, z.key) PROVE FALSE
        <5>1. OnPath(f.path)  BY <1>1, <3>1 DEF Typed
        <5>2. Under(f.path, m, P)  BY <1>2, <3>1, <3>3, <4>2, <5>1, UnderOn
        <5> QED BY <1>2, <3>1, <3>3, <5>2 DEF Working
      <4> QED BY <1>17, <4>1, <4>2
    <3> QED BY <1>18, <3>1, <3>2, <3>3 DEF Working
  <2>4. CASE i \in 1..L
    <3>1. f = g[i] /\ f.instance \in instances  BY <1>10, <1>13, <2>4 DEF L
    <3>2. f.path = On(P, n, f.instance.key) /\ f.options = Related(o, n)
          /\ f.left = Names(Related(o, n), Objects[f.instance.key])
          BY <1>10, <2>4, <3>1 DEF L
    <3> QED BY <2>1, <3>1, <3>2
  <2> QED BY <1>13, <1>14, <2>2, <2>3, <2>4
<1> QED BY <1>20, <1>21, <1>22, <1>23, <1>24, <1>25, <1>26, <1>27, <1>28, <1>29 DEF Inv, J

\* The end of to_simple_model does.
LEMMA CloseKeeps ==
    ASSUME NEW I, Inv(I), Close, NEW P, P = Top.path
    PROVE  Inv(I)'
<1> DEFINE N == Len(todo)
           key == Top.instance.key
<1>1. /\ Typed(I) /\ Rows /\ Known(I) /\ Worked /\ Apart /\ Ended /\ Once /\ Complete
      /\ UnfoldsAsTold
      BY DEF Inv
<1>2. /\ pc = "simplify" /\ todo # <<>> /\ Top.left = {} /\ todo' = Tail(todo)
      /\ UNCHANGED <<table, job, pc, changes, gone>>
      BY DEF Close
<1>3. /\ N \in Nat \ {0} /\ Top = todo[1] /\ Working(Top) /\ key \in Keys
      /\ OnPath(P) /\ P \in Paths /\ Open(P)
      BY <1>1, <1>2, TopIs
<1>4. PICK special, entry :
        /\ special = IF job.simple THEN "id" ELSE "of_model"
        /\ entry.at = P /\ entry.name = special
        /\ entry.name = "of_model" \/ entry.shows # "objects"
        /\ job.simple => entry = Shown(P, "id", key)
        /\ \A e : e \in out' <=>
              (e \in out /\ (job.simple => e.at # P \/ e.name # "id")) \/ e = entry
  <2>1. key # "objects"  BY <1>3, ObjectsAssumption
  <2>2. CASE job.simple  BY <1>2, <2>1, <2>2 DEF Close, Shown
  <2>3. CASE ~job.simple  BY <1>2, <2>1, <2>3 DEF Close, Shown
  <2> QED BY <2>2, <2>3
<1>5. /\ todo' \in Seq(FrameSet(I)) /\ Len(todo') = N - 1
      /\ \A i \in 1..(N - 1) : todo'[i] = todo[i + 1]
      BY <1>1, <1>2, Popped DEF Typed
<1> HIDE DEF N
\* what has changed
<1>6. \A q : Open(q)' <=> Open(q) /\ q # P
  <2>1. ASSUME NEW q, Open(q), q # P PROVE Open(q)'
    <3>1. PICK i \in 1..N : todo[i].path = q  BY <2>1 DEF Open, N
    <3>2. i # 1 /\ i - 1 \in 1..(N - 1) /\ (i - 1) + 1 = i  BY <1>3, <2>1, <3>1
    <3>3. i - 1 \in 1..Len(todo') /\ todo'[i - 1].path = q  BY <1>5, <3>1, <3>2
    <3> QED BY <3>3 DEF Open
  <2>2. ASSUME NEW q, Open(q)' PROVE Open(q) /\ q # P
    <3>1. PICK i \in 1..(N - 1) : todo[i + 1].path = q  BY <1>5, <2>2 DEF Open
    <3>2. i + 1 \in 1..N /\ i + 1 # 1 /\ 1 \in 1..N  BY <1>3
    <3>3. q # P  BY <1>1, <1>3, <3>1, <3>2 DEF Apart, N
    <3> QED BY <3>1, <3>2, <3>3 DEF Open, N
  <2> QED BY <2>1, <2>2
<1>7. \A q : q \in Paths' <=> q \in Paths
  <2>1. \A q : q \in Paths <=> Open(q) \/ \E e \in out : e.at = q  BY <1>1, PathsAre
  <2>2. \A q : q \in Paths' <=> Open(q)' \/ \E e \in out' : e.at = q
    <3>1. DOMAIN todo' = 1..Len(todo')  BY <1>5
    <3> QED BY <3>1 DEF Paths, Open
  <2>3. \A q : q # P => ((\E e \in out' : e.at = q) <=> \E e \in out : e.at = q)  BY <1>4
  <2>4. \E e \in out' : e.at = P  BY <1>4
  <2> QED BY <1>3, <1>6, <2>1, <2>2, <2>3, <2>4
<1>8. \A q, m : q # P => (HasName(q, m)' <=> HasName(q, m))  BY <1>4 DEF HasName
<1>9. /\ \A w : OptionsBelow(w)' = OptionsBelow(w)
      /\ \A q : Asked(q)' = Asked(q) /\ Told(q)' = Told(q)
  <2>1. job' = job  BY <1>2
  <2> QED BY <2>1, SameOptions
\* the invariant's parts
<1>10. Typed(I)'
  <2>1. \A q \in Paths' : OnPath(q)  BY <1>1, <1>7 DEF Typed
  <2>2. changes' \in Nat /\ job'.options \in Options  BY <1>1, <1>2 DEF Typed
  <2> QED BY <1>5, <2>1, <2>2 DEF Typed
<1>11. Rows'  BY <1>1, <1>2 DEF Rows
<1>12. Known(I)'  BY <1>1, <1>2 DEF Known, Read
<1>13. Worked'
  <2> SUFFICES ASSUME NEW i \in 1..(N - 1), NEW f, f = todo[i + 1] PROVE Working(f)'
      BY <1>5 DEF Worked
  <2>1. i + 1 \in 1..N /\ i + 1 # 1 /\ 1 \in 1..N  BY <1>3
  <2>2. f.path # P  BY <1>1, <1>3, <2>1 DEF Apart, N
  <2>3. Working(f)  BY <1>1, <2>1 DEF Worked, N
  <2>4. \A m : HasName(f.path, m)' <=> HasName(f.path, m)  BY <1>8, <2>2
  <2> QED BY <1>7, <1>9, <2>3, <2>4 DEF Working
<1>14. Apart'
  <2> SUFFICES ASSUME NEW i \in 1..(N - 1), NEW j \in 1..(N - 1),
                      todo[i + 1].path = todo[j + 1].path
               PROVE  i = j
      BY <1>5 DEF Apart
  <2>1. i + 1 \in 1..N /\ j + 1 \in 1..N  BY <1>3
  <2>2. i + 1 = j + 1  BY <1>1, <2>1 DEF Apart, N
  <2> QED BY <1>3, <2>2
<1>15. Ended'
  <2> SUFFICES ASSUME NEW q \in Paths', ~Open(q)' PROVE Done(q)'  BY DEF Ended
  <2>1. CASE q = P
    <3>1. \A m : HasName(P, m) <=> m \in Asked(P)  BY <1>2, <1>3 DEF Working
    <3>2. \A m : HasName(P, m)' <=> m \in Asked(P) \cup {special}
      <4>1. \A m : HasName(P, m)' => HasName(P, m) \/ m = special  BY <1>4 DEF HasName
      <4>2. HasName(P, special)'  BY <1>4 DEF HasName
      <4>3. ASSUME NEW m, HasName(P, m), m # special PROVE HasName(P, m)'
            BY <1>4, <4>3 DEF HasName
      <4> QED BY <3>1, <4>1, <4>2, <4>3
    <3>3. job.simple => Shown(P, "id", P[Len(P)]) \in out'
      <4>1. P[Len(P)] = key  BY <1>3 DEF Working
      <4> QED BY <1>4, <4>1
    <3>4. \A m : HasName(P, m)' <=> m \in Asked(P)' \cup {IF job'.simple THEN "id" ELSE "of_model"}
          BY <1>2, <1>4, <1>9, <3>2
    <3> QED BY <1>2, <2>1, <3>3, <3>4 DEF Done
  <2>2. CASE q # P
    <3>1. Done(q)  BY <1>1, <1>6, <1>7, <2>2 DEF Ended
    <3>2. \A m : HasName(q, m)' <=> HasName(q, m)  BY <1>8, <2>2
    <3>3. \A e \in out : e.at = q => e \in out'  BY <1>4, <2>2
    <3>4. Shown(q, "id", q[Len(q)]).at = q  BY DEF Shown
    <3> QED BY <1>2, <1>9, <3>1, <3>2, <3>3, <3>4 DEF Done
  <2> QED BY <2>1, <2>2
<1>16. Once'
  <2>1. ASSUME NEW e \in out', NEW f \in out', e.at = f.at, e.name = f.name, e.name # "of_model"
        PROVE  e = f
    <3>1. CASE e \in out /\ f \in out  BY <1>1, <2>1, <3>1 DEF Once
    <3>2. special = "id" \/ special = "of_model"  BY <1>4
    <3>3. CASE e = entry \/ f = entry
      <4>1. special = "id" /\ job.simple /\ e.at = P /\ e.name = "id" /\ f.at = P /\ f.name = "id"
            BY <1>4, <2>1, <3>2, <3>3
      <4> QED BY <1>4, <4>1
    <3> QED BY <1>4, <3>1, <3>3
  <2> QED BY <2>1 DEF Once
<1>17. Complete'
  <2> SUFFICES ASSUME changes = 0, NEW e \in out', e.shows = "objects", e.name # "of_model", NEW k
               PROVE  On(e.at, e.name, k) \in Paths <=> k \in Expected(e.at, e.name)
      BY <1>2, <1>7 DEF Complete, Expected
  <2>1. e \in out  BY <1>4
  <2> QED BY <1>1, <2>1 DEF Complete
<1>18. UnfoldsAsTold'
  <2> SUFFICES ASSUME NEW q \in Paths PROVE Told(q)'  BY <1>7 DEF UnfoldsAsTold, Told
  <2> QED BY <1>1, <1>9 DEF UnfoldsAsTold, Told
<1>19. FailsForCause' /\ Answered'  BY <1>2 DEF FailsForCause, Answered
<1> QED BY <1>10, <1>11, <1>12, <1>13, <1>14, <1>15, <1>16, <1>17, <1>18, <1>19 DEF Inv

\* And so does every step that leaves the stack and the answer alone.
LEMMA QuietKeeps ==
    ASSUME NEW I, Inv(I), UNCHANGED <<job, todo, out>>,
           Rows', Known(I)', FailsForCause', Answered',
           changes' \in Nat, changes' = 0 => changes = 0 /\ table' = table
    PROVE  Inv(I)'
<1>1. /\ Typed(I) /\ Worked /\ Apart /\ Ended /\ Once /\ Complete /\ UnfoldsAsTold
      BY DEF Inv
<1>2. Paths' = Paths /\ \A p, n : HasName(p, n)' <=> HasName(p, n)  BY DEF Paths, HasName
<1>3. /\ \A w : OptionsBelow(w)' = OptionsBelow(w)
      /\ \A q : Asked(q)' = Asked(q) /\ Told(q)' = Told(q)
      BY SameOptions
<1>4. Typed(I)'  BY <1>1, <1>2 DEF Typed
<1>5. Worked'
  <2> SUFFICES ASSUME NEW i \in 1..Len(todo), NEW f, f = todo[i] PROVE Working(f)'  BY DEF Worked
  <2>1. Working(f)  BY <1>1 DEF Worked
  <2> QED BY <1>2, <1>3, <2>1 DEF Working
<1>6. Apart' /\ Once'  BY <1>1 DEF Apart, Once
<1>7. Ended'
  <2> SUFFICES ASSUME NEW q \in Paths, ~Open(q) PROVE Done(q)'  BY <1>2 DEF Ended, Open
  <2>1. Done(q)  BY <1>1 DEF Ended
  <2> QED BY <1>2, <1>3, <2>1 DEF Done
<1>8. Complete'
  <2> SUFFICES ASSUME changes' = 0, NEW e \in out, e.shows = "objects", e.name # "of_model", NEW k
               PROVE  On(e.at, e.name, k) \in Paths <=> k \in Expected(e.at, e.name)'
      BY <1>2 DEF Complete
  <2>1. On(e.at, e.name, k) \in Paths <=> k \in Expected(e.at, e.name)  BY <1>1 DEF Complete
  <2>2. Expected(e.at, e.name)' = Expected(e.at, e.name)  BY DEF Expected
  <2> QED BY <2>1, <2>2
<1>9. UnfoldsAsTold'
  <2> SUFFICES ASSUME NEW q \in Paths PROVE Told(q)'  BY <1>2 DEF UnfoldsAsTold, Told
  <2> QED BY <1>1, <1>3 DEF UnfoldsAsTold, Told
<1> QED BY <1>4, <1>5, <1>6, <1>7, <1>8, <1>9 DEF Inv

LEMMA FieldKeeps ==
    ASSUME NEW I, Inv(I), NEW n, Field(n)
    PROVE  \E J : Inv(J)'
<1>1. pc = "simplify" /\ todo # <<>> /\ n \in Top.left /\ UNCHANGED <<table, job, changes, gone>>
      BY DEF Field
<1>2. CASE pc' = "failed" /\ UNCHANGED <<table, job, todo, out, changes, gone>> /\ FailsForCause'
  <2>1. Rows' /\ Known(I)' /\ Answered' /\ changes' \in Nat
        BY <1>2 DEF Inv, Typed, Rows, Known, Read, Answered
  <2> QED BY <1>2, <2>1, QuietKeeps
<1>3. ASSUME NEW value, NEW instances, Shows(I, n, value, instances)
      PROVE  Inv(I \cup instances)'
  <2>1. PICK P, o : P = Top.path /\ o = Top.options  OBVIOUS
  <2> QED BY <1>1, <1>3, <2>1, PutKeeps
<1> QED BY <1>2, <1>3, FieldShows

LEMMA DumpKeeps ==
    ASSUME NEW I, Inv(I), Dump
    PROVE  Inv(I)'
<1>1. Rows' /\ Known(I)' /\ Answered' /\ changes' \in Nat
      BY DEF Dump, Inv, Typed, Rows, Known, Read, Answered
<1>2. FailsForCause'  BY DEF Dump, Unwritable, FailsForCause
<1> QED BY <1>1, <1>2, QuietKeeps DEF Dump

\* What is deleted leaves no reference behind.
LEMMA DeleteKeeps ==
    ASSUME NEW I, Inv(I), NEW k, Delete(k)
    PROVE  Inv(I)'
<1> DEFINE dead == Cascade(k)
<1>1. /\ Typed(I) /\ Rows /\ Known(I)  BY DEF Inv
<1>2. /\ table' = [j \in DOMAIN table \ dead |-> table[j]] /\ gone' = gone \cup dead
      /\ pc = "simplify" /\ changes' = changes + 1 /\ UNCHANGED <<job, pc, todo, out>>
      BY DEF Delete, Change
<1>3. ASSUME NEW j \in DOMAIN table \ dead, NEW f \in DOMAIN table[j]
      PROVE  table[j][f] \in DOMAIN table \ dead
  <2>1. PICK rows \in SUBSET DOMAIN table :
           k \in rows /\ Referrers(rows) \subseteq rows /\ j \notin rows
        BY DEF Cascade
  <2>2. table[j][f] \notin rows  BY <2>1 DEF Referrers
  <2> QED BY <1>1, <2>1, <2>2 DEF Cascade, Rows
<1> HIDE DEF dead
<1>4. Rows'  BY <1>1, <1>2, <1>3 DEF Rows
<1>5. changes' \in Nat /\ changes' # 0  BY <1>1, <1>2 DEF Typed
<1>6. Known(I)'
  <2>1. DOMAIN table \cup gone \subseteq DOMAIN table' \cup gone'  BY <1>2
  <2>2. ASSUME NEW x \in I, Read(x) PROVE Read(x)'  BY <1>5, <2>1, <2>2 DEF Read
  <2> QED BY <1>1, <2>2 DEF Known
<1>7. FailsForCause' /\ Answered'  BY <1>2 DEF FailsForCause, Answered
<1> QED BY <1>2, <1>4, <1>5, <1>6, <1>7, QuietKeeps

LEMMA MoveKeeps ==
    ASSUME NEW I, Inv(I), NEW k, NEW f, NEW to, Move(k, f, to)
    PROVE  Inv(I)'
<1>1. /\ Typed(I) /\ Rows /\ Known(I)  BY DEF Inv
<1>2. /\ {k, to} \subseteq DOMAIN table /\ f \in DOMAIN table[k]
      /\ table' = [table EXCEPT ![k][f] = to] /\ UNCHANGED gone
      /\ pc = "simplify" /\ changes' = changes + 1 /\ UNCHANGED <<job, pc, todo, out>>
      BY DEF Move, Change
<1>3. DOMAIN table' = DOMAIN table  BY <1>2
<1>4. Rows'
  <2>1. ASSUME NEW j \in DOMAIN table
        PROVE  DOMAIN table'[j] = DOMAIN table[j]
               /\ \A h \in DOMAIN table[j] : table'[j][h] \in {table[j][h], to}
        BY <1>2
  <2> QED BY <1>1, <1>2, <1>3, <2>1 DEF Rows
<1>5. changes' \in Nat /\ changes' # 0  BY <1>1, <1>2 DEF Typed
<1>6. Known(I)'
  <2>1. ASSUME NEW x \in I, Read(x) PROVE Read(x)'  BY <1>2, <1>3, <1>5, <2>1 DEF Read
  <2> QED BY <1>1, <2>1 DEF Known
<1>7. FailsForCause' /\ Answered'  BY <1>2 DEF FailsForCause, Answered
<1> QED BY <1>2, <1>4, <1>5, <1>6, <1>7, QuietKeeps

LEMMA InitInv == Init => IInv
<1> SUFFICES ASSUME Init PROVE IInv  OBVIOUS
<1>1. /\ table \in Tables /\ job.options \in Options /\ pc = "simplify" /\ changes = 0 /\ gone = {}
      BY OptionsAssumption DEF Init
<1>2. FailsForCause /\ Answered  BY <1>1 DEF FailsForCause, Answered
<1>3. Rows
  <2>1. PICK ks \in SUBSET Keys :
           table \in [ks -> UNION {[DOMAIN ForeignKeys[m] -> ks] : m \in DOMAIN Default}]
        BY <1>1 DEF Tables
  <2>2. \A k \in DOMAIN table : DOMAIN table[k] = DOMAIN ForeignKeys[Objects[k]]
        BY <1>1 DEF Tables
  <2>3. ASSUME NEW k \in DOMAIN table, NEW f \in DOMAIN table[k] PROVE table[k][f] \in DOMAIN table
    <3>1. PICK m \in DOMAIN Default : table[k] \in [DOMAIN ForeignKeys[m] -> ks]  BY <2>1
    <3> QED BY <2>1, <3>1
  <2> QED BY <2>1, <2>2, <2>3 DEF Rows
<1>4. CASE todo = <<>> /\ \E text \in Range(Text) : out = {Shown(<<>>, "message", text)}
  <2>1. \A e \in out : e.at = <<>>  BY <1>4 DEF Shown
  <2> QED BY <1>2, <1>4, <2>1 DEF IInv, Message
<1>5. ASSUME NEW ks \in SUBSET DOMAIN table, out = {},
             todo = Frames(<<>>, {Instance(k) : k \in ks}, job.options)
      PROVE  IInv
  <2> DEFINE I == AllFound(ks, None, None)
  <2>1. {Instance(k) : k \in ks} = I  BY DEF AllFound, Instance
  <2>2. Known(I) /\ OneList(I)
    <3>1. Known({})  BY DEF Known
    <3>2. Known({} \cup I) /\ OneList(I)  BY <1>3, <3>1, ReadIsKnown
    <3>3. {} \cup I = I  OBVIOUS
    <3> QED BY <3>2, <3>3
  <2> HIDE DEF I
  <2>3. \A x \in I : x.key \in Keys  BY <2>2 DEF Known, Read
  <2>4. \A k \in Keys : OnPath(Append(<<>>, k))  BY WayStart
  <2>5. IsList(todo, I, I, job.options, <<>>)
    <3> DEFINE start == <<>>
               options == job.options
    <3>1. todo = Frames(start, I, options)  BY <1>5, <2>1
    <3>2. options \in Options /\ I \in SUBSET I /\ \A k \in Keys : OnPath(Append(start, k))
          BY <1>1, <2>4
    <3> HIDE DEF start, options
    <3>3. IsList(todo, I, I, options, start)  BY <2>2, <2>3, <3>1, <3>2, FramesOfList
    <3> QED BY <3>3 DEF start, options
  <2>6. /\ todo \in Seq(FrameSet(I)) /\ DOMAIN todo = 1..Len(todo)
        /\ \A i, j \in 1..Len(todo) : todo[i].instance.key = todo[j].instance.key => i = j
    BY <2>5 DEF IsList
  <2>7. ASSUME NEW i \in 1..Len(todo)
        PROVE  LET f == todo[i]
                   k == f.instance.key
               IN  /\ f.path = Append(<<>>, k) /\ OnPath(f.path)
                   /\ Len(f.path) = 1 /\ f.path[1] = k
                   /\ Way(f.path) = <<>> /\ f.options = job.options
                   /\ f.left = Names(job.options, Objects[k])
    <3>1. todo[i].instance \in I /\ todo[i].path = Append(<<>>, todo[i].instance.key)
          /\ todo[i].options = job.options
          /\ todo[i].left = Names(job.options, Objects[todo[i].instance.key])
          BY <2>5 DEF IsList
    <3>2. todo[i].instance.key \in Keys  BY <2>3, <3>1
    <3> QED BY <3>1, <3>2, WayStart
  <2>8. \A q : q \in Paths <=> Open(q)  BY <1>5, <2>6 DEF Paths, Open
  <2>9. \A q \in Paths : OnPath(q) /\ Len(q) = 1 /\ Way(q) = <<>>  BY <2>7, <2>8 DEF Open
  <2>10. Typed(I)  BY <1>1, <2>6, <2>9 DEF Typed
  <2>11. Worked
    <3> SUFFICES ASSUME NEW i \in 1..Len(todo) PROVE Working(todo[i])  BY DEF Worked
    <3> DEFINE f == todo[i]
    <3>1. /\ f.path[Len(f.path)] = f.instance.key /\ f.options = OptionsBelow(Way(f.path))
          /\ f.left = Asked(f.path) /\ Len(f.path) = 1
          BY <2>7, BelowNothing DEF Asked
    <3>2. \A n : ~HasName(f.path, n)  BY <1>5 DEF HasName
    <3>3. \A n, q : q \in Paths => ~Under(f.path, n, q)  BY <2>9, <3>1 DEF Under
    <3> QED BY <3>1, <3>2, <3>3 DEF Working
  <2>12. Apart
    <3> SUFFICES ASSUME NEW i \in 1..Len(todo), NEW j \in 1..Len(todo), todo[i].path = todo[j].path
                 PROVE  i = j
        BY DEF Apart
    <3>1. todo[i].instance.key = todo[j].instance.key  BY <2>7
    <3> QED BY <2>6, <3>1
  <2>13. Ended /\ Once /\ Complete  BY <1>5, <2>8 DEF Ended, Once, Complete
  <2>14. UnfoldsAsTold  BY <2>9 DEF UnfoldsAsTold
  <2> QED BY <1>2, <1>3, <2>2, <2>10, <2>11, <2>12, <2>13, <2>14 DEF IInv, Inv
<1> QED BY <1>4, <1>5 DEF Init

LEMMA MessageKeeps == Message /\ [Next]_vars => Message'
<1> SUFFICES ASSUME Message, [Next]_vars PROVE Message'  OBVIOUS
<1>1. todo = <<>> /\ FailsForCause  BY DEF Message
<1>2. UNCHANGED <<job, todo, out>>
      BY <1>1 DEF Next, Dump, Close, Field, Delete, Move, Change, vars
<1>3. FailsForCause'
  <2>1. CASE Dump  BY <2>1 DEF Dump, Unwritable, FailsForCause
  <2>2. CASE UNCHANGED vars  BY <1>1, <2>2 DEF vars, FailsForCause
  <2>3. CASE pc' = "simplify"  BY <2>3 DEF FailsForCause
  <2> QED BY <1>1, <2>1, <2>2, <2>3 DEF Next, Close, Delete, Move, Change
<1> QED BY <1>2, <1>3 DEF Message

LEMMA NextInv == IInv /\ [Next]_vars => IInv'
<1> SUFFICES ASSUME IInv, [Next]_vars PROVE IInv'  OBVIOUS
<1>1. CASE Message  BY <1>1, MessageKeeps DEF IInv
<1>2. ASSUME NEW I, Inv(I) PROVE \E J : Inv(J)'
  <2>1. CASE Dump  BY <1>2, <2>1, DumpKeeps
  <2>2. CASE Close
    <3>1. PICK P : P = Top.path  OBVIOUS
    <3> QED BY <1>2, <2>2, <3>1, CloseKeeps
  <2>3. ASSUME NEW n, Field(n) PROVE \E J : Inv(J)'  BY <1>2, <2>3, FieldKeeps
  <2>4. ASSUME NEW k, Delete(k) PROVE \E J : Inv(J)'  BY <1>2, <2>4, DeleteKeeps
  <2>5. ASSUME NEW k, NEW to, NEW f, Move(k, f, to) PROVE \E J : Inv(J)'  BY <1>2, <2>5, MoveKeeps
  <2>6. CASE UNCHANGED vars
    <3>1. Rows' /\ Known(I)' /\ Answered' /\ changes' \in Nat
          BY <1>2, <2>6 DEF vars, Inv, Typed, Rows, Known, Read, Answered
    <3>2. FailsForCause'
      <4>1. FailsForCause /\ Top' = Top  BY <1>2, <2>6 DEF vars, Inv, Top
      <4> QED BY <2>6, <4>1 DEF vars, FailsForCause
    <3> QED BY <1>2, <2>6, <3>1, <3>2, QuietKeeps DEF vars
  <2> QED BY <2>1, <2>2, <2>3, <2>4, <2>5, <2>6 DEF Next
<1>3. (\E I : Inv(I)) => \E J : Inv(J)'  BY <1>2
<1> QED BY <1>1, <1>3 DEF IInv

LEMMA AlwaysIInv == Spec => []IInv
BY InitInv, NextInv, PTL DEF Spec

-----------------------------------------------------------------------------
\* UnfoldsAsTold (serializer.py:126): an answer is no deeper than its resource's
\* options, whatever refers to whatever.
THEOREM Unfolds == Spec => []UnfoldsAsTold
<1>1. IInv => UnfoldsAsTold
  <2>1. CASE Message
    <3>1. \A p \in Paths : p = <<>>  BY <2>1 DEF Message, Paths
    <3>2. DOMAIN Way(<<>>) = {}
      <4>1. Len(<<>>) \div 2 = 0  OBVIOUS
      <4> QED BY <4>1 DEF Way
    <3> QED BY <3>1, <3>2 DEF UnfoldsAsTold
  <2>2. ASSUME NEW I, Inv(I) PROVE UnfoldsAsTold  BY <2>2 DEF Inv
  <2> QED BY <2>1, <2>2 DEF IInv
<1> QED BY <1>1, AlwaysIInv, PTL

\* FailsForCause (serializer.py:122, 165-177): there is a cause for each failure.
THEOREM Fails == Spec => []FailsForCause
<1>1. IInv => FailsForCause
  <2>1. CASE Message  BY <2>1 DEF Message
  <2>2. ASSUME NEW I, Inv(I) PROVE FailsForCause  BY <2>2 DEF Inv
  <2> QED BY <2>1, <2>2 DEF IInv
<1> QED BY <1>1, AlwaysIInv, PTL

\* A path that leads below p by its n is one of an object there.
LEMMA BelowIsOn ==
    ASSUME NEW p, OnPath(p), NEW n, NEW q, OnPath(q), Len(q) > 1, Front(q) = Append(p, n)
    PROVE  q = On(p, n, Last(q))
<1>1. q \in Seq(Places) /\ Len(q) \in Nat  BY PathIsSeq
<1>2. q = Append(Front(q), Last(q))  BY <1>1 DEF Front, Last
<1> QED BY <1>2 DEF On

\* ShowsWhatIsAsked (serializer.py:101, 122-127): every object shows what is asked of
\* it, once, and below it stand all that are related to it.
THEOREM ShowsAsked == Spec => []ShowsWhatIsAsked
<1>1. ASSUME NEW I, Inv(I), pc = "answered", NEW p \in Paths, p # <<>>
      PROVE  LET o == OptionsBelow(Way(p))
                 model == Objects[Last(p)]
                 entries == {e \in out : e.at = p /\ e.name # "of_model"}
                 names == {e.name : e \in entries}
                 asked == names \ (IF job.simple THEN {"id"} ELSE {})
             IN  /\ \A e, f \in entries : e.name = f.name => e = f
                 /\ job.simple => Shown(p, "id", Last(p)) \in out
                 /\ o.fields # {} => asked = o.fields \ (names \ asked)
                 /\ o.fields = {} =>
                       /\ asked \cap o.exclude = {}
                       /\ (Default[model] \ o.exclude) \subseteq asked
                       /\ asked \subseteq Default[model] \cup o.include
                       /\ (o.include \ o.exclude) \subseteq names
                 /\ changes = 0 => \A e \in {x \in entries : x.shows = "objects"} :
                       {Last(q) : q \in {q \in Paths : Len(q) > 1 /\ Front(q) = Append(p, e.name)}}
                       = IF e.name \in DOMAIN ForeignKeys[model] THEN {table[Last(p)][e.name]}
                         ELSE LET r == Managers[model][e.name]
                              IN  {k \in DOMAIN table :
                                      Objects[k] = r.model /\ table[k][r.key] = Last(p)}
  <2> DEFINE o == OptionsBelow(Way(p))
             model == Objects[Last(p)]
             entries == {e \in out : e.at = p /\ e.name # "of_model"}
             names == {e.name : e \in entries}
             asked == names \ (IF job.simple THEN {"id"} ELSE {})
  <2>1. Typed(I) /\ Ended /\ Once /\ Complete /\ todo = <<>>  BY <1>1 DEF Inv, Answered
  <2>2. OnPath(p) /\ Last(p) = p[Len(p)] /\ Last(p) \in Keys /\ model \in DOMAIN Default
    <3>1. OnPath(p)  BY <2>1 DEF Typed
    <3>2. Last(p) = p[Len(p)]  BY DEF Last
    <3> QED BY <3>1, <3>2, ObjectsAssumption DEF OnPath
  <2>3. Done(p)  BY <2>1 DEF Ended, Open
  <2>4. \A n : n \in names <=> HasName(p, n) /\ n # "of_model"  BY DEF HasName
  <2>5. Asked(p) = Names(o, model)  BY <2>2 DEF Asked
  <2>6. "of_model" \notin Asked(p) /\ "id" \notin Default[model]
    <3>1. p \in Seq(Places) /\ Way(p) \in Seq(Places)  BY <2>2, WayIsSeq DEF OnPath
    <3>2. o \in Options  BY <2>1, <3>1, BelowIsOption DEF Typed
    <3> QED BY <2>2, <2>5, <3>2, NamesAreFieldNames, ModelsAssumption
  <2>7. names = Asked(p) \cup (IF job.simple THEN {"id"} ELSE {})
    <3> HIDE DEF names
    <3> QED BY <2>3, <2>4, <2>6 DEF Done
  <2>8. asked = Asked(p) \ (IF job.simple THEN {"id"} ELSE {})
    <3> HIDE DEF names
    <3> QED BY <2>7
  <2>9. \A e, f \in entries : e.name = f.name => e = f  BY <2>1 DEF Once
  <2>10. job.simple => Shown(p, "id", Last(p)) \in out  BY <2>2, <2>3 DEF Done
  <2>11. ASSUME changes = 0, NEW e \in entries, e.shows = "objects"
         PROVE  {Last(q) : q \in {q \in Paths : Len(q) > 1 /\ Front(q) = Append(p, e.name)}}
                = Expected(p, e.name)
    <3>1. \A k : On(p, e.name, k) \in Paths <=> k \in Expected(p, e.name)
          BY <2>1, <2>11 DEF Complete
    <3>2. ASSUME NEW q \in Paths, Len(q) > 1, Front(q) = Append(p, e.name)
          PROVE  Last(q) \in Expected(p, e.name)
      <4>1. q = On(p, e.name, Last(q))  BY <2>1, <2>2, <3>2, BelowIsOn DEF Typed
      <4> QED BY <3>1, <4>1
    <3>3. ASSUME NEW k \in Expected(p, e.name)
          PROVE  \E q \in Paths : Len(q) > 1 /\ Front(q) = Append(p, e.name) /\ Last(q) = k
      <4>1. On(p, e.name, k) \in Paths  BY <3>1
      <4>2. Len(On(p, e.name, k)) > 1 /\ Last(On(p, e.name, k)) = k
            /\ Front(On(p, e.name, k)) = Append(p, e.name)
            BY <2>2, OnIs
      <4> QED BY <4>1, <4>2
    <3> QED BY <3>2, <3>3
  <2> HIDE DEF entries, names, asked, o
  <2>12. /\ o.fields # {} => asked = o.fields \ (names \ asked)
         /\ o.fields = {} =>
               /\ asked \cap o.exclude = {}
               /\ (Default[model] \ o.exclude) \subseteq asked
               /\ asked \subseteq Default[model] \cup o.include
               /\ (o.include \ o.exclude) \subseteq names
         BY <2>5, <2>6, <2>7, <2>8 DEF Names
  <2>13. \A n : Expected(p, n) = IF n \in DOMAIN ForeignKeys[model] THEN {table[Last(p)][n]}
                                 ELSE {k \in DOMAIN table : /\ Objects[k] = Managers[model][n].model
                                                            /\ table[k][Managers[model][n].key] = Last(p)}
         BY <2>2 DEF Expected
  <2>14. changes = 0 => \A e \in {x \in entries : x.shows = "objects"} :
            {Last(q) : q \in {q \in Paths : Len(q) > 1 /\ Front(q) = Append(p, e.name)}}
            = Expected(p, e.name)
         BY <2>11
  <2>15. changes = 0 => \A e \in {x \in entries : x.shows = "objects"} :
            {Last(q) : q \in {q \in Paths : Len(q) > 1 /\ Front(q) = Append(p, e.name)}}
            = IF e.name \in DOMAIN ForeignKeys[model] THEN {table[Last(p)][e.name]}
              ELSE LET r == Managers[model][e.name]
                   IN  {k \in DOMAIN table : Objects[k] = r.model /\ table[k][r.key] = Last(p)}
         BY <2>13, <2>14
  <2> QED BY <2>9, <2>10, <2>12, <2>15 DEF entries, names, asked, o
<1>2. Message => {q \in Paths : q # <<>>} = {}  BY DEF Message, Paths
<1>3. IInv => ShowsWhatIsAsked
  <2>1. CASE Message  BY <1>2, <2>1 DEF ShowsWhatIsAsked
  <2>2. ASSUME NEW I, Inv(I) PROVE ShowsWhatIsAsked  BY <1>1, <2>2 DEF ShowsWhatIsAsked
  <2> QED BY <2>1, <2>2 DEF IInv
<1> QED BY <1>3, AlwaysIInv, PTL

=============================================================================
