-------------------------- MODULE CollectionProof --------------------------
(***************************************************************************)
(* What Collection promises, for any number of workers, querysets and      *)
(* changes of the table.                                                   *)
(***************************************************************************)
EXTENDS Collection, TLAPS

\* What is read and told is not newer than the table, each stage has what it
\* needs, and what has been told is as fresh as it has to be.
Sound(w) ==
    /\ born[w] <= version
    /\ pc[w] \in Reading => qs[w] \in Querysets
    /\ pc[w] = "store" => fetched[w] \in Versions /\ fetched[w] <= version
    /\ pc[w] = "use" => cache[qs[w]] # None
    /\ pc[w] = "slice" => counted[w] \in Versions /\ counted[w] \in born[w]..version
    /\ pc[w] = "slice" => kind[w].paged
    /\ (pc[w] = "answered" /\ ~kind[w].paged) => counted[w] = shown[w]
    /\ pc[w] = "count" => kind[w].paged

Sources(w) ==
    /\ pc[w] = "collect" => NoOlder(shared, born[w])
    /\ pc[w] \in Reading => NoOlder(qs[w], born[w])

Private(w) ==
    pc[w] = "assign" =>
        /\ clone[w] # None /\ cache[clone[w]] = None
        /\ clone[w] # shared
        /\ \A x \in Workers : qs[x] # clone[w] /\ (x # w => clone[x] # clone[w])

Past == \A q \in Querysets : cache[q] # None => cache[q] <= version

IInv ==
    /\ TypeOK /\ Past /\ Fresh
    /\ \A w \in Workers : Sound(w) /\ Sources(w) /\ Private(w)

-----------------------------------------------------------------------------
LEMMA InitInv == Init => IInv
<1> USE CollectionAssumption
<1>1. Init => TypeOK  BY DEF Init, TypeOK, Versions, Kinds, Stages
<1>2. Init => Past /\ Fresh  BY DEF Init, Past, Fresh
<1>3. ASSUME Init, NEW w \in Workers PROVE Sound(w) /\ Sources(w) /\ Private(w)
      BY <1>3 DEF Init, Sound, Sources, Private, Reading
<1> QED BY <1>1, <1>2, <1>3 DEF IInv

LEMMA ArriveInv == ASSUME IInv, NEW w \in Workers, Arrive(w) PROVE IInv'
<1> USE CollectionAssumption
<1>1. TypeOK /\ pc[w] \in {"idle", "answered"}
      BY DEF IInv, Arrive
<1>2. /\ pc' = [pc EXCEPT ![w] = "clone"]
      /\ born' = [born EXCEPT ![w] = version]
      /\ UNCHANGED <<version, shared, cache, clone, qs>>
      /\ \A x \in Workers \ {w} :
            kind'[x] = kind[x] /\ fetched'[x] = fetched[x]
              /\ counted'[x] = counted[x] /\ shown'[x] = shown[x]
      BY <1>1 DEF Arrive, Goto, TypeOK
<1>3. TypeOK'  BY <1>1, <1>2 DEF Arrive, TypeOK, Stages
<1>4. Past' /\ Fresh'  BY <1>1, <1>2 DEF IInv, Past, Fresh, TypeOK
<1>5. ASSUME NEW v \in Workers PROVE (Sound(v) /\ Sources(v) /\ Private(v))'
  <2>1. Sound(v) /\ Sources(v) /\ Private(v)  BY DEF IInv
  <2>2. CASE v = w
        BY <1>1, <1>2, <2>2 DEF TypeOK, Sound, Sources, Private, Reading, Versions
  <2>3. CASE v # w
    <3>1. /\ pc'[v] = pc[v] /\ born'[v] = born[v] /\ kind'[v] = kind[v]
          /\ fetched'[v] = fetched[v] /\ counted'[v] = counted[v] /\ shown'[v] = shown[v]
          BY <1>1, <1>2, <2>3 DEF TypeOK
    <3>2. Sound(v)' /\ Private(v)'  BY <1>2, <2>1, <3>1 DEF Sound, Private
    <3>3. \A q \in Querysets, n \in Versions : NoOlder(q, n) => NoOlder(q, n)'
          BY <1>1, <1>2 DEF NoOlder, TypeOK
    <3>4. Sources(v)'
          BY <1>1, <1>2, <2>1, <3>1, <3>3 DEF Sources, Sound, TypeOK
    <3> QED BY <3>2, <3>4
  <2> QED BY <2>2, <2>3
<1> QED BY <1>3, <1>4, <1>5 DEF IInv

\* What the action of one worker leaves to another.
SameFor(v) ==
    /\ pc'[v] = pc[v] /\ kind'[v] = kind[v] /\ born'[v] = born[v]
    /\ clone'[v] = clone[v] /\ qs'[v] = qs[v] /\ fetched'[v] = fetched[v]
    /\ counted'[v] = counted[v] /\ shown'[v] = shown[v]

\* An unheld queryset becomes the clone or the queryset of w, with nothing read.
LEMMA AllocInv ==
    ASSUME IInv, NEW w \in Workers, NEW q \in Querysets, ~Held(q),
           cache' = [cache EXCEPT ![q] = None],
           UNCHANGED <<version, shared>>,
           pc[w] \notin Reading \cup {"answered"}, pc'[w] \notin {"store"},
           \A v \in Workers \ {w} : SameFor(v),
           clone'[w] \in {clone[w], q}, qs'[w] \in {qs[w], q}
    PROVE  /\ Past'
           /\ \A p \in Querysets, n \in Versions : NoOlder(p, n) => NoOlder(p, n)'
           /\ \A v \in Workers \ {w} : Sound(v)' /\ Sources(v)' /\ Private(v)'
<1> USE CollectionAssumption
<1>1. /\ TypeOK /\ Past
      /\ q # shared /\ \A x \in Workers : q # clone[x] /\ q # qs[x]
      /\ \A v \in Workers : Sound(v) /\ Sources(v) /\ Private(v)
      BY DEF IInv, Held
<1>2. /\ cache'[q] = None
      /\ \A p \in Querysets : p # q => cache'[p] = cache[p]
      BY <1>1 DEF TypeOK
<1>3. Past'  BY <1>1, <1>2 DEF Past
<1>4. ASSUME NEW p \in Querysets, NEW n \in Versions, NoOlder(p, n)
      PROVE  NoOlder(p, n)'
  <2>1. cache'[p] # None => cache'[p] >= n  BY <1>2, <1>4 DEF NoOlder
  <2>2. ASSUME NEW x \in Workers, pc'[x] = "store", qs'[x] = p PROVE fetched'[x] >= n
    <3>1. x # w  BY <2>2
    <3>2. pc[x] = "store" /\ qs[x] = p /\ fetched'[x] = fetched[x]
          BY <2>2, <3>1 DEF SameFor
    <3> QED BY <1>4, <3>2 DEF NoOlder
  <2> QED BY <2>1, <2>2 DEF NoOlder
<1>5. ASSUME NEW v \in Workers \ {w} PROVE Sound(v)' /\ Sources(v)' /\ Private(v)'
  <2>1. SameFor(v) /\ Sound(v) /\ Sources(v) /\ Private(v)  BY <1>1
  <2>2. Sound(v)'
        BY <1>1, <1>2, <2>1 DEF SameFor, Sound, Reading
  <2>3. Sources(v)'
    <3>1. /\ pc'[v] = "collect" => NoOlder(shared, born[v])'
          /\ pc'[v] \in Reading => NoOlder(qs[v], born[v])'
          BY <1>1, <1>4, <2>1 DEF SameFor, Sources, Sound, TypeOK
    <3> QED BY <2>1, <3>1 DEF SameFor, Sources
  <2>4. Private(v)'
    <3> SUFFICES ASSUME pc'[v] = "assign" PROVE Private(v)'  BY DEF Private
    <3>1. /\ clone[v] # None /\ cache[clone[v]] = None /\ clone[v] # shared
          /\ \A x \in Workers : qs[x] # clone[v] /\ (x # v => clone[x] # clone[v])
          BY <2>1 DEF Private, SameFor
    <3>2. clone'[v] = clone[v] /\ clone[v] \in Querysets /\ clone[v] # q
          BY <1>1, <2>1, <3>1 DEF SameFor, TypeOK
    <3>3. ASSUME NEW x \in Workers
          PROVE  qs'[x] # clone[v] /\ (x # v => clone'[x] # clone[v])
      <4>1. CASE x = w  BY <3>1, <3>2, <4>1
      <4>2. CASE x # w  BY <3>1, <4>2 DEF SameFor
      <4> QED BY <4>1, <4>2
    <3> QED BY <1>2, <3>1, <3>2, <3>3 DEF Private
  <2> QED BY <2>2, <2>3, <2>4
<1> QED BY <1>3, <1>4, <1>5

LEMMA CloneInv == ASSUME IInv, NEW w \in Workers, Clone(w) PROVE IInv'
<1> USE CollectionAssumption
<1>1. TypeOK /\ pc[w] = "clone"  BY DEF IInv, Clone
<1>2. PICK q \in Querysets : /\ ~Held(q)
                            /\ clone' = [clone EXCEPT ![w] = q]
                            /\ cache' = [cache EXCEPT ![q] = None]
      BY DEF Clone
<1>3. /\ pc' = [pc EXCEPT ![w] = "assign"]
      /\ UNCHANGED <<version, shared, kind, born, qs, fetched, counted, shown>>
      BY DEF Clone, Goto, own, told
<1>4. \A v \in Workers \ {w} : SameFor(v)
      BY <1>1, <1>2, <1>3 DEF SameFor, TypeOK
<1>5. clone'[w] = q /\ qs'[w] = qs[w] /\ pc'[w] = "assign" /\ cache'[q] = None
      BY <1>1, <1>2, <1>3 DEF TypeOK
<1>6. /\ Past'
      /\ \A v \in Workers \ {w} : Sound(v)' /\ Sources(v)' /\ Private(v)'
      BY <1>1, <1>2, <1>3, <1>4, <1>5, AllocInv DEF Reading
<1>7. TypeOK'
  <2>1. cache' \in [Querysets -> Versions \cup {None}]
        BY <1>1, <1>2 DEF TypeOK
  <2>2. clone' \in [Workers -> Querysets \cup {None}]
        BY <1>1, <1>2 DEF TypeOK
  <2>3. pc' \in [Workers -> Stages]
        BY <1>1, <1>3 DEF TypeOK, Stages
  <2> QED BY <1>1, <1>3, <2>1, <2>2, <2>3 DEF TypeOK
<1>8. Fresh'  BY <1>1, <1>3 DEF IInv, Fresh, TypeOK
<1>9. Sound(w)' /\ Sources(w)'
      BY <1>1, <1>3, <1>5 DEF IInv, Sound, Sources, Reading
<1>10. Private(w)'
  <2>1. \A x \in Workers : qs'[x] # q /\ (x # w => clone'[x] # q)
        BY <1>2, <1>3, <1>4 DEF Held, SameFor
  <2> QED BY <1>1, <1>2, <1>3, <1>5, <2>1 DEF Private, Held
<1> QED BY <1>6, <1>7, <1>8, <1>9, <1>10 DEF IInv

LEMMA AssignInv == ASSUME IInv, NEW w \in Workers, Assign(w) PROVE IInv'
<1> USE CollectionAssumption
<1>1. /\ TypeOK /\ pc[w] = "assign" /\ Fresh /\ Past
      /\ \A v \in Workers : Sound(v) /\ Sources(v) /\ Private(v)
      BY DEF IInv, Assign
<1>2. /\ shared' = clone[w]
      /\ clone' = [clone EXCEPT ![w] = None]
      /\ pc' = [pc EXCEPT ![w] = "collect"]
      /\ UNCHANGED <<version, cache, kind, born, qs, fetched, counted, shown>>
      BY DEF Assign, Goto, own, told
<1>3. /\ clone[w] \in Querysets /\ cache[clone[w]] = None
      /\ \A x \in Workers : qs[x] # clone[w] /\ (x # w => clone[x] # clone[w])
      BY <1>1 DEF Private, TypeOK
<1>4. TypeOK'  BY <1>1, <1>2, <1>3 DEF TypeOK, Stages
<1>5. Past' /\ Fresh'  BY <1>1, <1>2 DEF Past, Fresh, TypeOK
<1>6. \A n \in Versions : NoOlder(shared, n)'
      BY <1>2, <1>3 DEF NoOlder
<1>7. \A q \in Querysets, n \in Versions : NoOlder(q, n) => NoOlder(q, n)'
      BY <1>1, <1>2 DEF NoOlder, TypeOK
<1>8. ASSUME NEW v \in Workers PROVE Sound(v)' /\ Sources(v)' /\ Private(v)'
  <2>1. Sound(v)'  BY <1>1, <1>2 DEF Sound, TypeOK, Reading
  <2>2. Sources(v)'
    <3>1. pc'[v] = "collect" => NoOlder(shared, born[v])'
      <4>1. born[v] \in Versions /\ born' = born  BY <1>1, <1>2 DEF TypeOK
      <4>2. NoOlder(shared, born[v])'  BY <1>6, <4>1
      <4> QED BY <4>2
    <3>2. pc'[v] \in Reading => NoOlder(qs[v], born[v])'
      <4> SUFFICES ASSUME pc'[v] \in Reading PROVE NoOlder(qs[v], born[v])'  OBVIOUS
      <4>1. pc[v] \in Reading  BY <1>1, <1>2 DEF TypeOK, Reading
      <4>2. qs[v] \in Querysets /\ born[v] \in Versions /\ NoOlder(qs[v], born[v])
            BY <1>1, <4>1 DEF Sound, Sources, TypeOK
      <4> QED BY <1>2, <1>7, <4>2
    <3> QED BY <1>2, <3>1, <3>2 DEF Sources
  <2>3. Private(v)'
    <3> SUFFICES ASSUME pc'[v] = "assign" PROVE Private(v)'  BY DEF Private
    <3>1. v # w /\ pc[v] = "assign"  BY <1>1, <1>2 DEF TypeOK
    <3>2. clone'[v] = clone[v] /\ clone[v] # clone[w]
          BY <1>1, <1>2, <1>3, <3>1 DEF TypeOK
    <3>3. \A x \in Workers : clone'[x] = IF x = w THEN None ELSE clone[x]
          BY <1>1, <1>2 DEF TypeOK
    <3> QED BY <1>1, <1>2, <3>1, <3>2, <3>3 DEF Private
  <2> QED BY <2>1, <2>2, <2>3
<1> QED BY <1>4, <1>5, <1>8 DEF IInv

LEMMA CollectInv == ASSUME IInv, NEW w \in Workers, Collect(w) PROVE IInv'
<1> USE CollectionAssumption
<1> DEFINE next == IF kind[w].paged THEN "count" ELSE "select"
<1>1. /\ TypeOK /\ pc[w] = "collect" /\ Fresh /\ Past
      /\ \A v \in Workers : Sound(v) /\ Sources(v) /\ Private(v)
      BY DEF IInv, Collect
<1>2. /\ pc' = [pc EXCEPT ![w] = next]
      /\ UNCHANGED <<version, shared, kind, born, clone, fetched, counted, shown>>
      BY DEF Collect, Goto, own, told
<1>3. kind[w].paged \in BOOLEAN /\ next \in {"count", "select"} /\ pc'[w] = next
      BY <1>1, <1>2 DEF TypeOK, Kinds
<1>4. pc' \in [Workers -> Stages]  BY <1>1, <1>2, <1>3 DEF TypeOK, Stages
<1>5. NoOlder(shared, born[w])  BY <1>1 DEF Sources
<1>6. Fresh'  BY <1>1, <1>2, <1>3 DEF Fresh, TypeOK
<1>7. CASE qs' = [qs EXCEPT ![w] = shared] /\ UNCHANGED cache
  <2>1. /\ qs' \in [Workers -> Querysets \cup {None}] /\ qs'[w] = shared
        /\ \A v \in Workers \ {w} : SameFor(v)
        BY <1>1, <1>2, <1>7 DEF TypeOK, SameFor
  <2>2. TypeOK'  BY <1>1, <1>2, <1>4, <1>7, <2>1 DEF TypeOK
  <2>3. Past'  BY <1>1, <1>2, <1>7 DEF Past
  <2>4. ASSUME NEW q \in Querysets, NEW n \in Versions, NoOlder(q, n) PROVE NoOlder(q, n)'
    <3>1. ASSUME NEW x \in Workers, pc'[x] = "store", qs'[x] = q PROVE fetched'[x] >= n
      <4>1. x # w  BY <1>3, <3>1
      <4> QED BY <2>1, <2>4, <3>1, <4>1 DEF SameFor, NoOlder
    <3> QED BY <1>7, <2>4, <3>1 DEF NoOlder
  <2>5. ASSUME NEW v \in Workers PROVE Sound(v)' /\ Sources(v)' /\ Private(v)'
    <3>1. CASE v = w
      <4>1. NoOlder(shared, born[w])'
            BY <1>1, <1>2, <1>5, <2>4 DEF TypeOK
      <4>2. Sources(w)'  BY <1>2, <1>3, <2>1, <4>1 DEF Sources
      <4>3. Sound(w)' /\ Private(w)'
            BY <1>1, <1>2, <1>3, <2>1 DEF Sound, Private, Reading, TypeOK
      <4> QED BY <3>1, <4>2, <4>3
    <3>2. CASE v # w
      <4>1. SameFor(v)  BY <2>1, <3>2
      <4>2. Sound(v)'  BY <1>1, <1>2, <1>7, <4>1 DEF Sound, SameFor
      <4>3. /\ pc'[v] = "collect" => NoOlder(shared, born[v])'
            /\ pc'[v] \in Reading => NoOlder(qs[v], born[v])'
            BY <1>1, <1>2, <2>4, <4>1 DEF Sources, Sound, SameFor, TypeOK
      <4>4. Sources(v)'  BY <1>2, <4>1, <4>3 DEF Sources, SameFor
      <4>5. Private(v)'
        <5>1. \A x \in Workers : qs'[x] = IF x = w THEN shared ELSE qs[x]
              BY <1>1, <1>7 DEF TypeOK
        <5> QED BY <1>1, <1>2, <1>7, <4>1, <5>1 DEF Private, SameFor
      <4> QED BY <4>2, <4>4, <4>5
    <3> QED BY <3>1, <3>2
  <2> QED BY <1>6, <2>2, <2>3, <2>5 DEF IInv
<1>8. ASSUME NEW q \in Querysets, ~Held(q), qs' = [qs EXCEPT ![w] = q],
             cache' = [cache EXCEPT ![q] = None]
      PROVE  IInv'
  <2>1. /\ qs' \in [Workers -> Querysets \cup {None}] /\ qs'[w] = q
        /\ cache' \in [Querysets -> Versions \cup {None}] /\ cache'[q] = None
        /\ \A v \in Workers \ {w} : SameFor(v)
        BY <1>1, <1>2, <1>8 DEF TypeOK, SameFor
  <2>2. TypeOK'  BY <1>1, <1>2, <1>4, <2>1 DEF TypeOK
  <2>3. /\ Past'
        /\ \A v \in Workers \ {w} : Sound(v)' /\ Sources(v)' /\ Private(v)'
        BY <1>1, <1>2, <1>3, <1>8, <2>1, AllocInv DEF Reading
  <2>4. NoOlder(qs[w], born[w])'
    <3>1. \A x \in Workers : qs'[x] = q => x = w
          BY <1>8, <2>1 DEF SameFor, Held
    <3> QED BY <1>3, <2>1, <3>1 DEF NoOlder
  <2>5. Sound(w)' /\ Sources(w)' /\ Private(w)'
        BY <1>1, <1>2, <1>3, <2>1, <2>4 DEF Sound, Sources, Private, Reading, TypeOK
  <2> QED BY <1>6, <2>2, <2>3, <2>5 DEF IInv
<1> QED BY <1>7, <1>8 DEF Collect

\* Counting, slicing, selecting and using read the querysets and keep them.
LEMMA ReadInv ==
    ASSUME IInv, NEW w \in Workers, pc[w] \in Reading, pc'[w] \in Stages,
           UNCHANGED <<version, shared, cache, clone>>, TypeOK',
           pc'[w] \notin {"collect", "assign"},
           \A v \in Workers \ {w} : SameFor(v),
           pc'[w] \in Reading => qs'[w] = qs[w], qs'[w] \in {qs[w], None},
           pc'[w] = "store" => fetched'[w] = version,
           kind'[w] = kind[w], born'[w] = born[w],
           Sound(w)'
    PROVE  Past' /\ \A v \in Workers : Sound(v)' /\ Sources(v)' /\ Private(v)'
<1> USE CollectionAssumption
<1>1. /\ TypeOK /\ Past
      /\ \A v \in Workers : Sound(v) /\ Sources(v) /\ Private(v)
      BY DEF IInv
<1>2. Past'  BY <1>1 DEF Past
<1>3. ASSUME NEW q \in Querysets, NEW n \in Versions, n <= version, NoOlder(q, n)
      PROVE  NoOlder(q, n)'
  <2>1. ASSUME NEW x \in Workers, pc'[x] = "store", qs'[x] = q PROVE fetched'[x] >= n
    <3>1. CASE x = w  BY <1>1, <1>3, <2>1, <3>1 DEF TypeOK, Versions
    <3>2. CASE x # w  BY <1>3, <2>1, <3>2 DEF SameFor, NoOlder
    <3> QED BY <3>1, <3>2
  <2> QED BY <1>3, <2>1 DEF NoOlder
<1>4. ASSUME NEW v \in Workers PROVE Sound(v)' /\ Sources(v)' /\ Private(v)'
  <2>1. CASE v = w
    <3>1. pc'[w] \in Reading => NoOlder(qs[w], born[w])'
          BY <1>1, <1>3 DEF Sources, Sound, TypeOK, Reading
    <3> QED BY <2>1, <3>1 DEF Sources, Private
  <2>2. CASE v # w
    <3>1. SameFor(v)  BY <2>2
    <3>2. Sound(v)'  BY <1>1, <3>1 DEF Sound, SameFor
    <3>3. /\ pc'[v] = "collect" => NoOlder(shared, born[v])'
          /\ pc'[v] \in Reading => NoOlder(qs[v], born[v])'
          BY <1>1, <1>3, <3>1 DEF Sources, Sound, SameFor, TypeOK
    <3>4. Sources(v)'  BY <3>1, <3>3 DEF Sources, SameFor
    <3>5. Private(v)'
      <4>1. \A x \in Workers : qs'[x] \in {qs[x], None}  BY DEF SameFor
      <4>2. pc[v] = "assign" => clone[v] # None  BY <1>1 DEF Private
      <4> QED BY <1>1, <3>1, <4>1, <4>2 DEF Private, SameFor
    <3> QED BY <3>2, <3>4, <3>5
  <2> QED BY <2>1, <2>2
<1> QED BY <1>2, <1>4

\* What a worker finds in its queryset is as fresh as it has to be.
LEMMA SeenFresh ==
    ASSUME IInv, NEW w \in Workers, pc[w] \in Reading
    PROVE  /\ qs[w] \in Querysets
           /\ Seen(qs[w]) \in Versions /\ Seen(qs[w]) \in born[w]..version
           /\ cache[qs[w]] # None => cache[qs[w]] = Seen(qs[w])
<1> USE CollectionAssumption
<1>1. /\ qs[w] \in Querysets /\ NoOlder(qs[w], born[w]) /\ born[w] <= version
      /\ cache[qs[w]] \in Versions \cup {None} /\ version \in Versions
      /\ born[w] \in Versions /\ (cache[qs[w]] # None => cache[qs[w]] <= version)
      BY DEF IInv, TypeOK, Sound, Sources, Past
<1>2. CASE cache[qs[w]] = None  BY <1>1, <1>2 DEF Seen, Versions
<1>3. CASE cache[qs[w]] # None  BY <1>1, <1>3 DEF Seen, NoOlder, Versions
<1> QED BY <1>1, <1>2, <1>3 DEF Seen

LEMMA CountInv == ASSUME IInv, NEW w \in Workers, Count(w) PROVE IInv'
<1>1. /\ TypeOK /\ pc[w] = "count" /\ Fresh /\ Sound(w)  BY DEF IInv, Count
<1>2. /\ pc' = [pc EXCEPT ![w] = "slice"]
      /\ counted' = [counted EXCEPT ![w] = Seen(qs[w])]
      /\ UNCHANGED <<version, shared, cache, kind, born, clone, qs, fetched, shown>>
      BY DEF Count, Goto, own
<1>3. Seen(qs[w]) \in Versions /\ Seen(qs[w]) \in born[w]..version
      BY <1>1, SeenFresh DEF Reading
<1>4. TypeOK'  BY <1>1, <1>2, <1>3 DEF TypeOK, Stages
<1>5. Fresh'  BY <1>1, <1>2 DEF Fresh, TypeOK
<1>6. \A v \in Workers \ {w} : SameFor(v)  BY <1>1, <1>2 DEF TypeOK, SameFor
<1>7. Sound(w)'  BY <1>1, <1>2, <1>3 DEF Sound, TypeOK, Reading
<1>8. pc'[w] = "slice" /\ pc[w] \in Reading /\ pc'[w] \in Stages
      BY <1>1, <1>2 DEF TypeOK, Reading, Stages
<1>9. Past' /\ \A v \in Workers : Sound(v)' /\ Sources(v)' /\ Private(v)'
      BY <1>2, <1>4, <1>6, <1>7, <1>8, ReadInv
<1> QED BY <1>4, <1>5, <1>9 DEF IInv

LEMMA SliceInv == ASSUME IInv, NEW w \in Workers, Slice(w) PROVE IInv'
<1>1. /\ TypeOK /\ pc[w] = "slice" /\ Fresh /\ Sound(w)  BY DEF IInv, Slice
<1>2. /\ pc' = [pc EXCEPT ![w] = "answered"]
      /\ shown' = [shown EXCEPT ![w] = Seen(qs[w])]
      /\ qs' = [qs EXCEPT ![w] = None]
      /\ UNCHANGED <<version, shared, cache, kind, born, clone, fetched, counted>>
      BY DEF Slice, Goto, own
<1>3. Seen(qs[w]) \in Versions /\ Seen(qs[w]) \in born[w]..version
      BY <1>1, SeenFresh DEF Reading
<1>4. TypeOK'  BY <1>1, <1>2, <1>3 DEF TypeOK, Stages
<1>5. Fresh'  BY <1>1, <1>2, <1>3 DEF Fresh, TypeOK, Sound
<1>6. \A v \in Workers \ {w} : SameFor(v)  BY <1>1, <1>2 DEF TypeOK, SameFor
<1>7. Sound(w)'  BY <1>1, <1>2 DEF Sound, TypeOK, Reading
<1>8. /\ pc'[w] = "answered" /\ pc[w] \in Reading /\ pc'[w] \in Stages
      /\ pc'[w] \notin Reading /\ qs'[w] = None
      BY <1>1, <1>2 DEF TypeOK, Reading, Stages
<1>9. Past' /\ \A v \in Workers : Sound(v)' /\ Sources(v)' /\ Private(v)'
      BY <1>2, <1>4, <1>6, <1>7, <1>8, ReadInv
<1> QED BY <1>4, <1>5, <1>9 DEF IInv

LEMMA SelectInv == ASSUME IInv, NEW w \in Workers, Select(w) PROVE IInv'
<1>1. /\ TypeOK /\ pc[w] = "select" /\ Fresh /\ Sound(w)  BY DEF IInv, Select
<1>2. UNCHANGED <<version, shared, cache, kind, born, clone, qs, counted, shown>>
      BY DEF Select, own, told
<1>3. \/ /\ cache[qs[w]] # None
         /\ pc' = [pc EXCEPT ![w] = "use"] /\ fetched' = fetched
      \/ /\ pc' = [pc EXCEPT ![w] = "store"]
         /\ fetched' = [fetched EXCEPT ![w] = version]
      BY DEF Select, Goto
<1>4. /\ pc' \in [Workers -> Stages] /\ pc'[w] \in {"use", "store"}
      /\ fetched' \in [Workers -> Versions \cup {None}]
      BY <1>1, <1>3 DEF TypeOK, Stages
<1>5. TypeOK'  BY <1>1, <1>2, <1>4 DEF TypeOK
<1>6. \A v \in Workers \ {w} : SameFor(v)  BY <1>1, <1>2, <1>3 DEF TypeOK, SameFor
<1>7. Fresh'
  <2>1. \A v \in Workers : pc'[v] = "answered" => pc[v] = "answered"
        BY <1>4, <1>6 DEF SameFor
  <2> QED BY <1>1, <1>2, <2>1 DEF Fresh
<1>8. /\ pc'[w] = "store" => fetched'[w] = version
      /\ pc'[w] = "use" => cache[qs[w]] # None
      BY <1>1, <1>3 DEF TypeOK
<1>9. Sound(w)'
      BY <1>1, <1>2, <1>4, <1>8, CollectionAssumption DEF Sound, TypeOK, Reading, Versions
<1>10. pc[w] \in Reading /\ pc'[w] \in Stages  BY <1>1, <1>4 DEF Reading, Stages
<1>11. Past' /\ \A v \in Workers : Sound(v)' /\ Sources(v)' /\ Private(v)'
      BY <1>2, <1>4, <1>5, <1>6, <1>8, <1>9, <1>10, ReadInv
<1> QED BY <1>5, <1>7, <1>11 DEF IInv

LEMMA UseInv == ASSUME IInv, NEW w \in Workers, Use(w) PROVE IInv'
<1>1. /\ TypeOK /\ pc[w] = "use" /\ Fresh /\ Sound(w)  BY DEF IInv, Use
<1>2. /\ pc' = [pc EXCEPT ![w] = "answered"]
      /\ counted' = [counted EXCEPT ![w] = cache[qs[w]]]
      /\ shown' = [shown EXCEPT ![w] = cache[qs[w]]]
      /\ qs' = [qs EXCEPT ![w] = None]
      /\ UNCHANGED <<version, shared, cache, kind, born, clone, fetched>>
      BY DEF Use, Goto, own
<1>3. cache[qs[w]] \in Versions /\ cache[qs[w]] \in born[w]..version
      BY <1>1, SeenFresh DEF Reading, Sound
<1>4. TypeOK'  BY <1>1, <1>2, <1>3 DEF TypeOK, Stages
<1>5. Fresh'  BY <1>1, <1>2, <1>3 DEF Fresh, TypeOK
<1>6. \A v \in Workers \ {w} : SameFor(v)  BY <1>1, <1>2 DEF TypeOK, SameFor
<1>7. Sound(w)'  BY <1>1, <1>2 DEF Sound, TypeOK, Reading
<1>8. /\ pc'[w] = "answered" /\ pc[w] \in Reading /\ pc'[w] \in Stages
      /\ pc'[w] \notin Reading /\ qs'[w] = None
      BY <1>1, <1>2 DEF TypeOK, Reading, Stages
<1>9. Past' /\ \A v \in Workers : Sound(v)' /\ Sources(v)' /\ Private(v)'
      BY <1>2, <1>4, <1>6, <1>7, <1>8, ReadInv
<1> QED BY <1>4, <1>5, <1>9 DEF IInv

LEMMA StoreInv == ASSUME IInv, NEW w \in Workers, Store(w) PROVE IInv'
<1> USE CollectionAssumption
<1> DEFINE q == qs[w]
<1>1. /\ TypeOK /\ pc[w] = "store" /\ Fresh /\ Past
      /\ \A v \in Workers : Sound(v) /\ Sources(v) /\ Private(v)
      BY DEF IInv, Store
<1>2. /\ cache' = [cache EXCEPT ![q] = fetched[w]]
      /\ pc' = [pc EXCEPT ![w] = "use"]
      /\ UNCHANGED <<version, shared, kind, born, clone, qs, fetched, counted, shown>>
      BY DEF Store, Goto, own, told
<1>3. q \in Querysets /\ fetched[w] \in Versions /\ fetched[w] <= version
      BY <1>1 DEF Sound, Reading
<1>4. TypeOK'  BY <1>1, <1>2, <1>3 DEF TypeOK, Stages
<1>5. /\ \A p \in Querysets : cache'[p] = IF p = q THEN fetched[w] ELSE cache[p]
      /\ \A v \in Workers : pc'[v] = IF v = w THEN "use" ELSE pc[v]
      BY <1>1, <1>2, <1>3 DEF TypeOK
<1> HIDE DEF q
<1>6. Past'  BY <1>1, <1>2, <1>3, <1>5 DEF Past
<1>7. Fresh'  BY <1>1, <1>2, <1>5 DEF Fresh
<1>8. ASSUME NEW p \in Querysets, NEW n \in Versions, NoOlder(p, n) PROVE NoOlder(p, n)'
  <2>1. p = q => fetched[w] >= n  BY <1>1, <1>8 DEF NoOlder, q
  <2> QED BY <1>2, <1>5, <1>8, <2>1 DEF NoOlder
<1>9. ASSUME NEW v \in Workers PROVE Sound(v)' /\ Sources(v)' /\ Private(v)'
  <2>1. Sound(v)'
    <3>1. (pc'[v] = "use")  => cache'[qs[v]] # None
      <4>0. fetched[w] # None  BY <1>3 DEF Versions
      <4>1. CASE v = w  BY <1>3, <1>5, <4>0, <4>1 DEF q
      <4>2. CASE v # w
        <5>1. pc[v] \in Reading => qs[v] \in Querysets  BY <1>1 DEF Sound
        <5> QED BY <1>1, <1>3, <1>5, <4>0, <4>2, <5>1 DEF Sound, Reading
      <4> QED BY <4>1, <4>2
    <3> QED BY <1>1, <1>2, <1>5, <3>1 DEF Sound, Reading
  <2>2. /\ pc'[v] = "collect" => NoOlder(shared, born[v])'
        /\ pc'[v] \in Reading => NoOlder(qs[v], born[v])'
    <3>1. pc'[v] \in Reading => pc[v] \in Reading  BY <1>1, <1>5 DEF Reading
    <3>2. pc'[v] = "collect" => pc[v] = "collect"  BY <1>5
    <3> QED BY <1>1, <1>2, <1>8, <3>1, <3>2 DEF Sources, Sound, TypeOK
  <2>3. Sources(v)'  BY <1>2, <2>2 DEF Sources
  <2>4. Private(v)'
    <3> SUFFICES ASSUME pc'[v] = "assign" PROVE Private(v)'  BY DEF Private
    <3>1. pc[v] = "assign"  BY <1>5
    <3>2. clone[v] \in Querysets /\ clone[v] # q
          BY <1>1, <3>1 DEF Private, TypeOK, q
    <3>3. cache'[clone[v]] = None  BY <1>1, <1>5, <3>1, <3>2 DEF Private
    <3> QED BY <1>1, <1>2, <3>1, <3>3 DEF Private
  <2> QED BY <2>1, <2>3, <2>4
<1> QED BY <1>4, <1>6, <1>7, <1>9 DEF IInv

LEMMA ChangeInv == ASSUME IInv, Change PROVE IInv'
<1> USE CollectionAssumption
<1>1. TypeOK /\ Fresh /\ Past /\ version \in Versions /\ version' = version + 1
      BY DEF IInv, Change, TypeOK
<1>2. /\ version < MaxVersion
      /\ UNCHANGED <<shared, cache, pc, kind, born, clone, qs, fetched, counted, shown>>
      BY DEF Change, own, told
<1>3. TypeOK'  BY <1>1, <1>2 DEF TypeOK, Versions
<1>4. Past' /\ Fresh'
      BY <1>1, <1>2 DEF Past, Fresh, TypeOK, Versions
<1>5. ASSUME NEW v \in Workers PROVE Sound(v)' /\ Sources(v)' /\ Private(v)'
  <2>1. TypeOK /\ Sound(v) /\ Sources(v) /\ Private(v)  BY DEF IInv
  <2>2. Sound(v)'  BY <1>1, <1>2, <2>1 DEF Sound, TypeOK, Versions
  <2>3. Sources(v)' /\ Private(v)'
        BY <1>2, <2>1 DEF Sources, Private, NoOlder
  <2> QED BY <2>2, <2>3
<1> QED BY <1>3, <1>4, <1>5 DEF IInv

LEMMA StepInv == IInv /\ [Next]_vars => IInv'
<1> SUFFICES ASSUME IInv, [Next]_vars PROVE IInv'  OBVIOUS
<1>1. CASE Next
      BY <1>1, ArriveInv, CloneInv, AssignInv, CollectInv, CountInv, SliceInv,
         SelectInv, StoreInv, UseInv, ChangeInv DEF Next
<1>2. CASE UNCHANGED vars
      BY <1>2 DEF vars, IInv, TypeOK, Past, Fresh, Sound, Sources, Private, NoOlder
<1> QED BY <1>1, <1>2

LEMMA Invariance == Spec => []IInv
BY InitInv, StepInv, PTL DEF Spec

\* However the requests share and replace the queryset, no answer is older
\* than the request it answers.
THEOREM AnswersAreFresh == Spec => []Fresh
<1>1. IInv => Fresh  BY DEF IInv
<1> QED BY <1>1, Invariance, PTL

\* The queryset a request works on never holds rows older than the request.
THEOREM SourcesAreFresh == Spec => []FreshSource
<1>1. IInv => FreshSource  BY DEF IInv, Sources, FreshSource
<1> QED BY <1>1, Invariance, PTL

-----------------------------------------------------------------------------
\* Steps that neither ask nor answer are stutters of SnapshotRead.
LEMMA QuietStep ==
    ASSUME TypeOK, NEW w \in Workers, NEW s, s \notin {"idle", "answered"},
           pc[w] \notin {"idle", "answered"}, pc' = [pc EXCEPT ![w] = s],
           UNCHANGED <<version, kind, born>>,
           \A v \in Workers : pc[v] = "answered" =>
                counted'[v] = counted[v] /\ shown'[v] = shown[v]
    PROVE  UNCHANGED Reads!svars
<1>1. \A v \in Workers : pc'[v] = IF v = w THEN s ELSE pc[v]  BY DEF TypeOK
<1>2. Asked' = Asked
  <2>1. \A v \in Workers : (pc'[v] \in {"idle", "answered"}) <=> (pc[v] \in {"idle", "answered"})
        BY <1>1
  <2> QED BY <2>1 DEF Asked
<1>3. Answer' = Answer
  <2>1. \A v \in Workers : (pc'[v] = "answered") <=> (pc[v] = "answered")  BY <1>1
  <2> QED BY <2>1 DEF Answer
<1> QED BY <1>2, <1>3 DEF Reads!svars

\* The steps that ask and answer.
LEMMA ArriveAsks == ASSUME IInv, NEW w \in Workers, Arrive(w) PROVE Reads!SAsk(w)
<1>1. TypeOK /\ pc[w] \in {"idle", "answered"}  BY DEF IInv, Arrive
<1>2. PICK k \in Kinds : kind' = [kind EXCEPT ![w] = k]  BY DEF Arrive
<1>3. /\ pc' = [pc EXCEPT ![w] = "clone"]
      /\ born' = [born EXCEPT ![w] = version]
      /\ counted' = [counted EXCEPT ![w] = None]
      /\ shown' = [shown EXCEPT ![w] = None]
      /\ version' = version
      BY DEF Arrive, Goto
<1>4. Asked' = [Asked EXCEPT ![w] = k]  BY <1>1, <1>2, <1>3 DEF Asked, TypeOK
<1>5. Answer' = [Answer EXCEPT ![w] = None]  BY <1>1, <1>3 DEF Answer, TypeOK
<1>6. Asked[w] = None  BY <1>1 DEF Asked
<1> QED BY <1>2, <1>3, <1>4, <1>5, <1>6 DEF Reads!SAsk

LEMMA AnswerTells ==
    ASSUME IInv, NEW w \in Workers, pc[w] \in {"slice", "use"}, UNCHANGED <<version, kind, born>>,
           NEW n, NEW r, n \in born[w]..version, r \in born[w]..version,
           ~kind[w].paged => n = r,
           pc' = [pc EXCEPT ![w] = "answered"],
           counted'[w] = n, shown'[w] = r,
           \A v \in Workers \ {w} : counted'[v] = counted[v] /\ shown'[v] = shown[v]
    PROVE  Reads!SAnswer(w)
<1>1. TypeOK  BY DEF IInv
<1>2. \A v \in Workers : pc'[v] = IF v = w THEN "answered" ELSE pc[v]  BY <1>1 DEF TypeOK
<1>3. Asked[w] = kind[w] /\ kind[w] # None
      BY <1>1, CollectionAssumption DEF Asked, TypeOK
<1>4. Asked' = [Asked EXCEPT ![w] = None]  BY <1>2 DEF Asked
<1>5. Answer' = [Answer EXCEPT ![w] = [count |-> n, rows |-> r]]  BY <1>2, ZenonT(30) DEF Answer
<1>6. \E m, rows \in born[w]..version :
         /\ ~Asked[w].paged => m = rows
         /\ Answer' = [Answer EXCEPT ![w] = [count |-> m, rows |-> rows]]
      BY <1>3, <1>5
<1> QED BY <1>3, <1>4, <1>6 DEF Reads!SAnswer

LEMMA StepRefines == IInv /\ [Next]_vars => [Reads!SNext]_(Reads!svars)
<1> SUFFICES ASSUME IInv, [Next]_vars PROVE [Reads!SNext]_(Reads!svars)  OBVIOUS
<1>1. TypeOK  BY DEF IInv
<1>2. ASSUME NEW w \in Workers, Arrive(w) PROVE Reads!SNext
      BY <1>2, ArriveAsks DEF Reads!SNext
<1>3. ASSUME NEW w \in Workers, Slice(w) PROVE Reads!SNext
  <2>1. /\ pc[w] = "slice" /\ Sound(w) /\ counted'[w] = counted[w]
        /\ shown'[w] = Seen(qs[w]) /\ Seen(qs[w]) \in born[w]..version
        /\ pc' = [pc EXCEPT ![w] = "answered"] /\ UNCHANGED <<version, kind, born>>
        /\ \A v \in Workers \ {w} : counted'[v] = counted[v] /\ shown'[v] = shown[v]
        BY <1>1, <1>3, SeenFresh DEF IInv, Slice, Goto, own, TypeOK, Reading
  <2>2. counted[w] \in born[w]..version /\ kind[w].paged  BY <2>1 DEF Sound
  <2>3. Reads!SAnswer(w)  BY <2>1, <2>2, AnswerTells
  <2> QED BY <2>3 DEF Reads!SNext
<1>4. ASSUME NEW w \in Workers, Use(w) PROVE Reads!SNext
  <2>1. /\ pc[w] = "use" /\ cache[qs[w]] # None
        /\ counted'[w] = cache[qs[w]] /\ shown'[w] = cache[qs[w]]
        /\ pc' = [pc EXCEPT ![w] = "answered"] /\ UNCHANGED <<version, kind, born>>
        /\ \A v \in Workers \ {w} : counted'[v] = counted[v] /\ shown'[v] = shown[v]
        BY <1>1, <1>4 DEF IInv, Sound, Use, Goto, own, TypeOK
  <2>2. cache[qs[w]] \in born[w]..version  BY <2>1, SeenFresh DEF Reading
  <2>3. Reads!SAnswer(w)  BY <2>1, <2>2, AnswerTells
  <2> QED BY <2>3 DEF Reads!SNext
<1>5. ASSUME NEW w \in Workers, Clone(w) \/ Assign(w) PROVE UNCHANGED Reads!svars
      BY <1>1, <1>5, QuietStep DEF Clone, Assign, Goto, own, told
<1>6. ASSUME NEW w \in Workers, Collect(w) PROVE UNCHANGED Reads!svars
  <2> DEFINE s == IF kind[w].paged THEN "count" ELSE "select"
  <2>1. s \notin {"idle", "answered"} /\ pc[w] = "collect" /\ pc' = [pc EXCEPT ![w] = s]
        BY <1>6 DEF Collect, Goto
  <2>2. UNCHANGED <<version, kind, born, counted, shown>>  BY <1>6 DEF Collect, own, told
  <2> HIDE DEF s
  <2> QED BY <1>1, <2>1, <2>2, QuietStep
<1>7. ASSUME NEW w \in Workers, Count(w) PROVE UNCHANGED Reads!svars
  <2>1. /\ pc[w] = "count" /\ pc' = [pc EXCEPT ![w] = "slice"]
        /\ UNCHANGED <<version, kind, born, shown>>
        /\ \A v \in Workers : pc[v] = "answered" => counted'[v] = counted[v]
        BY <1>1, <1>7 DEF Count, Goto, own, TypeOK
  <2> QED BY <1>1, <2>1, QuietStep
<1>8. ASSUME NEW w \in Workers, Select(w) PROVE UNCHANGED Reads!svars
  <2>1. /\ pc[w] = "select" /\ UNCHANGED <<version, kind, born, counted, shown>>
        /\ pc' = [pc EXCEPT ![w] = "use"] \/ pc' = [pc EXCEPT ![w] = "store"]
        BY <1>8 DEF Select, Goto, own, told
  <2> QED BY <1>1, <2>1, QuietStep
<1>9. ASSUME NEW w \in Workers, Store(w) PROVE UNCHANGED Reads!svars
      BY <1>1, <1>9, QuietStep DEF Store, Goto, own, told
<1>10. ASSUME Change PROVE Reads!SNext
  <2>1. version' = version + 1 /\ UNCHANGED <<pc, kind, born, counted, shown>>
        BY <1>10 DEF Change, own, told
  <2>2. Asked' = Asked /\ Answer' = Answer  BY <2>1 DEF Asked, Answer
  <2> QED BY <2>1, <2>2 DEF Reads!SNext, Reads!SChange
<1>11. CASE UNCHANGED vars
  <2>1. Asked' = Asked /\ Answer' = Answer  BY <1>11 DEF vars, Asked, Answer
  <2> QED BY <1>11, <2>1 DEF vars, Reads!svars
<1> QED BY <1>2, <1>3, <1>4, <1>5, <1>6, <1>7, <1>8, <1>9, <1>10, <1>11 DEF Next

\* GET of a collection, with its shared queryset, implements SnapshotRead.
THEOREM CollectionImplementsReads == Spec => ImplementsReads
<1>1. Init => Reads!SInit
      BY DEF Init, Reads!SInit, Asked, Answer
<1>2. IInv /\ [Next]_vars => [Reads!SNext]_(Reads!svars)
      BY StepRefines
<1> QED BY <1>1, <1>2, Invariance, PTL DEF Spec, ImplementsReads, Reads!SSpec
=============================================================================
