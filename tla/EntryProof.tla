----------------------------- MODULE EntryProof -----------------------------
(***************************************************************************)
(* Theorems about the two checks a request passes before it is handled:    *)
(* Throttle, for every set of workers and identifiers and for every limit  *)
(* and timeframe; and Auth, for every set of users, keys and credentials,  *)
(* and for chains of any length.                                           *)
(***************************************************************************)
EXTENDS Throttle, Auth, TLAPS

-----------------------------------------------------------------------------
(***************************************************************************)
(*                                Throttle                                 *)
(***************************************************************************)
USE ThrottleAssumption

\* However often the workers overwrite each other's entries, a count that is
\* stored or held is vouched for by grants: the counts lag behind, and so a
\* refusal, which takes ThrottleAt counted requests, is never premature.
IInv == TypeOK /\ CountsAreVouched /\ NoPrematureRefusal

LEMMA InitInv == Init => IInv
<1> SUFFICES ASSUME Init PROVE IInv  OBVIOUS
<1>1. TypeOK  BY DEF Init, TypeOK, Counts, Stages, Times
<1>2. CountsAreVouched  BY DEF Init, CountsAreVouched, Deciding
<1>3. NoPrematureRefusal  BY DEF Init, NoPrematureRefusal
<1> QED BY <1>1, <1>2, <1>3 DEF IInv

LEMMA KeyType == ASSUME TypeOK, NEW w \in Workers PROVE Key(w) \in Keys
BY DEF TypeOK, Key, Keys

LEMMA AskInv ==
    ASSUME IInv, NEW w \in Workers, NEW i \in Identifiers, Ask(w, i) PROVE IInv'
<1> USE DEF IInv
<1>1. TypeOK'  BY DEF TypeOK, Ask, Stages
<1>2. UNCHANGED <<now, cache, count, expires, wait, grants>> /\ pc'[w] = "get"
      BY DEF Ask, TypeOK
<1>3. ASSUME NEW v \in Workers, v # w PROVE pc'[v] = pc[v] /\ Key(v)' = Key(v)
      BY <1>3 DEF Ask, Key, TypeOK
<1>4. CountsAreVouched'
      BY <1>2, <1>3 DEF CountsAreVouched, Covered, Deciding
<1>5. NoPrematureRefusal'
      BY <1>2, <1>3 DEF NoPrematureRefusal
<1> QED BY <1>1, <1>4, <1>5

LEMMA GetInv == ASSUME IInv, NEW w \in Workers, Get(w) PROVE IInv'
<1> USE DEF IInv
<1>1. UNCHANGED <<now, cache, who, wait, asked, grants>> /\ pc'[w] = "check"
      BY DEF Get, FromOne, TypeOK
<1>2. ASSUME NEW v \in Workers, v # w
      PROVE  pc'[v] = pc[v] /\ count'[v] = count[v] /\ expires'[v] = expires[v]
      BY <1>2 DEF Get, FromOne, TypeOK
<1>3. \/ count'[w] = 1 /\ expires'[w] = None
      \/ /\ cache[Key(w)] \in Entry
         /\ count'[w] = cache[Key(w)].count /\ expires'[w] = cache[Key(w)].expiration
      BY KeyType DEF Get, FromOne, TypeOK
<1>4. count' \in [Workers -> Counts] /\ expires' \in [Workers -> Times \cup {None}]
  <2>1. count'[w] \in Counts /\ expires'[w] \in Times \cup {None}
        BY <1>3 DEF Entry, Counts
  <2> QED BY <2>1 DEF Get, FromOne, TypeOK
<1>5. TypeOK'  BY <1>1, <1>4 DEF TypeOK, Get, FromOne, Stages
<1>6. CountsAreVouched'
  <2>1. expires'[w] # None => Covered(Key(w), count'[w], expires'[w])
        BY <1>3, KeyType DEF CountsAreVouched, Entry
  <2>2. expires'[w] = None => count'[w] = 1
        BY <1>3 DEF Entry, Times
  <2> QED BY <1>1, <1>2, <2>1, <2>2 DEF CountsAreVouched, Covered, Deciding, Key
<1>7. NoPrematureRefusal'
      BY <1>1, <1>2 DEF NoPrematureRefusal, Key
<1> QED BY <1>5, <1>6, <1>7

LEMMA CheckInv == ASSUME IInv, NEW w \in Workers, Check(w) PROVE IInv'
<1> USE DEF IInv
<1> DEFINE e == IF expires[w] = None THEN now + Timeframe ELSE expires[w]
<1>1. /\ UNCHANGED <<now, cache, who, count, asked, grants>>
      /\ expires' = [expires EXCEPT ![w] = e] /\ wait' = [wait EXCEPT ![w] = e - now]
      /\ pc[w] = "check" /\ pc'[w] \in Deciding
      /\ pc'[w] = "refused" => AtLimit(count[w]) /\ e > now
      BY DEF Check, Expiration, TypeOK, Deciding
<1>2. e \in Times /\ now \in Nat /\ e <= now + Timeframe
  <2>1. now \in 0..MaxTime /\ expires[w] \in Times \cup {None}  BY DEF TypeOK
  <2>2. CASE expires[w] = None  BY <2>1, <2>2 DEF Times
  <2>3. CASE expires[w] # None
    <3>1. Covered(Key(w), count[w], expires[w])  BY <1>1, <2>3 DEF CountsAreVouched
    <3> QED BY <2>1, <2>3, <3>1 DEF Covered
  <2> QED BY <2>2, <2>3
<1>3. grants[Key(w)] \in [Times -> Nat] /\ count[w] \in Nat  BY KeyType DEF TypeOK, Counts
<1>4. Covered(Key(w), count[w], e)
      BY <1>1, <1>2, <1>3 DEF CountsAreVouched, Covered
<1>5. TypeOK'  BY <1>1, <1>2 DEF TypeOK, Check, Expiration, Stages, Times
<1>6. CountsAreVouched'
  <2>1. expires'[w] = e /\ wait'[w] = e - now  BY <1>1 DEF TypeOK
  <2>2. e # None /\ e - now <= Timeframe  BY <1>2 DEF Times
  <2>3. ASSUME NEW v \in Workers, v # w
        PROVE  pc'[v] = pc[v] /\ expires'[v] = expires[v] /\ wait'[v] = wait[v]
        BY <2>3, <1>1 DEF Check, Expiration, TypeOK
  <2> QED BY <1>1, <1>4, <2>1, <2>2, <2>3 DEF CountsAreVouched, Covered, Deciding, Key
<1>7. NoPrematureRefusal'
  <2>1. ASSUME pc'[w] = "refused", ThrottleAt # None
        PROVE  grants[Key(w)][e] >= ThrottleAt - 1 /\ e - now \in 1..Timeframe
    <3>1. ThrottleAt \in Nat /\ count[w] >= ThrottleAt  BY <2>1, <1>1 DEF AtLimit
    <3>2. grants[Key(w)][e] \in Nat /\ count[w] - 1 <= grants[Key(w)][e]
          BY <1>2, <1>3, <1>4 DEF Covered
    <3>3. e \in Nat /\ e > now  BY <2>1, <1>1, <1>2 DEF Times
    <3> HIDE DEF e
    <3> QED BY <1>2, <1>3, <3>1, <3>2, <3>3
  <2>2. expires'[w] = e /\ wait'[w] = e - now  BY <1>1 DEF TypeOK
  <2>3. ASSUME NEW v \in Workers, v # w
        PROVE  pc'[v] = pc[v] /\ expires'[v] = expires[v] /\ wait'[v] = wait[v]
        BY <2>3, <1>1 DEF Check, Expiration, TypeOK
  <2> QED BY <1>1, <2>1, <2>2, <2>3 DEF NoPrematureRefusal, Key
<1> QED BY <1>5, <1>6, <1>7

LEMMA SetInv == ASSUME IInv, NEW w \in Workers, Set(w) PROVE IInv'
<1> USE DEF IInv
<1> DEFINE stored == [count |-> count[w] + 1, expiration |-> expires[w],
                     deadline |-> now + wait[w]]
<1>1. /\ UNCHANGED <<now, who, count, expires, wait, asked>>
      /\ pc[w] = "set" /\ pc' = [pc EXCEPT ![w] = "granted"]
      BY DEF Set, NextCount
<1>2. /\ expires[w] \in Times /\ count[w] \in Counts /\ Key(w) \in Keys
      /\ Covered(Key(w), count[w], expires[w])
      BY <1>1, KeyType DEF TypeOK, CountsAreVouched, Deciding
<1>3. stored \in Entry  BY <1>2 DEF Entry, Counts, TypeOK
<1>4. \/ UNCHANGED grants
      \/ grants' = [grants EXCEPT ![Key(w)][expires[w]] = @ + 1]
      BY DEF Set, NextCount
<1>5. grants' \in [Keys -> [Times -> Nat]]
  <2>1. grants \in [Keys -> [Times -> Nat]]  BY DEF TypeOK
  <2>2. [grants[Key(w)] EXCEPT ![expires[w]] = @ + 1] \in [Times -> Nat]
        BY <1>2, <2>1
  <2> QED BY <1>2, <1>4, <2>1, <2>2
<1>6. \A k \in Keys, f \in Times : grants'[k][f] >= grants[k][f]
  <2>1. grants \in [Keys -> [Times -> Nat]]  BY DEF TypeOK
  <2> QED BY <1>2, <1>4, <2>1
<1>7. cache' \in [Keys -> Entry \cup {None}]  BY <1>2, <1>3 DEF Set, NextCount, TypeOK
<1>8. TypeOK'  BY <1>1, <1>5, <1>7 DEF TypeOK, Stages
<1>9. ASSUME NEW k \in Keys, cache'[k] # None
      PROVE  Covered(k, cache[k].count, cache[k].expiration)'
  <2>1. CASE cache'[k] = cache[k]
    <3>1. cache[k] \in Entry  BY <2>1, <1>9 DEF TypeOK
    <3>2. cache[k].count \in Nat /\ cache[k].expiration \in Times
          BY <3>1 DEF Entry, Counts
    <3>3. Covered(k, cache[k].count, cache[k].expiration)
          BY <2>1, <1>9 DEF CountsAreVouched
    <3>4. /\ grants[k][cache[k].expiration] \in Nat
          /\ grants'[k][cache[k].expiration] \in Nat
          /\ grants'[k][cache[k].expiration] >= grants[k][cache[k].expiration]
          BY <3>2, <1>5, <1>6 DEF TypeOK
    <3>5. cache[k].count - 1 <= grants'[k][cache[k].expiration]
          BY <3>2, <3>3, <3>4 DEF Covered
    <3>6. cache[k].expiration <= now' + Timeframe  BY <1>1, <3>3 DEF Covered
    <3> QED BY <2>1, <3>5, <3>6 DEF Covered
  <2>2. CASE cache'[k] # cache[k]
    <3>1. k = Key(w) /\ cache'[k] = stored
          BY <2>2, <1>2, <1>9 DEF Set, NextCount, TypeOK
    <3>2. grants' = [grants EXCEPT ![Key(w)][expires[w]] = @ + 1]
          BY <3>1, <1>3, <1>9, <1>2 DEF Set, NextCount, TypeOK
    <3>3. grants'[k][expires[w]] = grants[k][expires[w]] + 1
          BY <3>1, <3>2, <1>2 DEF TypeOK
    <3>4. grants[k] \in [Times -> Nat]  BY DEF TypeOK
    <3>5. count[w] \in Nat /\ count[w] - 1 <= grants[k][expires[w]]
          BY <1>2, <3>1 DEF Covered, Counts
    <3>6. grants[k][expires[w]] \in Nat  BY <1>2, <3>4
    <3>7. cache'[k].count = count[w] + 1 /\ cache'[k].expiration = expires[w]
          BY <3>1
    <3>8. cache'[k].count - 1 <= grants'[k][cache'[k].expiration]
          BY <3>3, <3>5, <3>6, <3>7
    <3>9. cache'[k].expiration <= now' + Timeframe  BY <1>1, <1>2, <3>7 DEF Covered
    <3> QED BY <3>8, <3>9 DEF Covered
  <2> QED BY <2>1, <2>2
<1>10. \A v \in Workers : pc'[v] \in {"check", "refused"} \cup {"set"} => pc'[v] = pc[v]
       BY <1>1 DEF TypeOK
<1>11. ASSUME NEW v \in Workers, pc'[v] \in {"check", "set", "refused"}, expires[v] # None
       PROVE  Covered(Key(v), count[v], expires[v])'
  <2>1. Covered(Key(v), count[v], expires[v])
        BY <1>10, <1>11 DEF CountsAreVouched, Deciding
  <2>2. /\ Key(v) \in Keys /\ Key(v)' = Key(v) /\ expires[v] \in Times /\ count[v] \in Nat
        /\ grants[Key(v)] \in [Times -> Nat] /\ grants'[Key(v)] \in [Times -> Nat]
        BY <1>1, <1>5, <1>11, KeyType DEF TypeOK, Key, Counts
  <2> QED BY <1>1, <1>6, <2>1, <2>2 DEF Covered
<1>12. CountsAreVouched'
  <2>1. ASSUME NEW v \in Workers
        PROVE  /\ (pc'[v] = "check" /\ expires'[v] = None) => count'[v] = 1
               /\ pc'[v] \in Deciding => expires'[v] # None /\ wait'[v] <= Timeframe
        BY <1>1, <1>10 DEF CountsAreVouched, Deciding
  <2>2. ASSUME NEW v \in Workers, pc'[v] \in {"check"} \cup Deciding, expires'[v] # None
        PROVE  Covered(Key(v), count[v], expires[v])'
        BY <1>1, <1>11, <2>2 DEF Deciding
  <2> QED BY <1>9, <2>1, <2>2 DEF CountsAreVouched
<1>13. NoPrematureRefusal'
  <2> SUFFICES ASSUME NEW v \in Workers, pc'[v] = "refused", ThrottleAt # None
               PROVE  /\ grants'[Key(v)][expires[v]] >= ThrottleAt - 1
                      /\ wait[v] \in 1..Timeframe
      BY <1>1 DEF NoPrematureRefusal, Key
  <2>1. pc[v] = "refused"  BY <1>10
  <2>2. grants[Key(v)][expires[v]] >= ThrottleAt - 1 /\ wait[v] \in 1..Timeframe
        BY <2>1 DEF NoPrematureRefusal
  <2>3. Key(v) \in Keys /\ expires[v] \in Times
        BY <2>1, KeyType DEF CountsAreVouched, Deciding, TypeOK
  <2>4. grants[Key(v)][expires[v]] \in Nat /\ grants'[Key(v)][expires[v]] \in Nat
        BY <2>3, <1>5 DEF TypeOK
  <2> QED BY <1>6, <2>2, <2>3, <2>4
<1> QED BY <1>8, <1>12, <1>13

LEMMA OthersInv ==
    ASSUME IInv, Tick \/ (\E k \in Keys : Evict(k)) \/ UNCHANGED vars PROVE IInv'
<1> USE DEF IInv, local
<1>1. CASE Tick
  <2>1. TypeOK'  BY <1>1 DEF Tick, TypeOK
  <2>2. now \in Nat /\ now' = now + 1
        /\ UNCHANGED <<cache, pc, who, count, expires, wait, grants>>
        BY <1>1 DEF Tick, TypeOK
  <2>3. CountsAreVouched'
    <3>1. ASSUME NEW k \in Keys, NEW c, NEW f \in Times, Covered(k, c, f)
          PROVE  Covered(k, c, f)'
          BY <2>2, <3>1 DEF Covered, Times
    <3>2. \A k \in Keys : cache[k] # None => cache[k].expiration \in Times
          BY DEF TypeOK, Entry
    <3>3. \A w \in Workers : expires[w] # None => expires[w] \in Times
          BY DEF TypeOK
    <3>4. \A w \in Workers : Key(w)' = Key(w) /\ Key(w) \in Keys
          BY <2>2, KeyType DEF Key
    <3> QED BY <2>2, <3>1, <3>2, <3>3, <3>4 DEF CountsAreVouched, Deciding
  <2>4. NoPrematureRefusal'  BY <2>2 DEF NoPrematureRefusal, Key
  <2> QED BY <2>1, <2>3, <2>4
<1>2. CASE \E k \in Keys : Evict(k)
  <2>1. PICK k \in Keys : Evict(k)  BY <1>2
  <2>2. TypeOK'  BY <2>1 DEF Evict, TypeOK
  <2>3. CountsAreVouched'  BY <2>1 DEF Evict, CountsAreVouched, Covered, Key, TypeOK
  <2>4. NoPrematureRefusal'  BY <2>1 DEF Evict, NoPrematureRefusal, Key
  <2> QED BY <2>2, <2>3, <2>4
<1>3. CASE UNCHANGED vars
      BY <1>3 DEF vars, TypeOK, CountsAreVouched, Covered, NoPrematureRefusal, Key, Deciding
<1> QED BY <1>1, <1>2, <1>3

LEMMA StepInv == IInv /\ [Next]_vars => IInv'
BY AskInv, GetInv, CheckInv, SetInv, OthersInv DEF Next

LEMMA Invariance == Spec => []IInv
BY InitInv, StepInv, PTL DEF Spec

\* Every variable keeps its type, in particular every count and expiration
\* that the cache returns is a number of requests and a time.
THEOREM TypeCorrect == Spec => []TypeOK
<1>1. IInv => TypeOK  BY DEF IInv
<1> QED BY <1>1, Invariance, PTL

\* A count never runs ahead of the requests granted in its window.
THEOREM CountsVouched == Spec => []CountsAreVouched
<1>1. IInv => CountsAreVouched  BY DEF IInv
<1> QED BY <1>1, Invariance, PTL

\* No request is refused before ThrottleAt - 1 requests of its key have been
\* granted inside the window, whatever the interleaving, evictions and delays.
THEOREM NeverPremature == Spec => []NoPrematureRefusal
<1>1. IInv => NoPrematureRefusal  BY DEF IInv
<1> QED BY <1>1, Invariance, PTL

-----------------------------------------------------------------------------
\* One worker, a cache that keeps its entries, a limit that lets something in.
OneWorker ==
    /\ \A v, w \in Workers : v = w
    /\ ~Evicts
    /\ ThrottleAt \in Nat \ {0}

SInv == IInv /\ WindowLimit /\ WindowsAreDisjoint /\ CacheIsExact

LEMMA SerialInit == ASSUME OneWorker, Init PROVE SInv
<1>1. IInv  BY InitInv
<1>2. \A k \in Keys, e \in Times : grants[k][e] = 0  BY DEF Init
<1>3. ThrottleAt \in Nat \ {0}  BY DEF OneWorker
<1>4. WindowLimit /\ WindowsAreDisjoint  BY <1>2, <1>3 DEF WindowLimit, WindowsAreDisjoint
<1>5. CacheIsExact
  <2>1. \A k \in Keys : cache[k] = None /\ Ended(k)  BY <1>2 DEF Init, Ended
  <2>2. \A w \in Workers : pc[w] = "idle"  BY DEF Init
  <2> QED BY <2>1, <2>2 DEF CacheIsExact
<1> QED BY <1>1, <1>4, <1>5 DEF SInv

\* The limit and the windows are about grants alone.
LEMMA GrantsFrame ==
    ASSUME WindowLimit, WindowsAreDisjoint, UNCHANGED grants
    PROVE  WindowLimit' /\ WindowsAreDisjoint'
BY DEF WindowLimit, WindowsAreDisjoint

LEMMA SerialAsk ==
    ASSUME OneWorker, SInv, NEW w \in Workers, NEW i \in Identifiers, Ask(w, i) PROVE SInv'
<1> USE DEF SInv
<1>1. IInv'  BY AskInv
<1>2. UNCHANGED <<now, cache, grants>> /\ pc'[w] = "get"
      BY DEF Ask, IInv, TypeOK
<1>3. \A v \in Workers : pc'[v] = "get"  BY <1>2 DEF OneWorker
<1>4. CacheIsExact'  BY <1>2, <1>3 DEF CacheIsExact, Ended, LastWindow
<1> QED BY <1>1, <1>2, <1>4, GrantsFrame

LEMMA SerialGet == ASSUME OneWorker, SInv, NEW w \in Workers, Get(w) PROVE SInv'
<1> USE DEF SInv
<1>1. IInv'  BY GetInv
<1>2. TypeOK /\ Key(w) \in Keys /\ ThrottleAt \in Nat \ {0}  BY KeyType DEF IInv, OneWorker
<1>3. UNCHANGED <<now, cache, who, grants>> /\ pc'[w] = "check"
      BY <1>2 DEF Get, FromOne, TypeOK
<1>4. CASE expires'[w] = None
  <2>1. cache[Key(w)] = None \/ (cache[Key(w)] \in Entry /\ cache[Key(w)].deadline <= now)
        BY <1>2, <1>4 DEF Get, FromOne, TypeOK, Entry, Times
  <2>2. Ended(Key(w))
    <3>1. CASE cache[Key(w)] = None  BY <1>2, <3>1 DEF CacheIsExact
    <3>2. CASE cache[Key(w)] # None
      <4> DEFINE x == cache[Key(w)].expiration
      <4>1. x <= cache[Key(w)].deadline /\ LastWindow(Key(w), x)
            BY <1>2, <3>2 DEF CacheIsExact
      <4>2. x \in Nat /\ cache[Key(w)].deadline \in Int /\ cache[Key(w)].deadline <= now
            /\ now \in Nat
            BY <1>2, <2>1, <3>2 DEF Entry, Times, TypeOK
      <4>3. x <= now  BY <4>1, <4>2
      <4> HIDE DEF x
      <4> QED BY <1>2, <4>1, <4>2, <4>3 DEF Ended, LastWindow, Times
    <3> QED BY <3>1, <3>2
  <2> QED BY <1>1, <1>2, <1>3, <1>4, <2>2, GrantsFrame
          DEF CacheIsExact, Ended, LastWindow, Key, OneWorker
<1>5. CASE expires'[w] # None
  <2>1. /\ cache[Key(w)] # None
        /\ cache[Key(w)].expiration = expires'[w] /\ cache[Key(w)].count = count'[w]
        BY <1>2, <1>5 DEF Get, FromOne, TypeOK
  <2> QED BY <1>1, <1>2, <1>3, <1>5, <2>1, GrantsFrame
          DEF CacheIsExact, Ended, LastWindow, Key, OneWorker
<1> QED BY <1>4, <1>5

LEMMA SerialCheck == ASSUME OneWorker, SInv, NEW w \in Workers, Check(w) PROVE SInv'
<1> USE DEF SInv
<1> DEFINE e == IF expires[w] = None THEN now + Timeframe ELSE expires[w]
<1>1. IInv'  BY CheckInv
<1>2. /\ TypeOK /\ Key(w) \in Keys /\ ThrottleAt \in Nat \ {0} /\ now \in Nat
      /\ grants[Key(w)] \in [Times -> Nat] /\ count[w] \in Nat
      BY KeyType DEF IInv, OneWorker, TypeOK, Counts
<1>3. /\ UNCHANGED <<now, cache, who, count, grants>>
      /\ pc[w] = "check" /\ pc'[w] = IF AtLimit(count[w]) /\ e > now THEN "refused" ELSE "set"
      /\ expires'[w] = e /\ wait'[w] = e - now
      BY <1>2 DEF Check, Expiration, TypeOK
<1>4. e \in Times
      BY <1>1, <1>2, <1>3 DEF IInv, TypeOK, CountsAreVouched, Deciding
<1>5. ASSUME e > now, pc'[w] = "set"
      PROVE  /\ grants[Key(w)][e] = count[w] - 1 /\ LastWindow(Key(w), e)
             /\ count[w] < ThrottleAt
  <2>1. count[w] < ThrottleAt  BY <1>2, <1>3, <1>5 DEF AtLimit
  <2>2. CASE expires[w] = None
    <3>1. Ended(Key(w)) /\ count[w] = 1
          BY <1>2, <1>3, <2>2 DEF CacheIsExact, IInv, CountsAreVouched
    <3>2. grants[Key(w)][e] \in Nat /\ ~(grants[Key(w)][e] > 0)
          BY <1>2, <1>4, <1>5, <3>1 DEF Ended, Times
    <3>3. e = now + Timeframe  BY <2>2
    <3>4. LastWindow(Key(w), e)  BY <1>2, <3>1, <3>3 DEF Ended, LastWindow, Times
    <3> QED BY <2>1, <3>1, <3>2, <3>4
  <2>3. CASE expires[w] # None
    <3>1. /\ cache[Key(w)] # None
          /\ cache[Key(w)].expiration = e /\ cache[Key(w)].count = count[w]
          BY <1>2, <1>3, <2>3 DEF CacheIsExact
    <3> QED BY <1>2, <2>1, <3>1 DEF CacheIsExact
  <2> QED BY <2>2, <2>3
<1>6. ASSUME e <= now, pc'[w] = "set"
      PROVE  /\ cache[Key(w)] # None
             /\ cache[Key(w)].expiration = e /\ cache[Key(w)].count = count[w]
  <2>1. expires[w] # None  BY <1>2, <1>6
  <2> QED BY <1>2, <1>3, <2>1 DEF CacheIsExact
<1>7. CacheIsExact'
  <2>1. \A v \in Workers : v = w  BY DEF OneWorker
  <2>2. e \in Nat /\ pc'[w] \in {"set", "refused"}  BY <1>3, <1>4 DEF Times
  <2>3. ASSUME pc'[w] = "set", wait'[w] <= 0 PROVE e <= now
        BY <1>2, <1>3, <2>2, <2>3
  <2>4. ASSUME pc'[w] = "set", wait'[w] > 0 PROVE e > now /\ e <= now + wait'[w]
        BY <1>2, <1>3, <2>2, <2>4
  <2>5. Key(w)' = Key(w)  BY <1>3 DEF Key
  <2>6. \A k \in Keys :
          /\ cache[k] = None => Ended(k)
          /\ cache[k] # None =>
                /\ grants[k][cache[k].expiration] = cache[k].count - 1
                /\ cache[k].expiration <= cache[k].deadline
                /\ LastWindow(k, cache[k].expiration)
        BY <1>2 DEF CacheIsExact
  <2> HIDE DEF e
  <2> QED BY <1>3, <1>5, <1>6, <2>1, <2>2, <2>3, <2>4, <2>5, <2>6
          DEF CacheIsExact, Ended, LastWindow
<1> QED BY <1>1, <1>3, <1>7, GrantsFrame

LEMMA SerialSet == ASSUME OneWorker, SInv, NEW w \in Workers, Set(w) PROVE SInv'
<1> USE DEF SInv
<1> DEFINE k == Key(w)
           e == expires[w]
<1>1. IInv'  BY SetInv
<1>2. /\ TypeOK /\ k \in Keys /\ ThrottleAt \in Nat \ {0} /\ now \in Nat
      /\ grants \in [Keys -> [Times -> Nat]] /\ count[w] \in Nat \ {0}
      /\ cache \in [Keys -> Entry \cup {None}] /\ wait[w] \in Int
      BY KeyType DEF IInv, OneWorker, TypeOK, Counts
<1>3. /\ pc[w] = "set" /\ pc'[w] = "granted" /\ now' = now
      /\ e \in Times /\ e <= now + Timeframe
      BY <1>2 DEF Set, NextCount, TypeOK, IInv, CountsAreVouched, Deciding, Covered
<1>4. \A v \in Workers : pc'[v] = "granted"  BY <1>3 DEF OneWorker
<1>7. k' = k /\ e' = e  BY DEF Set, NextCount, Key
<1>5. CASE wait[w] > 0
  <2>1. /\ grants[k][e] = count[w] - 1 /\ count[w] < ThrottleAt
        /\ e <= now + wait[w] /\ LastWindow(k, e)
        BY <1>2, <1>3, <1>5 DEF CacheIsExact
  <2>2. /\ grants' = [grants EXCEPT ![k][e] = @ + 1]
        /\ cache' = [cache EXCEPT ![k] = [count |-> count[w] + 1, expiration |-> e,
                                          deadline |-> now + wait[w]]]
        BY <1>5 DEF Set, NextCount
  <2> HIDE DEF k, e
  <2>3. /\ grants'[k][e] = count[w]
        /\ \A f \in Times \ {e} : grants'[k][f] = grants[k][f]
        /\ \A j \in Keys \ {k} : grants'[j] = grants[j] /\ cache'[j] = cache[j]
        /\ cache'[k] = [count |-> count[w] + 1, expiration |-> e, deadline |-> now + wait[w]]
        BY <1>2, <1>3, <2>1, <2>2
  <2>4. WindowLimit'
    <3> SUFFICES ASSUME NEW j \in Keys, NEW f \in Times
                 PROVE  grants'[j][f] <= ThrottleAt - 1
        BY DEF WindowLimit
    <3>1. CASE j = k /\ f = e  BY <1>2, <2>1, <2>3, <3>1
    <3>2. CASE ~(j = k /\ f = e)  BY <1>2, <2>3, <3>2 DEF WindowLimit
    <3> QED BY <3>1, <3>2
  <2>5. WindowsAreDisjoint'
    <3> SUFFICES ASSUME NEW j \in Keys, NEW f \in Times, NEW g \in Times,
                        grants'[j][f] > 0, grants'[j][g] > 0, f < g
                 PROVE  f + Timeframe <= g
        BY DEF WindowsAreDisjoint
    <3>1. CASE j # k  BY <2>3, <3>1 DEF WindowsAreDisjoint
    <3>2. CASE j = k /\ f # e /\ g # e  BY <2>3, <3>2 DEF WindowsAreDisjoint
    <3>3. CASE j = k /\ g = e  BY <2>1, <2>3, <3>3 DEF LastWindow, Times
    <3>4. CASE j = k /\ f = e
      <4>1. g + Timeframe <= e  BY <2>1, <2>3, <3>4 DEF LastWindow, Times
      <4> QED BY <3>4, <4>1 DEF Times
    <3> QED BY <3>1, <3>2, <3>3, <3>4
  <2>6. ASSUME NEW j \in Keys
        PROVE  /\ cache'[j] = None => Ended(j)'
               /\ cache'[j] # None =>
                    /\ grants'[j][cache'[j].expiration] = cache'[j].count - 1
                    /\ cache'[j].expiration <= cache'[j].deadline
                    /\ LastWindow(j, cache[j].expiration)'
    <3>1. CASE j # k
      <4>1. grants'[j] = grants[j] /\ cache'[j] = cache[j]  BY <2>3, <3>1
      <4>2. Ended(j) => Ended(j)'  BY <1>3, <4>1 DEF Ended
      <4>3. LastWindow(j, cache[j].expiration) => LastWindow(j, cache[j].expiration)'
            BY <4>1 DEF LastWindow
      <4> QED BY <1>2, <4>1, <4>2, <4>3 DEF CacheIsExact
    <3>2. CASE j = k
      <4>1. cache'[k] # None
        <5>1. cache'[k] \in Entry  BY <1>2, <1>3, <2>3 DEF Entry, Counts
        <5> QED BY <5>1
      <4>2. /\ cache'[k].expiration = e /\ cache'[k].count = count[w] + 1
            /\ cache'[k].deadline = now + wait[w]
            BY <2>3
      <4>3. LastWindow(k, cache[k].expiration)'
            BY <1>7, <2>1, <2>3, <4>2 DEF LastWindow
      <4>4. /\ grants'[j][cache'[j].expiration] = cache'[j].count - 1
            /\ cache'[j].expiration <= cache'[j].deadline
        <5>1. count[w] \in Int /\ (count[w] + 1) - 1 = count[w]  BY <1>2
        <5>2. grants'[k][e] = count[w] /\ e <= now + wait[w]  BY <2>1, <2>3
        <5> QED BY <3>2, <4>2, <5>1, <5>2
      <4>5. LastWindow(j, cache[j].expiration)'
            BY <1>7, <3>2, <4>3 DEF LastWindow
      <4> QED BY <3>2, <4>1, <4>4, <4>5
    <3> QED BY <3>1, <3>2
  <2>7. CacheIsExact'  BY <1>4, <2>6 DEF CacheIsExact
  <2> QED BY <1>1, <2>4, <2>5, <2>7
<1>6. CASE ~(wait[w] > 0)
  <2>1. /\ cache[k] # None /\ cache[k].expiration = e /\ e <= now
        /\ LastWindow(k, e)
        BY <1>2, <1>3, <1>6 DEF CacheIsExact
  <2>2. UNCHANGED grants /\ cache' = [cache EXCEPT ![k] = None]
        BY <1>6 DEF Set, NextCount
  <2> HIDE DEF k, e
  <2>3. Ended(k)
    <3> SUFFICES ASSUME NEW f \in Times, grants[k][f] > 0 PROVE f <= now  BY DEF Ended
    <3>1. CASE f = e  BY <2>1, <3>1
    <3>2. CASE f # e
      <4>1. f + Timeframe <= e  BY <2>1, <3>2 DEF LastWindow
      <4> QED BY <1>2, <1>3, <2>1, <4>1 DEF Times
    <3> QED BY <3>1, <3>2
  <2>4. CacheIsExact'
        BY <1>2, <1>3, <1>4, <2>2, <2>3 DEF CacheIsExact, Ended, LastWindow
  <2> QED BY <1>1, <2>2, <2>4, GrantsFrame
<1> QED BY <1>5, <1>6

LEMMA SerialOthers ==
    ASSUME OneWorker, SInv, Tick \/ (\E k \in Keys : Evict(k)) \/ UNCHANGED vars PROVE SInv'
<1> USE DEF SInv
<1>1. IInv'  BY OthersInv
<1>2. CASE Tick
  <2>1. now' = now + 1 /\ UNCHANGED <<cache, pc, who, count, expires, wait, grants>>
        BY <1>2 DEF Tick, local
  <2>2. now \in Nat /\ \A w \in Workers : expires[w] \in Times \cup {None} /\ wait[w] \in Int
        BY DEF IInv, TypeOK
  <2>3. \A k \in Keys : Ended(k) => Ended(k)'  BY <2>1, <2>2 DEF Ended, Times
  <2>4. \A k \in Keys : \A e : LastWindow(k, e) => LastWindow(k, e)'  BY <2>1 DEF LastWindow
  <2>5. \A w \in Workers : Key(w)' = Key(w) /\ Key(w) \in Keys
        BY <2>1, KeyType DEF Key, IInv
  <2>6. ASSUME NEW w \in Workers, pc[w] = "set"
        PROVE  /\ expires[w] <= now => expires[w] <= now'
               /\ expires[w] <= now + wait[w] => expires[w] <= now' + wait[w]
    <3>1. expires[w] \in Nat
          BY <2>2, <2>6 DEF IInv, CountsAreVouched, Deciding, Times
    <3> QED BY <2>1, <2>2, <3>1
  <2>7. CacheIsExact'
        BY <2>1, <2>3, <2>4, <2>5, <2>6 DEF CacheIsExact
  <2> QED BY <1>1, <2>1, <2>7, GrantsFrame
<1>3. CASE \E k \in Keys : Evict(k)  BY <1>3 DEF Evict, OneWorker
<1>4. CASE UNCHANGED vars
  <2>1. CacheIsExact'
        BY <1>4 DEF vars, CacheIsExact, Ended, LastWindow, Key
  <2> QED BY <1>1, <1>4, <2>1, GrantsFrame DEF vars
<1> QED BY <1>2, <1>3, <1>4

LEMMA SerialInvariance == ASSUME OneWorker PROVE Spec => []SInv
<1>1. Init => SInv  BY SerialInit
<1>2. SInv /\ [Next]_vars => SInv'
      BY SerialAsk, SerialGet, SerialCheck, SerialSet, SerialOthers DEF Next
<1> QED BY <1>1, <1>2, PTL DEF Spec

\* One worker at a time over a cache that keeps its entries grants at most
\* ThrottleAt - 1 requests of a key inside any window.
THEOREM SerialLimit == ASSUME OneWorker PROVE Spec => []WindowLimit
<1>1. SInv => WindowLimit  BY DEF SInv
<1> QED BY <1>1, SerialInvariance, PTL

\* Then the windows do not overlap either, so the limit holds per timeframe.
THEOREM SerialWindows == ASSUME OneWorker PROVE Spec => []WindowsAreDisjoint
<1>1. SInv => WindowsAreDisjoint  BY DEF SInv
<1> QED BY <1>1, SerialInvariance, PTL

\* The cache entry of the last window counts exactly what it has granted.
THEOREM SerialCache == ASSUME OneWorker PROVE Spec => []CacheIsExact
<1>1. SInv => CacheIsExact  BY DEF SInv
<1> QED BY <1>1, SerialInvariance, PTL

HIDE ThrottleAssumption

-----------------------------------------------------------------------------
(***************************************************************************)
(*                                  Auth                                   *)
(***************************************************************************)
USE AuthAssumption

\* Whom an authenticator accepts as a user is active, and whom it leaves behind
\* when it does not is inactive, or was there before.
LEMMA AttemptSound ==
    ASSUME NEW a \in Authenticators, NEW u
    PROVE  /\ (Attempt(a, u).result = "yes" /\ a # "Anonymous") => Active(Attempt(a, u).user)
           /\ (Attempt(a, u).result # "yes" \/ a = "Anonymous") =>
                 Attempt(a, u).user = u \/ ~Active(Attempt(a, u).user)
<1>1. CASE a = "Anonymous"  BY <1>1 DEF Attempt, Outcome
<1>2. CASE a = "UserLoggedIn"  BY <1>2 DEF Attempt, LoggedIn, Outcome
<1>3. CASE a = "Basic"  BY <1>3 DEF Attempt, Outcome, Raises
<1>4. CASE a = "User"  BY <1>4 DEF Attempt, Outcome
<1>5. CASE a = "AccessKey"  BY <1>5 DEF Attempt, Outcome, Raises
<1> QED BY <1>1, <1>2, <1>3, <1>4, <1>5 DEF Authenticators

\* The first part of AcceptedIsActive is kept by each turn.
LEMMA TryKeepsActive ==
    ASSUME AcceptedIsActive, NEW a \in Authenticators, Try(a) PROVE AcceptedIsActive'
<1>1. /\ user' = Attempt(a, user).user /\ stage = "trying" /\ UNCHANGED entry
      /\ identifier = Address /\ (user = entry \/ ~Active(user))
      BY DEF Try, AcceptedIsActive
<1>2. CASE Attempt(a, user).result = "yes"
  <2>1. stage' = "accepted" /\ auth' = a /\ identifier' = Configure(a)
        BY <1>2 DEF Try
  <2>2. CASE a = "Anonymous"
        BY <1>1, <1>2, <2>1, <2>2, AttemptSound DEF AcceptedIsActive, Configure, Active
  <2>3. CASE a # "Anonymous"
        BY <1>1, <1>2, <2>1, <2>3, AttemptSound DEF AcceptedIsActive, Configure, Active
  <2> QED BY <2>2, <2>3
<1>3. CASE Attempt(a, user).result # "yes"
  <2>1. stage' # "accepted" /\ identifier' = identifier
        BY <1>1, <1>3 DEF Try
  <2> QED BY <1>1, <1>3, <2>1, AttemptSound DEF AcceptedIsActive, Active
<1> QED BY <1>2, <1>3

\* Whoever is accepted was active when read (AcceptedIsActive), for every chain.
THEOREM AcceptedAreActive == AuthSpec => []AcceptedIsActive
<1>1. AuthInit => AcceptedIsActive  BY DEF AuthInit, AcceptedIsActive
<1>2. AcceptedIsActive /\ [AuthNext]_authVars => AcceptedIsActive'
  <2> SUFFICES ASSUME AcceptedIsActive, [AuthNext]_authVars PROVE AcceptedIsActive'  OBVIOUS
  <2>1. ASSUME UNCHANGED <<request, view>> PROVE AcceptedIsActive'
        BY <2>1 DEF AcceptedIsActive, Active, IsUser, request, view
  <2>2. CASE Arrive  BY <2>2 DEF Arrive, Call, AcceptedIsActive
  <2>3. CASE CallNested  BY <2>3 DEF CallNested, Call, AcceptedIsActive
  <2>4. CASE Pass  BY <2>4 DEF Pass, AcceptedIsActive, Active, IsUser, request
  <2>5. ASSUME NEW a \in Authenticators, Try(a) PROVE AcceptedIsActive'
        BY <2>5, TryKeepsActive
  <2>6. ASSUME NEW u \in Users, Edit(u) \/ CreateUser(u) PROVE AcceptedIsActive'
        BY <2>1, <2>6 DEF Edit, CreateUser, Change
  <2>7. ASSUME NEW u \in Users, NEW k \in AccessKeys,
               Grant(u, k) \/ Revoke(u, k) \/ CreateKey(u, k)
        PROVE  AcceptedIsActive'
        BY <2>1, <2>7 DEF Grant, Revoke, CreateKey, Change
  <2>8. CASE UNCHANGED authVars  BY <2>1, <2>8 DEF authVars
  <2> QED BY <2>2, <2>3, <2>4, <2>5, <2>6, <2>7, <2>8 DEF AuthNext
<1> QED BY <1>1, <1>2, PTL DEF AuthSpec

-----------------------------------------------------------------------------
\* There is a session where the user of one is still to be read.
LazyHasSession == user = Lazy => session # Nothing

TInv == AuthTypeOK /\ LazyHasSession

Accounts == [name : Users \cup {Guest}, active : BOOLEAN]

LEMMA ReadType == ASSUME NEW name \in Users \cup {Guest} PROVE Read(name) \in Accounts
BY DEF Read, Accounts

LEMMA AuthenticateType ==
    ASSUME AuthTypeOK, NEW login PROVE Authenticate(login) \in Accounts \cup {Nothing}
BY ReadType DEF Authenticate, AuthTypeOK

\* A key that is shown is in the header, or in the parameters of a request without.
LEMMA TokenShown ==
    ASSUME AuthTypeOK, NEW k \in AccessKeys, Token \in {k, <<"Token", k>>}
    PROVE  header = <<"Token", k>> \/ (header = Nothing /\ form.key = k)
<1>1. header \in AnyHeader /\ k \notin AnyHeader /\ form.key \in AccessKeys \cup {Nothing}
      BY DEF AuthTypeOK, AnyForm
<1>2. <<"Token", k>> \notin AccessKeys \cup {Nothing}
  <2>1. <<"Token", k>> \in AnyHeader /\ <<"Token", k>> # Nothing  BY DEF AnyHeader
  <2> QED BY <2>1
<1> QED BY <1>1, <1>2 DEF Token

LEMMA OwnerVouched == ASSUME AuthTypeOK, NEW u \in Owners PROVE Vouched(u)
BY TokenShown DEF Owners, Vouched

\* What an authenticator leaves in request.user is its value before, nobody, or an
\* account as it is in the database, for which something vouches.
LEMMA AttemptLeaves ==
    ASSUME TInv, NEW a \in Authenticators
    PROVE  LET after == Attempt(a, user).user
           IN  \/ after = user
               \/ after = Nothing
               \/ \E name \in Users \cup {Guest} : after = Read(name) /\ Vouched(name)
<1> DEFINE Fine(after) ==
       \/ after = user
       \/ after = Nothing
       \/ \E name \in Users \cup {Guest} : after = Read(name) /\ Vouched(name)
<1>0. AuthTypeOK /\ users \subseteq Users  BY DEF TInv, AuthTypeOK
<1>1. CASE a = "Anonymous"  BY <1>1 DEF Attempt, Outcome
<1>2. CASE a = "UserLoggedIn"
  <2>1. Attempt(a, user).user = Loaded(user)
        BY <1>2 DEF Attempt, LoggedIn, Outcome
  <2>2. CASE user = Lazy
    <3>1. session \in Users \cup {Guest}
          BY <2>2 DEF TInv, AuthTypeOK, LazyHasSession
    <3>2. Loaded(user) = Read(session) /\ Vouched(session)
          BY <2>2 DEF Loaded, Vouched
    <3> QED BY <2>1, <3>1, <3>2
  <2>3. CASE user # Lazy  BY <2>1, <2>3 DEF Loaded
  <2> QED BY <2>2, <2>3
<1>3. CASE a = "Basic"
  <2> DEFINE found == IF header # Nothing /\ header[1] = "Basic"
                      THEN Authenticate(<<header[2], header[3]>>) ELSE Nothing
  <2>1. Attempt(a, user).user \in {user, found}
        BY <1>3 DEF Attempt, Outcome, Raises
  <2>2. header = Malformed => Attempt(a, user).user = user
        BY <1>3 DEF Attempt, Raises
  <2>3. ASSUME header # Malformed, found # Nothing
        PROVE  \E name \in Users : found = Read(name) /\ Vouched(name)
    <3>1. header \in ({"Basic"} \X Users \X BOOLEAN) \cup ({"Token"} \X AccessKeys)
          BY <2>3 DEF TInv, AuthTypeOK, AnyHeader
    <3>2. header[1] = "Basic" /\ header[2] \in users /\ header[3] /\ found = Read(header[2])
          BY <2>3 DEF Authenticate
    <3>3. header \in {"Basic"} \X Users \X BOOLEAN
          BY <3>1, <3>2
    <3>4. header[3] = TRUE  BY <3>2, <3>3
    <3>5. header = <<"Basic", header[2], TRUE>>
      <4>1. header = <<header[1], header[2], header[3]>>  BY <3>3
      <4> QED BY <3>2, <3>4, <4>1
    <3> QED BY <1>0, <3>2, <3>5 DEF Vouched
  <2> QED BY <2>1, <2>2, <2>3
<1>4. CASE a = "User"
  <2>1. Attempt(a, user).user = Authenticate(form.login)
        BY <1>4 DEF Attempt, Outcome
  <2>2. form.login \in Logins  BY DEF TInv, AuthTypeOK, AnyForm
  <2>3. ASSUME Authenticate(form.login) # Nothing
        PROVE  \E name \in Users : Authenticate(form.login) = Read(name) /\ Vouched(name)
    <3>1. /\ form.login # Nothing /\ form.login[1] \in users /\ form.login[2]
          /\ Authenticate(form.login) = Read(form.login[1])
          BY <2>3 DEF Authenticate
    <3>2. form.login \in Users \X BOOLEAN  BY <2>2, <3>1 DEF Logins
    <3>3. form.login[2] = TRUE  BY <3>1, <3>2
    <3>4. form.login = <<form.login[1], TRUE>>
      <4>1. form.login = <<form.login[1], form.login[2]>>  BY <3>2
      <4> QED BY <3>3, <4>1
    <3> QED BY <1>0, <3>1, <3>4 DEF Vouched
  <2> QED BY <2>1, <2>3
<1>5. CASE a = "AccessKey"
  <2>1. CASE Owners = {} \/ \E o, p \in Owners : o # p
        BY <1>5, <2>1 DEF Attempt, Outcome, Raises
  <2>2. CASE Owners # {} /\ ~(\E o, p \in Owners : o # p)
    <3> DEFINE o == CHOOSE x \in Owners : TRUE
    <3>1. o \in Owners  BY <2>2
    <3>2. Attempt(a, user).user = Read(o)
          BY <1>5, <2>2 DEF Attempt, Outcome
    <3>3. o \in Users /\ Vouched(o)  BY <1>0, <3>1, OwnerVouched DEF Owners
    <3> QED BY <3>2, <3>3
  <2> QED BY <2>1, <2>2
<1> QED BY <1>1, <1>2, <1>3, <1>4, <1>5 DEF Authenticators

-----------------------------------------------------------------------------
\* The view's part of the type, for a view that starts.
LEMMA CallType ==
    ASSUME NEW c \in Chains, Call(c)
    PROVE  /\ chain' \in Chains /\ turn' \in Nat /\ turn' \in DOMAIN chain' /\ stage' = "trying"
           /\ auth' = Nothing /\ identifier' = Address
<1>1. c \in Seq(Authenticators) /\ c # <<>>  OBVIOUS
<1>2. 1 \in DOMAIN c  BY <1>1
<1> QED BY <1>2 DEF Call

LEMMA TryType == ASSUME TInv, NEW a \in Authenticators, Try(a) PROVE TInv'
<1> DEFINE attempt == Attempt(a, user)
<1>1. /\ stage = "trying" /\ user' = attempt.user
      /\ UNCHANGED <<users, active, keys, newcomers, changes, session, header, form, options,
                     chain, nested, entry>>
      BY DEF Try, database
<1>2. user' \in UserValues /\ (user' = Lazy => user = Lazy)
  <2>1. UserValues = {Nothing, Lazy} \cup Accounts /\ Lazy \notin Accounts \cup {Nothing}
        BY DEF UserValues, Accounts
  <2>2. user' = user \/ user' = Nothing \/ user' \in Accounts
        BY <1>1, AttemptLeaves, ReadType
  <2> QED BY <2>1, <2>2 DEF TInv, AuthTypeOK
<1>3. identifier' \in Users \cup {Guest, Address} /\ auth' \in Authenticators \cup {Nothing}
  <2>1. CASE attempt.result = "yes"
    <3>1. auth' = a /\ identifier' = Configure(a)  BY <2>1 DEF Try
    <3>2. a # "Anonymous" => user' \in Accounts
          BY <1>1, <1>2, <2>1, AttemptSound DEF Active, IsUser, UserValues, Accounts
    <3>3. CASE a = "Anonymous"  BY <3>1, <3>3 DEF Configure, TInv, AuthTypeOK
    <3>4. CASE a # "Anonymous"  BY <3>1, <3>2, <3>4 DEF Configure, Accounts
    <3> QED BY <3>1, <3>3, <3>4
  <2>2. CASE attempt.result # "yes"
        BY <2>2 DEF Try, TInv, AuthTypeOK
  <2> QED BY <2>1, <2>2
<1>4. /\ turn' \in Nat /\ (stage' = "trying" => turn' \in DOMAIN chain')
      /\ stage' \in {"trying", "accepted", "refused", "error"}
  <2>1. chain \in Seq(Authenticators) /\ turn \in DOMAIN chain
        BY <1>1 DEF TInv, AuthTypeOK
  <2>2. More => turn + 1 \in DOMAIN chain  BY <2>1 DEF More
  <2>3. turn \in Nat  BY DEF TInv, AuthTypeOK
  <2> QED BY <1>1, <2>1, <2>2, <2>3 DEF Try
<1> QED BY <1>1, <1>2, <1>3, <1>4 DEF TInv, AuthTypeOK, LazyHasSession

LEMMA TypeInvariant == AuthSpec => []TInv
<1>1. AuthInit => TInv
  <2> SUFFICES ASSUME AuthInit PROVE TInv  OBVIOUS
  <2>1. form \in AnyForm /\ header \in AnyHeader /\ user \in UserValues /\ entry \in UserValues
        BY DEF AuthInit, AnyForm, Logins, UserValues, AnyHeader
  <2>2. /\ users \subseteq Users /\ active \subseteq users /\ newcomers \subseteq users
        /\ keys \subseteq users \X AccessKeys /\ changes \in 0..MaxChanges
        BY DEF AuthInit
  <2>3. /\ session \in users \cup {Guest, Nothing} /\ options \in BOOLEAN /\ nested \in BOOLEAN
        /\ identifier \in Users \cup {Guest, Address} /\ auth \in Authenticators \cup {Nothing}
        BY DEF AuthInit
  <2>4. chain \in Chains \cup {<<>>} /\ turn \in Nat /\ stage = "idle"  BY DEF AuthInit
  <2>5. user # Lazy  BY DEF AuthInit
  <2> QED BY <2>1, <2>2, <2>3, <2>4, <2>5 DEF TInv, AuthTypeOK, LazyHasSession
<1>2. TInv /\ [AuthNext]_authVars => TInv'
  <2> SUFFICES ASSUME TInv, [AuthNext]_authVars PROVE TInv'  OBVIOUS
  <2> USE DEF TInv, LazyHasSession
  <2>1. ASSUME UNCHANGED <<request, view>>,
               users \subseteq users', users' \subseteq Users, active' \subseteq users',
               newcomers' \subseteq users', keys' \subseteq users' \X AccessKeys,
               changes' \in 0..MaxChanges
        PROVE  TInv'
        BY <2>1 DEF AuthTypeOK, request, view
  <2>2. CASE Arrive
    <3>1. PICK c \in Chains : Call(c)  BY <2>2 DEF Arrive
    <3>2. /\ user' \in {Nothing, Lazy} /\ entry' = user' /\ (user' = Lazy => session' # Nothing)
          /\ session' \in users \cup {Guest, Nothing} /\ header' \in AnyHeader
          /\ form' \in AnyForm /\ options' \in BOOLEAN /\ nested' \in BOOLEAN /\ UNCHANGED database
          BY <2>2 DEF Arrive
    <3> QED BY <3>1, <3>2, CallType DEF AuthTypeOK, database, UserValues
  <2>3. CASE CallNested
    <3>1. PICK c \in Chains : Call(c)  BY <2>3 DEF CallNested
    <3>2. /\ UNCHANGED <<database, session, user>> /\ entry' = user
          /\ header' \in AnyHeader /\ form' \in AnyForm
          /\ options' \in BOOLEAN /\ nested' \in BOOLEAN
          BY <2>3 DEF CallNested, AuthTypeOK
    <3> QED BY <3>1, <3>2, CallType DEF AuthTypeOK, database
  <2>4. CASE Pass  BY <2>4 DEF Pass, AuthTypeOK, database, request, Authenticators
  <2>5. ASSUME NEW a \in Authenticators, Try(a) PROVE TInv'  BY <2>5, TryType
  <2>6. ASSUME Change PROVE changes' \in 0..MaxChanges /\ UNCHANGED <<request, view>>
        BY <2>6 DEF Change, AuthTypeOK
  <2>7. ASSUME NEW u \in Users, Edit(u) PROVE TInv'
        BY <2>1, <2>6, <2>7 DEF Edit, AuthTypeOK
  <2>8. ASSUME NEW u \in Users, CreateUser(u) PROVE TInv'
        BY <2>1, <2>6, <2>8 DEF CreateUser, AuthTypeOK
  <2>9. ASSUME NEW u \in Users, NEW k \in AccessKeys, Grant(u, k) \/ Revoke(u, k) PROVE TInv'
        BY <2>1, <2>6, <2>9 DEF Grant, Revoke, AuthTypeOK
  <2>10. ASSUME NEW u \in Users, NEW k \in AccessKeys, CreateKey(u, k) PROVE TInv'
        BY <2>1, <2>10 DEF CreateKey, AuthTypeOK
  <2>11. CASE UNCHANGED authVars  BY <2>1, <2>11 DEF authVars, database, AuthTypeOK
  <2> QED BY <2>2, <2>3, <2>4, <2>5, <2>7, <2>8, <2>9, <2>10, <2>11 DEF AuthNext
<1> QED BY <1>1, <1>2, PTL DEF AuthSpec

\* Types (AuthTypeOK), for all values of the constants.
THEOREM AuthTypeCorrect == AuthSpec => []AuthTypeOK
<1>1. TInv => AuthTypeOK  BY DEF TInv
<1> QED BY <1>1, TypeInvariant, PTL

-----------------------------------------------------------------------------
\* request.user changes while a view tries only to somebody for whom the session, a
\* password or a key vouches (OnlyVouched), whatever others do to the database.
THEOREM OnlyVouchedEnter == AuthSpec => OnlyVouched
<1> DEFINE A == (user' # user /\ stage = "trying") =>
                   \/ user' = Nothing
                   \/ Vouched(user'.name) /\ user'.active = (user'.name \in active)
<1>1. TInv /\ [AuthNext]_authVars => [A]_authVars
  <2> SUFFICES ASSUME TInv, [AuthNext]_authVars, user' # user, stage = "trying" PROVE A  OBVIOUS
  <2>1. PICK a \in Authenticators : Try(a)
        BY DEF AuthNext, Arrive, CallNested, Pass, Edit, CreateUser, Grant, Revoke, CreateKey,
               Change, request, authVars
  <2>2. user' = Attempt(a, user).user  BY <2>1 DEF Try
  <2>3. CASE user' = Nothing  BY <2>3
  <2>4. ASSUME NEW name \in Users \cup {Guest}, user' = Read(name), Vouched(name) PROVE A
    <3>1. user'.name = name /\ user'.active = (name \in active)  BY <2>4 DEF Read
    <3> QED BY <2>4, <3>1
  <2> QED BY <2>2, <2>3, <2>4, AttemptLeaves
<1> QED BY <1>1, TypeInvariant, PTL DEF AuthSpec, OnlyVouched

-----------------------------------------------------------------------------
\* No chain looks at request.user twice.
LooksOnce ==
    \A c \in Chains : \A j, k \in DOMAIN c :
        c[j] = "UserLoggedIn" /\ c[k] = "UserLoggedIn" => j = k

Tried(as) == \E j \in 1..(turn - 1) : chain[j] \in as

\* What the turns so far have made of request.user.
Traced ==
    stage = "trying" =>
        \/ user = entry
        \/ user # Lazy /\ Tried({"User", "AccessKey"})
        \/ user # Lazy /\ Tried({"UserLoggedIn"})  /\ entry = Lazy

\* Only UserLoggedIn looks at what the others leave.
LEMMA ResultIsOwn ==
    ASSUME NEW a \in Authenticators, a # "UserLoggedIn", NEW u, NEW v
    PROVE  Attempt(a, u).result = Attempt(a, v).result
<1>1. CASE a = "Anonymous"  BY <1>1 DEF Attempt, Outcome
<1>2. CASE a = "Basic"  BY <1>2 DEF Attempt, Outcome, Raises
<1>3. CASE a = "User"  BY <1>3 DEF Attempt, Outcome
<1>4. CASE a = "AccessKey"  BY <1>4 DEF Attempt, Outcome, Raises
<1> QED BY <1>1, <1>2, <1>3, <1>4 DEF Authenticators

LEMMA LoggedInResult ==
    ASSUME NEW u
    PROVE  /\ Attempt("UserLoggedIn", u).user = Loaded(u)
           /\ Attempt("UserLoggedIn", u).result = IF Active(Loaded(u)) THEN "yes" ELSE "no"
BY DEF Attempt, LoggedIn, Outcome, Authenticators

\* The database stops a chain for two reasons.
LEMMA RaiseDeserved ==
    ASSUME AuthTypeOK, NEW a \in Authenticators, NEW u, Attempt(a, u).result = "raise"
    PROVE  \/ header = Malformed
           \/ \E k \in AccessKeys, o, p \in users : o # p /\ {<<o, k>>, <<p, k>>} \subseteq keys
<1>1. CASE a = "Anonymous"  BY <1>1 DEF Attempt, Outcome
<1>2. CASE a = "UserLoggedIn"  BY <1>2, LoggedInResult
<1>3. CASE a = "Basic"  BY <1>3 DEF Attempt, Outcome, Raises
<1>4. CASE a = "User"  BY <1>4 DEF Attempt, Outcome
<1>5. CASE a = "AccessKey"
  <2>1. PICK o, p \in Owners : o # p  BY <1>5 DEF Attempt, Outcome, Raises
  <2>2. PICK k \in AccessKeys : <<o, k>> \in keys /\ Token \in {k, <<"Token", k>>}
        BY <2>1 DEF Owners
  <2>3. PICK l \in AccessKeys : <<p, l>> \in keys /\ Token \in {l, <<"Token", l>>}
        BY <2>1 DEF Owners
  <2>4. k = l  BY <2>2, <2>3, TokenShown
  <2> QED BY <2>1, <2>2, <2>3, <2>4 DEF Owners
<1> QED BY <1>1, <1>2, <1>3, <1>4, <1>5 DEF Authenticators

\* What an authenticator that fails leaves.
LEMMA FailureLeaves ==
    ASSUME TInv, NEW a \in Authenticators, Attempt(a, user).result = "no"
    PROVE  \/ a = "UserLoggedIn" /\ Attempt(a, user).user = Loaded(user) /\ Loaded(user) # Lazy
           \/ a \in {"User", "AccessKey"} /\ Attempt(a, user).user # Lazy
           \/ Attempt(a, user).user = user
<1>1. CASE a = "UserLoggedIn"
  <2>1. user = Lazy => Loaded(user) \in Accounts
        BY ReadType DEF Loaded, TInv, AuthTypeOK, LazyHasSession
  <2> QED BY <1>1, <2>1, LoggedInResult DEF Loaded, Accounts
<1>2. CASE a = "User"
  <2>1. Attempt(a, user).user = Authenticate(form.login)
        BY <1>2 DEF Attempt, Outcome
  <2> QED BY <1>2, <2>1, AuthenticateType DEF TInv, Accounts
<1>3. CASE a = "AccessKey"
  <2>1. \/ Attempt(a, user).user = user
        \/ \E name \in Users \cup {Guest} : Attempt(a, user).user = Read(name)
    <3>1. CASE Owners = {} \/ \E o, p \in Owners : o # p
          BY <1>3, <3>1 DEF Attempt, Outcome, Raises
    <3>2. CASE Owners # {} /\ ~(\E o, p \in Owners : o # p)
          BY <1>3, <3>2 DEF Attempt, Outcome, Owners, TInv, AuthTypeOK
    <3> QED BY <3>1, <3>2
  <2> QED BY <1>3, <2>1, ReadType DEF Accounts
<1>4. CASE a = "Anonymous"  BY <1>4 DEF Attempt, Outcome
<1>5. CASE a = "Basic"
  <2>1. header # Malformed  BY <1>5 DEF Attempt, Raises
  <2>2. Attempt(a, user).user = user  BY <1>5, <2>1 DEF Attempt, Outcome
  <2> QED BY <2>2
<1> QED BY <1>1, <1>2, <1>3, <1>4, <1>5 DEF Authenticators

LEMMA TryTraced == ASSUME TInv, Traced, NEW a \in Authenticators, Try(a) PROVE Traced'
<1> SUFFICES ASSUME stage' = "trying" PROVE Traced'  BY DEF Traced
<1>1. /\ Attempt(a, user).result = "no" /\ user' = Attempt(a, user).user /\ turn' = turn + 1
      /\ a = chain[turn] /\ stage = "trying" /\ UNCHANGED <<chain, entry>>
  <2>1. Attempt(a, user).result \notin {"yes", "raise"}  BY DEF Try
  <2>2. Attempt(a, user).result \in {"yes", "no", "raise"}
        BY DEF Attempt, Outcome, Raises, LoggedIn, Authenticators
  <2> QED BY <2>1, <2>2 DEF Try
<1>2. turn \in Nat \ {0}  BY <1>1 DEF TInv, AuthTypeOK
<1>3. turn \in 1..(turn' - 1) /\ \A j \in 1..(turn - 1) : j \in 1..(turn' - 1)  BY <1>1, <1>2
<1>4. CASE user' = user  BY <1>1, <1>3, <1>4 DEF Traced, Tried
<1>5. CASE a = "UserLoggedIn" /\ user' = Loaded(user) /\ Loaded(user) # Lazy /\ user' # user
  <2>1. user = Lazy  BY <1>5 DEF Loaded
  <2>2. entry = Lazy  BY <1>1, <2>1 DEF Traced
  <2> QED BY <1>1, <1>3, <1>5, <2>2 DEF Traced, Tried
<1>6. CASE a \in {"User", "AccessKey"} /\ user' # Lazy
      BY <1>1, <1>3, <1>6 DEF Traced, Tried
<1> QED BY <1>1, <1>4, <1>5, <1>6, FailureLeaves

LEMMA TracedInvariant == AuthSpec => []Traced
<1>1. AuthInit => Traced  BY DEF AuthInit, Traced
<1>2. TInv /\ Traced /\ [AuthNext]_authVars => Traced'
  <2> SUFFICES ASSUME TInv, Traced, [AuthNext]_authVars PROVE Traced'  OBVIOUS
  <2>1. ASSUME UNCHANGED <<request, view>> PROVE Traced'
        BY <2>1 DEF Traced, Tried, request, view
  <2>2. CASE Arrive  BY <2>2 DEF Arrive, Traced
  <2>3. CASE CallNested  BY <2>3 DEF CallNested, Traced
  <2>4. CASE Pass  BY <2>4 DEF Pass, Traced
  <2>5. ASSUME NEW a \in Authenticators, Try(a) PROVE Traced'  BY <2>5, TryTraced
  <2>6. ASSUME NEW u \in Users, Edit(u) \/ CreateUser(u) PROVE Traced'
        BY <2>1, <2>6 DEF Edit, CreateUser, Change
  <2>7. ASSUME NEW u \in Users, NEW k \in AccessKeys,
               Grant(u, k) \/ Revoke(u, k) \/ CreateKey(u, k)
        PROVE  Traced'
        BY <2>1, <2>7 DEF Grant, Revoke, CreateKey, Change
  <2>8. CASE UNCHANGED authVars  BY <2>1, <2>8 DEF authVars
  <2> QED BY <2>2, <2>3, <2>4, <2>5, <2>6, <2>7, <2>8 DEF AuthNext
<1> QED BY <1>1, <1>2, TypeInvariant, PTL DEF AuthSpec

\* The order of a chain admits nobody, and turns somebody away only in one case
\* (OrderAdmitsNobody), if no chain has UserLoggedIn twice: the second would see
\* the user as the first has read it.
THEOREM NobodyAdmittedByOrder == ASSUME LooksOnce PROVE AuthSpec => OrderAdmitsNobody
<1> DEFINE A == (stage = "trying" /\ ~Preflight /\ <<stage, turn>>' # <<stage, turn>>) =>
          /\ stage' = "accepted" => Alone = "yes"
          /\ (stage' # "accepted" /\ Alone = "yes") =>
                /\ chain[turn] = "UserLoggedIn"
                /\ \E j \in 1..(turn - 1) : chain[j] \in {"User", "AccessKey"}
          /\ stage' = "error" =>
                \/ header = Malformed
                \/ \E k \in AccessKeys, o, p \in users :
                      o # p /\ {<<o, k>>, <<p, k>>} \subseteq keys
<1>1. TInv /\ AcceptedIsActive /\ Traced /\ [AuthNext]_authVars => [A]_authVars
  <2> SUFFICES ASSUME TInv, AcceptedIsActive, Traced, [AuthNext]_authVars,
                      stage = "trying", ~Preflight, <<stage, turn>>' # <<stage, turn>>
               PROVE  A
      OBVIOUS
  <2>1. PICK a \in Authenticators : Try(a)
        BY DEF AuthNext, Arrive, CallNested, Pass, Edit, CreateUser, Grant, Revoke, CreateKey,
               Change, request, view, authVars
  <2>2. /\ a = chain[turn] /\ (stage' = "accepted" <=> Attempt(a, user).result = "yes")
        /\ stage' = "error" => Attempt(a, user).result = "raise"
        BY <2>1 DEF Try
  <2>3. user # entry =>
           /\ user # Lazy /\ ~Active(user)
           /\ Tried({"User", "AccessKey"}) \/ Tried({"UserLoggedIn"})
        BY DEF Traced, AcceptedIsActive
  <2>4. stage' = "accepted" => Alone = "yes"
    <3>1. CASE a # "UserLoggedIn"  BY <2>2, <3>1, ResultIsOwn DEF Alone
    <3>2. CASE a = "UserLoggedIn" /\ user = entry  BY <2>2, <3>2 DEF Alone
    <3>3. CASE a = "UserLoggedIn" /\ user # entry
          BY <2>2, <2>3, <3>3, LoggedInResult DEF Loaded
    <3> QED BY <3>1, <3>2, <3>3
  <2>5. ASSUME stage' # "accepted", Alone = "yes"
        PROVE  chain[turn] = "UserLoggedIn" /\ Tried({"User", "AccessKey"})
    <3>1. a = "UserLoggedIn"  BY <2>2, <2>5, ResultIsOwn DEF Alone
    <3>2. user # entry  BY <2>2, <2>5 DEF Alone
    <3>3. chain \in Chains /\ turn \in DOMAIN chain /\ chain \in Seq(Authenticators)
          BY DEF TInv, AuthTypeOK
    <3>4. ~Tried({"UserLoggedIn"})
      <4> SUFFICES ASSUME NEW j \in 1..(turn - 1), chain[j] = "UserLoggedIn" PROVE FALSE
          BY DEF Tried
      <4>1. j \in DOMAIN chain /\ j # turn  BY <3>3
      <4> QED BY <2>2, <3>1, <3>3, <4>1 DEF LooksOnce
    <3> QED BY <2>2, <2>3, <3>1, <3>2, <3>4
  <2>6. stage' = "error" =>
           \/ header = Malformed
           \/ \E k \in AccessKeys, o, p \in users : o # p /\ {<<o, k>>, <<p, k>>} \subseteq keys
        BY <2>2, RaiseDeserved DEF TInv
  <2> QED BY <2>4, <2>5, <2>6 DEF Tried
<1> QED BY <1>1, TypeInvariant, AcceptedAreActive, TracedInvariant, PTL
        DEF AuthSpec, OrderAdmitsNobody
=============================================================================
