------------------------------ MODULE Throttle ------------------------------
(***************************************************************************)
(* CacheThrottle.should_be_throttled (adrest/utils/throttle.py), called by *)
(* ThrottleMixin.throttle_check for every request, by several workers over *)
(* one cache and one clock.                                                *)
(*                                                                         *)
(* The read of the cache, the decision at the time the clock shows then,   *)
(* and the write back are three steps: nothing keeps other workers, or the *)
(* clock, out between them.  The cache is external; it is modelled as      *)
(* Django's back ends are used here: an entry is stored with a deadline,   *)
(* is not returned from then on, and may be evicted earlier.               *)
(***************************************************************************)
EXTENDS Integers, Sequences

CONSTANTS
    Workers,      \* threads of the WSGI server
    Identifiers,  \* resource.identifier: sequences of characters
    KeyChars,     \* characters that are kept in a cache key
    ThrottleAt,   \* ADREST_THROTTLE_AT: a number, or None
    Timeframe,    \* ADREST_THROTTLE_TIMEFRAME
    None,         \* Python's None, and an absent cache entry
    Evicts,       \* the cache may drop entries before their deadline
    MaxTime,      \* bound: the clock stops there
    MaxAsked      \* bound: requests asked about

\* convert_identifier_to_key: the characters a key may not have are dropped.
\* (Names of more than 230 characters, which are hashed, do not occur.)
KeyOf(name) == SelectSeq(name, LAMBDA c : c \in KeyChars)

Keys == {KeyOf(i) : i \in Identifiers}
Times == 0..(MaxTime + Timeframe)
Counts == Nat \ {0}
Entry == [count : Counts, expiration : Times, deadline : Int]
Stages == {"idle", "get", "check", "set", "granted", "refused"}

ASSUME ThrottleAssumption ==
    /\ ThrottleAt \in Nat \cup {None}
    /\ Timeframe \in Nat \ {0} /\ MaxTime \in Nat /\ MaxAsked \in Nat
    /\ None \notin Entry /\ None \notin Int
    /\ Evicts \in BOOLEAN

VARIABLES
    now,      \* the clock
    cache,    \* the cache entry of each key, None when there is none
    pc,       \* where each worker is in should_be_throttled
    who,      \* the identifier its request comes from
    count,    \* its variables: count,
    expires,  \*   expiration,
    wait,     \*   expiration - now
    asked,    \* requests asked about so far
    grants    \* history: grants[k][e], requests with key k granted inside the
              \* window that ends at e

local == <<pc, who, count, expires, wait>>
vars == <<now, cache, pc, who, count, expires, wait, asked, grants>>

Key(w) == KeyOf(who[w])

Init ==
    /\ now = 0
    /\ cache = [k \in Keys |-> None]
    /\ pc = [w \in Workers |-> "idle"]
    /\ who \in [Workers -> Identifiers]
    /\ count = [w \in Workers |-> 1]
    /\ expires = [w \in Workers |-> None]
    /\ wait = [w \in Workers |-> 0]
    /\ asked = 0
    /\ grants = [k \in Keys |-> [e \in Times |-> 0]]

-----------------------------------------------------------------------------
\* throttle_check: a request of identifier i reaches the throttle.
Ask(w, i) ==
    /\ pc[w] \in {"idle", "granted", "refused"}
    /\ asked < MaxAsked
    /\ asked' = asked + 1
    /\ who' = [who EXCEPT ![w] = i]
    /\ pc' = [pc EXCEPT ![w] = "get"]
    /\ UNCHANGED <<now, cache, count, expires, wait, grants>>

\* Mutant: cache.get(key, (0, None)).
FromZero == 0

\* The count of a key that is not in the cache.
FromOne == 1

\* cache.get(key, (1, None))
Get(w) ==
    LET stored == cache[Key(w)]
        hit == stored # None /\ stored.deadline > now
    IN  /\ pc[w] = "get"
        /\ count' = [count EXCEPT ![w] = IF hit THEN stored.count ELSE FromOne]
        /\ expires' = [expires EXCEPT ![w] = IF hit THEN stored.expiration ELSE None]
        /\ pc' = [pc EXCEPT ![w] = "check"]
        /\ UNCHANGED <<now, cache, who, wait, asked, grants>>

\* Mutants: the limit off by one, either way.
AtLimitEarly(c) == ThrottleAt = None \/ c + 1 >= ThrottleAt
AtLimitLate(c) == ThrottleAt = None \/ c > ThrottleAt

\* count >= throttle_at.  In Python 2 every number is greater than None.
AtLimit(c) == IF ThrottleAt = None THEN TRUE ELSE c >= ThrottleAt

\* Mutants: a window that has ended is renewed with its count; every request
\* starts a window.
ExpirationRenewed(w) ==
    IF expires[w] = None \/ expires[w] <= now THEN now + Timeframe ELSE expires[w]
ExpirationSliding(w) == now + Timeframe

\* if expiration is None: expiration = now + timeframe
Expiration(w) == IF expires[w] = None THEN now + Timeframe ELSE expires[w]

\* time.time(), a new window when there is none, and the decision.  What is
\* refused is answered 503 with the time to wait.
Check(w) ==
    LET e == Expiration(w)
    IN  /\ pc[w] = "check"
        /\ expires' = [expires EXCEPT ![w] = e]
        /\ wait' = [wait EXCEPT ![w] = e - now]
        /\ pc' = [pc EXCEPT ![w] = IF AtLimit(count[w]) /\ e > now THEN "refused" ELSE "set"]
        /\ UNCHANGED <<now, cache, who, count, asked, grants>>

\* Mutant: cache.set(key, (count, expiration), expiration - now).
SameCount(w) == count[w]

NextCount(w) == count[w] + 1

\* cache.set(key, (count + 1, expiration), expiration - now): the time was
\* taken in Check.  A timeout that is not positive leaves no entry behind.
Set(w) ==
    LET stored == [count |-> NextCount(w), expiration |-> expires[w],
                  deadline |-> now + wait[w]]
    IN  /\ pc[w] = "set"
        /\ IF wait[w] > 0
           THEN /\ cache' = [cache EXCEPT ![Key(w)] = stored]
                /\ grants' = [grants EXCEPT ![Key(w)][expires[w]] = @ + 1]
           ELSE /\ cache' = [cache EXCEPT ![Key(w)] = None]
                /\ UNCHANGED grants
        /\ pc' = [pc EXCEPT ![w] = "granted"]
        /\ UNCHANGED <<now, who, count, expires, wait, asked>>

Tick ==
    /\ now < MaxTime
    /\ now' = now + 1
    /\ UNCHANGED <<cache, local, asked, grants>>

\* The cache makes room.
Evict(k) ==
    /\ Evicts /\ cache[k] # None
    /\ cache' = [cache EXCEPT ![k] = None]
    /\ UNCHANGED <<now, local, asked, grants>>

Next ==
    \/ \E w \in Workers :
          \/ \E i \in Identifiers : Ask(w, i)
          \/ Get(w) \/ Check(w) \/ Set(w)
    \/ Tick
    \/ \E k \in Keys : Evict(k)

Spec == Init /\ [][Next]_vars

-----------------------------------------------------------------------------
TypeOK ==
    /\ now \in 0..MaxTime
    /\ cache \in [Keys -> Entry \cup {None}]
    /\ pc \in [Workers -> Stages]
    /\ who \in [Workers -> Identifiers]
    /\ count \in [Workers -> Counts]
    /\ expires \in [Workers -> Times \cup {None}]
    /\ wait \in [Workers -> Int]
    /\ asked \in 0..MaxAsked
    /\ grants \in [Keys -> [Times -> Nat]]

Deciding == {"set", "refused"}

\* Nobody is refused too early: when a request is refused, ThrottleAt - 1 others
\* of its key have been granted inside the window it is refused in, and that
\* window ends within Timeframe.  Lost updates of the cache only help clients.
NoPrematureRefusal ==
    \A w \in Workers :
        (pc[w] = "refused" /\ ThrottleAt # None) =>
            /\ grants[Key(w)][expires[w]] >= ThrottleAt - 1
            /\ wait[w] \in 1..Timeframe

\* A count in the cache, or in a worker's hands, never exceeds the number of
\* requests granted in its window (the window's first request finds 1), and
\* no window ends later than one Timeframe from now: what is stored late or
\* out of order is never more than the truth.
Covered(k, c, e) == c - 1 <= grants[k][e] /\ e <= now + Timeframe

CountsAreVouched ==
    /\ \A k \in Keys : cache[k] # None => Covered(k, cache[k].count, cache[k].expiration)
    /\ \A w \in Workers :
          /\ (pc[w] = "check" /\ expires[w] = None) => count[w] = 1
          /\ (pc[w] \in {"check"} \cup Deciding /\ expires[w] # None) =>
                Covered(Key(w), count[w], expires[w])
          /\ pc[w] \in Deciding => expires[w] # None /\ wait[w] <= Timeframe

-----------------------------------------------------------------------------
\* When requests of a key are asked about one after the other and the cache
\* loses nothing:

\* no more than ThrottleAt - 1 requests are granted inside a window,
WindowLimit ==
    ThrottleAt \in Nat \ {0} =>
    \A k \in Keys, e \in Times : grants[k][e] <= ThrottleAt - 1

\* and windows in which something is granted do not overlap.
WindowsAreDisjoint ==
    \A k \in Keys, e, f \in Times :
        (grants[k][e] > 0 /\ grants[k][f] > 0 /\ e < f) => e + Timeframe <= f

\* What the two rest on: the window still open is the one in the cache, whose
\* count is exact, and what the worker holds is what the cache still has, or
\* the first request of a window after the end of all others.
Ended(k) == \A f \in Times : grants[k][f] > 0 => f <= now
LastWindow(k, e) == \A f \in Times \ {e} : grants[k][f] > 0 => f + Timeframe <= e

CacheIsExact ==
    ThrottleAt \in Nat \ {0} =>
    /\ \A k \in Keys :
          /\ cache[k] = None => Ended(k)
          /\ cache[k] # None =>
                /\ grants[k][cache[k].expiration] = cache[k].count - 1
                /\ cache[k].expiration <= cache[k].deadline
                /\ LastWindow(k, cache[k].expiration)
    /\ \A w \in Workers :
          /\ (pc[w] = "check" /\ expires[w] = None) => Ended(Key(w))
          /\ ((pc[w] = "check" /\ expires[w] # None) \/ (pc[w] = "set" /\ wait[w] <= 0)) =>
                /\ cache[Key(w)] # None
                /\ cache[Key(w)].expiration = expires[w] /\ cache[Key(w)].count = count[w]
          /\ (pc[w] = "set" /\ wait[w] <= 0) => expires[w] <= now
          /\ (pc[w] = "set" /\ wait[w] > 0) =>
                /\ grants[Key(w)][expires[w]] = count[w] - 1
                /\ count[w] < ThrottleAt /\ expires[w] <= now + wait[w]
                /\ LastWindow(Key(w), expires[w])
=============================================================================
