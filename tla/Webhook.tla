------------------------------ MODULE Webhook ------------------------------
(***************************************************************************)
(* The GitHub endpoint: ServeHTTP asks DedupeCache whether it has seen the *)
(* delivery, and hands a push to its handler on a goroutine of its own.    *)
(* The cache is a ring of the last ids beside a set of the same ids.       *)
(* GitHub, or an operator, may send a delivery again at any time.          *)
(***************************************************************************)
EXTENDS Naturals, Sequences, Functions

CONSTANTS
    Deliveries,    \* delivery ids
    Malformed,     \* the ones whose payload does not parse
    Capacity,      \* entries of the ring, 1000 in the program
    MaxRequests    \* bound: requests

NoId == "no id"    \* the request lacks the header; also an unused entry of the ring

ASSUME WebhookAssumption ==
    /\ NoId \notin Deliveries /\ Malformed \subseteq Deliveries \cup {NoId}
    /\ Capacity \in Nat \ {0} /\ MaxRequests \in Nat

VARIABLES
    ring, head, seen,   \* DedupeCache
    fresh,              \* the ids Seen has called new, in order
    pushed,             \* the pushes handed on, in order
    requests

vars == <<ring, head, seen, fresh, pushed, requests>>

\* NewDedupeCache
Init ==
    /\ ring = [i \in 0 .. Capacity - 1 |-> NoId]
    /\ head = 0
    /\ seen = {}
    /\ fresh = <<>> /\ pushed = <<>>
    /\ requests = 0

\* Mutation: the oldest id stays in the set.
InsertKeeping(id) ==
    /\ seen' = seen \cup {id}
    /\ ring' = [ring EXCEPT ![head] = id]
    /\ head' = (head + 1) % Capacity
    /\ fresh' = Append(fresh, id)

\* Mutation: the entry before the head is dropped from the set.
InsertBehind(id) ==
    /\ seen' = (seen \ {ring[(head + Capacity - 1) % Capacity]}) \cup {id}
    /\ ring' = [ring EXCEPT ![head] = id]
    /\ head' = (head + 1) % Capacity
    /\ fresh' = Append(fresh, id)

\* Mutation: the ring does not wrap around.
InsertUnwrapped(id) ==
    /\ seen' = (seen \ {ring[head]}) \cup {id}
    /\ ring' = [ring EXCEPT ![head] = id]
    /\ head' = head + 1
    /\ fresh' = Append(fresh, id)

\* Seen for an id that is new: the oldest one makes room.
Insert(id) ==
    /\ seen' = (seen \ {ring[head]}) \cup {id}
    /\ ring' = [ring EXCEPT ![head] = id]
    /\ head' = (head + 1) % Capacity
    /\ fresh' = Append(fresh, id)

Duplicate(id) == id # NoId /\ id \in seen

\* A delivery seen before is answered and dropped.
ServeDuplicate(id) ==
    /\ Duplicate(id)
    /\ UNCHANGED <<ring, head, seen, fresh, pushed>>

\* A delivery counts as seen before its payload is parsed.
ServePush(id) ==
    /\ ~Duplicate(id)
    /\ IF id = NoId THEN UNCHANGED <<ring, head, seen, fresh>> ELSE Insert(id)
    /\ pushed' = IF id \in Malformed THEN pushed ELSE Append(pushed, id)

ServeHTTP(id) ==
    /\ requests < MaxRequests /\ requests' = requests + 1
    /\ ServeDuplicate(id) \/ ServePush(id)

Next == \E id \in Deliveries \cup {NoId} : ServeHTTP(id)

Spec == Init /\ [][Next]_vars

-----------------------------------------------------------------------------
(* Properties.                                                             *)

\* Ring, head and set stay in their types: the head wraps around, a request
\* without an id leaves no trace.
TypeOK ==
    /\ ring \in [0 .. Capacity - 1 -> Deliveries \cup {NoId}]
    /\ head \in 0 .. Capacity - 1
    /\ seen \subseteq Deliveries
    /\ fresh \in Seq(Deliveries) /\ pushed \in Seq(Deliveries \cup {NoId})
    /\ requests \in 0..MaxRequests

\* Ring and set never drift apart, however often ids leave and come back:
\* an id that stayed in the set alone would be refused for ever.
RingMatchesSet == seen = Range(ring) \ {NoId}

\* No id is in the ring twice, else its first eviction would forget it.
RingInjective ==
    \A i, j \in 0 .. Capacity - 1 : ring[i] = ring[j] /\ ring[i] # NoId => i = j

\* The entry of the ring that is k steps behind the head.
Behind(k) == IF k <= head THEN head - k ELSE head + Capacity - k

\* Backwards from the head the ring has the ids in the order in which Seen met
\* them, so that the entry at the head, the next to go, is the oldest.
RingInOrder ==
    \A k \in 1..Capacity :
        ring[Behind(k)] = IF k <= Len(fresh) THEN fresh[Len(fresh) + 1 - k] ELSE NoId

\* The inductive invariant of the cache: what DedupeCache.Seen relies on.
IndInv == TypeOK /\ RingMatchesSet /\ RingInjective /\ RingInOrder

\* The cache "remembers the last capacity delivery IDs": exactly those.
RemembersLast ==
    seen = {fresh[i] : i \in {i \in DOMAIN fresh : i + Capacity > Len(fresh)}}

\* No delivery is processed twice unless at least Capacity other new ones
\* came in between.
OnceInWindow ==
    \A i, j \in DOMAIN fresh : i < j /\ fresh[i] = fresh[j] => j - i > Capacity
=============================================================================
