---------------------------- MODULE DaemonProofs ----------------------------
(***************************************************************************)
(* Two parts of the daemon that are not about one deploy. The webhook      *)
(* endpoint: the dedupe cache's ring and set agree, for every capacity and *)
(* any sequence of deliveries. The lifecycle: the lock outlives the jobs,  *)
(* and watchers have owners, for any number of reloads and jobs.           *)
(***************************************************************************)
EXTENDS Webhook, Lifecycle, TLAPS

\* The head stays inside the ring when it wraps around.
LEMMA HeadWraps ==
    ASSUME NEW n \in Nat \ {0}, NEW h \in 0 .. n - 1
    PROVE  /\ (h + 1) % n \in 0 .. n - 1
           /\ (h + 1) % n = IF h + 1 = n THEN 0 ELSE h + 1
BY SMT

\* Recording a new id keeps the invariant: the entry it replaces is the only
\* place of the id that leaves the set (DedupeCache.Seen).
LEMMA InsertPreserves ==
    ASSUME IndInv, NEW id \in Deliveries, id \notin seen, Insert(id)
    PROVE  /\ ring' \in [0 .. Capacity - 1 -> Deliveries \cup {NoId}]
           /\ head' \in 0 .. Capacity - 1
           /\ seen' \subseteq Deliveries
           /\ fresh' \in Seq(Deliveries)
           /\ RingMatchesSet'
           /\ RingInjective'
           /\ RingInOrder'
<1> USE WebhookAssumption
<1>1. TypeOK /\ RingMatchesSet /\ RingInjective /\ RingInOrder
  BY DEF IndInv
<1>2. head \in 0 .. Capacity - 1 /\ ring \in [0 .. Capacity - 1 -> Deliveries \cup {NoId}]
  BY <1>1 DEF TypeOK
<1>3. ring' = [ring EXCEPT ![head] = id] /\ seen' = (seen \ {ring[head]}) \cup {id}
  BY DEF Insert
<1>4. ring' \in [0 .. Capacity - 1 -> Deliveries \cup {NoId}]
  BY <1>2, <1>3
<1>5. \A i \in 0 .. Capacity - 1 : ring'[i] = IF i = head THEN id ELSE ring[i]
  BY <1>2, <1>3
<1>6. \A i \in 0 .. Capacity - 1 : ring[i] # id
  BY <1>1, <1>2 DEF RingMatchesSet, Range
<1>7. head' \in 0 .. Capacity - 1
  BY <1>2, HeadWraps DEF Insert
<1>8. seen' \subseteq Deliveries
  BY <1>1, <1>3 DEF TypeOK
<1>9. fresh' \in Seq(Deliveries)
  BY <1>1 DEF TypeOK, Insert
<1>10. RingInjective'
  BY <1>1, <1>5, <1>6 DEF RingInjective
<1>11. RingMatchesSet'
  <2>1. \A x : x \in seen <=> x # NoId /\ \E i \in 0 .. Capacity - 1 : x = ring[i]
    BY <1>1, <1>2 DEF RingMatchesSet, Range
  <2>2. \A x : x \in seen' <=> x # NoId /\ \E i \in 0 .. Capacity - 1 : x = ring'[i]
    <3> TAKE x
    <3>1. CASE x = id
      BY <3>1, <1>2, <1>3, <1>5
    <3>2. CASE x # id /\ x = ring[head]
      BY <3>2, <1>1, <1>2, <1>3, <1>5 DEF RingInjective
    <3>3. CASE x # id /\ x # ring[head]
      BY <3>3, <2>1, <1>2, <1>3, <1>5
    <3> QED
      BY <3>1, <3>2, <3>3
  <2>3. DOMAIN ring' = 0 .. Capacity - 1
    BY <1>4
  <2> QED
    BY <2>2, <2>3 DEF RingMatchesSet, Range
<1>12. RingInOrder'
  <2> SUFFICES ASSUME NEW k \in 1 .. Capacity
               PROVE  ring'[Behind(k)'] =
                          IF k <= Len(fresh') THEN fresh'[Len(fresh') + 1 - k] ELSE NoId
    BY DEF RingInOrder
  <2>1. head' = IF head + 1 = Capacity THEN 0 ELSE head + 1
    BY <1>2, HeadWraps DEF Insert
  <2>2. /\ fresh \in Seq(Deliveries) /\ Len(fresh) \in Nat
        /\ Len(fresh') = Len(fresh) + 1
        /\ fresh'[Len(fresh) + 1] = id
        /\ \A i \in 1 .. Len(fresh) : fresh'[i] = fresh[i]
    BY <1>1 DEF TypeOK, Insert
  <2>3. CASE k = 1
    <3>1. Behind(k)' = head
      BY <2>1, <2>3, <1>2 DEF Behind
    <3> QED
      BY <3>1, <2>2, <2>3, <1>2, <1>5
  <2>4. CASE k # 1
    <3>1. k - 1 \in 1 .. Capacity
      BY <2>4
    <3>2. Behind(k)' = Behind(k - 1) /\ Behind(k - 1) \in 0 .. Capacity - 1 /\ Behind(k - 1) # head
      BY <2>1, <2>4, <1>2 DEF Behind
    <3>3. ring'[Behind(k)'] = ring[Behind(k - 1)]
      BY <3>2, <1>5
    <3>4. ring[Behind(k - 1)] = IF k - 1 <= Len(fresh) THEN fresh[Len(fresh) + 1 - (k - 1)] ELSE NoId
      BY <3>1, <1>1 DEF RingInOrder
    <3>5. k <= Len(fresh') <=> k - 1 <= Len(fresh)
      BY <2>2
    <3>6. k - 1 <= Len(fresh) => fresh'[Len(fresh') + 1 - k] = fresh[Len(fresh) + 1 - (k - 1)]
      <4>1. Len(fresh') + 1 - k = Len(fresh) + 1 - (k - 1)
        BY <2>2, <2>4
      <4>2. k - 1 <= Len(fresh) => Len(fresh) + 1 - (k - 1) \in 1 .. Len(fresh)
        BY <2>2, <2>4
      <4> QED
        BY <4>1, <4>2, <2>2
    <3> QED
      BY <3>3, <3>4, <3>5, <3>6
  <2> QED
    BY <2>3, <2>4
<1> QED
  BY <1>4, <1>7, <1>8, <1>9, <1>10, <1>11, <1>12

\* The invariant of the cache holds initially and is kept by every request.
THEOREM CacheInvariant == Spec => []IndInv
<1> USE WebhookAssumption
<1>1. Init => IndInv
  <2> SUFFICES ASSUME Init PROVE IndInv
    OBVIOUS
  <2>1. TypeOK
    BY DEF Init, TypeOK
  <2>2. RingMatchesSet
    BY DEF Init, RingMatchesSet, Range
  <2>3. RingInjective
    BY DEF Init, RingInjective
  <2>4. RingInOrder
    BY DEF Init, RingInOrder, Behind
  <2> QED
    BY <2>1, <2>2, <2>3, <2>4 DEF IndInv
<1>2. IndInv /\ [Next]_vars => IndInv'
  <2> SUFFICES ASSUME IndInv, [Next]_vars PROVE IndInv'
    OBVIOUS
  <2>1. CASE UNCHANGED vars
    BY <2>1 DEF vars, IndInv, TypeOK, RingMatchesSet, RingInjective, RingInOrder, Behind
  <2>2. CASE Next
    <3>1. PICK id \in Deliveries \cup {NoId} : ServeHTTP(id)
      BY <2>2 DEF Next
    <3>2. requests' \in 0 .. MaxRequests
      BY <3>1 DEF ServeHTTP, IndInv, TypeOK
    <3>3. pushed' \in Seq(Deliveries \cup {NoId})
      <4>1. pushed \in Seq(Deliveries \cup {NoId})
        BY DEF IndInv, TypeOK
      <4>2. pushed' = pushed \/ pushed' = Append(pushed, id)
        BY <3>1 DEF ServeHTTP, ServeDuplicate, ServePush
      <4> QED
        BY <4>1, <4>2
    <3>4. CASE UNCHANGED <<ring, head, seen, fresh>>
      BY <3>2, <3>3, <3>4 DEF IndInv, TypeOK, RingMatchesSet, RingInjective, RingInOrder, Behind
    <3>5. CASE id \in Deliveries /\ id \notin seen /\ Insert(id)
      BY <3>2, <3>3, <3>5, InsertPreserves DEF IndInv, TypeOK
    <3> QED
      BY <3>1, <3>4, <3>5 DEF ServeHTTP, ServeDuplicate, ServePush, Duplicate
  <2> QED
    BY <2>1, <2>2
<1> QED
  BY <1>1, <1>2, PTL DEF Spec

\* What the ring holds is what came last: each of its entries is some number
\* of steps behind the head, and so many ids ago it was new.
LEMMA RingRemembers ==
    ASSUME IndInv
    PROVE  RemembersLast
<1> USE WebhookAssumption
<1> DEFINE last == {i \in DOMAIN fresh : i + Capacity > Len(fresh)}
<1>1. /\ ring \in [0 .. Capacity - 1 -> Deliveries \cup {NoId}]
      /\ head \in 0 .. Capacity - 1
      /\ fresh \in Seq(Deliveries) /\ Len(fresh) \in Nat /\ DOMAIN fresh = 1 .. Len(fresh)
  BY DEF IndInv, TypeOK
<1>2. \A x : x \in seen <=> x # NoId /\ \E j \in 0 .. Capacity - 1 : x = ring[j]
  BY <1>1 DEF IndInv, RingMatchesSet, Range
<1>3. ASSUME NEW x \in seen PROVE \E i \in last : x = fresh[i]
  <2>1. PICK j \in 0 .. Capacity - 1 : x = ring[j]
    BY <1>2, <1>3
  <2> DEFINE k == IF j < head THEN head - j ELSE head + Capacity - j
  <2>2. k \in 1 .. Capacity /\ Behind(k) = j
    BY <1>1 DEF Behind
  <2>3. ring[j] = IF k <= Len(fresh) THEN fresh[Len(fresh) + 1 - k] ELSE NoId
    BY <2>2 DEF IndInv, RingInOrder
  <2>4. k <= Len(fresh) /\ x = fresh[Len(fresh) + 1 - k]
    BY <2>1, <2>3, <1>2, <1>3
  <2>5. Len(fresh) + 1 - k \in last
    BY <2>2, <2>4, <1>1
  <2> QED
    BY <2>4, <2>5
<1>4. ASSUME NEW i \in last PROVE fresh[i] \in seen
  <2> DEFINE k == Len(fresh) + 1 - i
  <2>1. k \in 1 .. Capacity /\ k <= Len(fresh) /\ Len(fresh) + 1 - k = i
    BY <1>1, <1>4
  <2> HIDE DEF k
  <2>2. Behind(k) \in 0 .. Capacity - 1
    BY <1>1, <2>1 DEF Behind
  <2>3. ring[Behind(k)] = fresh[i]
    BY <2>1 DEF IndInv, RingInOrder
  <2>4. fresh[i] \in Deliveries
    BY <1>1, <1>4
  <2> QED
    BY <1>2, <2>2, <2>3, <2>4
<1>5. seen = {fresh[i] : i \in last}
  BY <1>3, <1>4
<1> QED
  BY <1>5 DEF RemembersLast

\* The cache remembers exactly the last Capacity new ids, whatever ids came,
\* left and came back before (the comment on DedupeCache).
THEOREM RemembersExactly == Spec => []RemembersLast
BY CacheInvariant, RingRemembers, PTL

\* No delivery is processed twice within a window of Capacity new ones: one that
\* Seen calls new is not among the ids it remembers.
THEOREM NoneTwiceInWindow == Spec => []OnceInWindow
<1> USE WebhookAssumption
<1>1. Init => OnceInWindow
  BY DEF Init, OnceInWindow
<1>2. IndInv /\ OnceInWindow /\ [Next]_vars => OnceInWindow'
  <2> SUFFICES ASSUME IndInv, OnceInWindow, [Next]_vars PROVE OnceInWindow'
    OBVIOUS
  <2>1. CASE UNCHANGED fresh
    BY <2>1 DEF OnceInWindow
  <2>2. CASE \E id \in Deliveries : id \notin seen /\ fresh' = Append(fresh, id)
    <3>1. PICK id \in Deliveries : id \notin seen /\ fresh' = Append(fresh, id)
      BY <2>2
    <3>2. /\ fresh \in Seq(Deliveries) /\ Len(fresh) \in Nat /\ DOMAIN fresh = 1 .. Len(fresh)
          /\ DOMAIN fresh' = 1 .. Len(fresh) + 1
          /\ fresh'[Len(fresh) + 1] = id
          /\ \A i \in 1 .. Len(fresh) : fresh'[i] = fresh[i]
      BY <3>1 DEF IndInv, TypeOK
    <3>3. \A i \in 1 .. Len(fresh) : i + Capacity > Len(fresh) => fresh[i] # id
      BY <3>1, <3>2, RingRemembers DEF RemembersLast
    <3>4. \A i \in 1 .. Len(fresh) : fresh[i] = id => Len(fresh) + 1 - i > Capacity
      BY <3>2, <3>3
    <3> SUFFICES ASSUME NEW i \in 1 .. Len(fresh) + 1, NEW j \in 1 .. Len(fresh) + 1,
                        i < j, fresh'[i] = fresh'[j]
                 PROVE  j - i > Capacity
      BY <3>2 DEF OnceInWindow
    <3>5. CASE j = Len(fresh) + 1
      BY <3>2, <3>4, <3>5
    <3>6. CASE j # Len(fresh) + 1
      BY <3>2, <3>6 DEF OnceInWindow
    <3> QED
      BY <3>5, <3>6
  <2> QED
    BY <2>1, <2>2 DEF Next, vars, ServeHTTP, ServeDuplicate, ServePush, Duplicate, Insert
<1> QED
  BY <1>1, <1>2, CacheInvariant, PTL DEF Spec

-----------------------------------------------------------------------------
(* The lifecycle.                                                          *)

\* The runner refuses jobs before the last ones are waited for, and the lock
\* is released after that.
ShutdownOrder ==
    /\ stage \in {"stop runner", "done"} => ~accepting
    /\ stage = "done" => jobs = {}
    /\ ~lock => stage = "done"

\* A job that is handed over late is refused; before that the lock is held.
LEMMA LateJobRefused ==
    ASSUME ShutdownOrder, NEW j,
           jobs' = (IF accepting THEN jobs \cup {j} ELSE jobs),
           UNCHANGED <<accepting, stage, stopped, lock>>
    PROVE  ShutdownOrder'
BY DEF ShutdownOrder

\* A step that leaves the runner and the shutdown alone.
LEMMA OutOfTheWay ==
    ASSUME ShutdownOrder, UNCHANGED <<jobs, accepting, stage, stopped, lock>>
    PROVE  ShutdownOrder'
BY DEF ShutdownOrder

LEMMA ShutdownOrderInit == LifeInit => ShutdownOrder
BY DEF LifeInit, ShutdownOrder

\* App.shutdown itself: each stage in its turn.
LEMMA ShutdownStep ==
    ASSUME ShutdownOrder, Shutdown
    PROVE  ShutdownOrder'
<1>1. CASE StopWatcher
  BY <1>1 DEF StopWatcher, ShutdownOrder
<1>2. CASE WaitWatcher
  BY <1>2 DEF WaitWatcher, ShutdownOrder
<1>3. CASE CancelIntake
  BY <1>3 DEF CancelIntake, ShutdownOrder
<1>4. CASE WaitLoop
  BY <1>4 DEF WaitLoop, ShutdownOrder
<1>5. CASE Finish
  BY <1>5 DEF Finish, ShutdownOrder
<1> QED
  BY <1>1, <1>2, <1>3, <1>4, <1>5 DEF Shutdown

LEMMA ShutdownOrderStep ==
    ASSUME ShutdownOrder, [LifeNext]_lifeVars
    PROVE  ShutdownOrder'
<1>1. ASSUME NEW g \in Generations, Poll(g) \/ StopOld(g) PROVE ShutdownOrder'
  <2>1. ASSUME NEW d \in Deploys, PollSubmit(g, d) PROVE ShutdownOrder'
    BY <2>1, LateJobRefused DEF PollSubmit, closing
  <2>2. CASE PollBegin(g)
    BY <2>2, OutOfTheWay DEF PollBegin, closing
  <2>3. CASE PollEnd(g)
    BY <2>3, OutOfTheWay DEF PollEnd, closing
  <2>4. CASE PollExit(g)
    BY <2>4, OutOfTheWay DEF PollExit, closing
  <2>5. CASE StopOld(g)
    BY <2>5, OutOfTheWay DEF StopOld, closing
  <2> QED
    BY <1>1, <2>1, <2>2, <2>3, <2>4, <2>5 DEF Poll
<1>2. CASE Request
  BY <1>2, OutOfTheWay DEF Request, closing
<1>3. CASE RequestEnd
  BY <1>3, OutOfTheWay DEF RequestEnd, closing
<1>4. ASSUME NEW d \in Deploys, RequestSubmit(d) PROVE ShutdownOrder'
  BY <1>4, LateJobRefused DEF RequestSubmit, closing
<1>5. ASSUME NEW by \in Generations \cup {0}, ReloadBegin(by) PROVE ShutdownOrder'
  BY <1>5, OutOfTheWay DEF ReloadBegin, closing
<1>6. CASE Restart
  <2>1. CASE RestartSwap
    BY <2>1, OutOfTheWay DEF RestartSwap, closing
  <2>2. CASE RestartStart
    BY <2>2, OutOfTheWay DEF RestartStart, closing
  <2>3. CASE RestartStop
    BY <2>3, OutOfTheWay DEF RestartStop, closing
  <2> QED
    BY <1>6, <2>1, <2>2, <2>3 DEF Restart
<1>7. CASE Worker
  <2>1. CASE LoopPass
    BY <2>1, LateJobRefused DEF LoopPass, closing
  <2>2. CASE LoopPassEnd
    BY <2>2, OutOfTheWay DEF LoopPassEnd, closing
  <2>3. CASE LoopExit
    BY <2>3, OutOfTheWay DEF LoopExit, closing
  <2> QED
    BY <1>7, <2>1, <2>2, <2>3 DEF Worker
<1>8. ASSUME NEW j \in Deploys \cup {"teardown"}, JobEnd(j) PROVE ShutdownOrder'
  BY <1>8 DEF JobEnd, closing, ShutdownOrder
<1>9. CASE Signal
  BY <1>9 DEF Signal, ShutdownOrder
<1>10. CASE GraceElapsed
  BY <1>10, OutOfTheWay DEF GraceElapsed, closing
<1>11. CASE Shutdown
  BY <1>11, ShutdownStep
<1>12. CASE UNCHANGED lifeVars
  BY <1>12, OutOfTheWay DEF lifeVars
<1> QED
  BY <1>1, <1>2, <1>3, <1>4, <1>5, <1>6, <1>7, <1>8, <1>9, <1>10, <1>11, <1>12 DEF LifeNext

(***************************************************************************)
(* When the lock is released no deploy and no teardown is left, whatever   *)
(* polls, pushes, reloads and passes were under way as the daemon was told *)
(* to stop, with and without a grace period (App.shutdown).                *)
(***************************************************************************)
THEOREM LockOutlivesJobs == LifeSpec => []LockCoversJobs
<1>1. ShutdownOrder => LockCoversJobs
  BY DEF ShutdownOrder, LockCoversJobs
<1>2. ShutdownOrder /\ [LifeNext]_lifeVars => ShutdownOrder'
  BY ShutdownOrderStep
<1> QED
  BY ShutdownOrderInit, <1>1, <1>2, PTL DEF LifeSpec

-----------------------------------------------------------------------------
(* Watchers and reloads.                                                   *)

Reloads == [pc : {"swap", "start", "stop old"}, by : Generations \cup {0},
            new : Generations, old : Generations \cup {0}]

\* From the swap on the new watcher is the one in charge and the old one is
\* known.
ReloadSound ==
    \/ reload = NoReload
    \/ /\ reload \in Reloads
       /\ reload.pc # "swap" => reload.new = instance /\ reload.old # 0

\* Every watcher that polls is the one in charge, or somebody is about to stop
\* it: the reload that replaced it or the goroutine that reload left behind
\* (managedWatcher.restart).
NoWatcherOrphaned ==
    \A g \in Generations : watcher[g] = "polling" =>
        \/ g = instance
        \/ g \in stopping
        \/ reload.pc \in {"start", "stop old"} /\ reload.old = g

WatchersOK ==
    /\ watcher \in [Generations -> {"none", "new", "polling", "cancelled", "stopped"}]
    /\ busy \subseteq {g \in Generations : watcher[g] \in {"polling", "cancelled"}}
    /\ instance \in Generations /\ stopping \subseteq Generations
    /\ ReloadSound /\ NoWatcherOrphaned

\* A step that leaves watchers and reload alone.
LEMMA WatchersStay ==
    ASSUME WatchersOK, UNCHANGED <<watcher, busy, instance, stopping, reload>>
    PROVE  WatchersOK'
BY DEF WatchersOK, ReloadSound, NoWatcherOrphaned

LEMMA WatchersInit ==
    ASSUME LifeInit
    PROVE  WatchersOK
<1>1. 1 \in Generations
  BY LifecycleAssumption DEF Generations
<1> QED
  BY <1>1 DEF LifeInit, WatchersOK, ReloadSound, NoWatcherOrphaned

\* A poll begins or ends.
LEMMA BusyStep ==
    ASSUME WatchersOK, NEW g \in Generations, PollBegin(g) \/ PollEnd(g)
    PROVE  WatchersOK'
<1>1. UNCHANGED <<watcher, instance, stopping, reload>> /\ busy' \subseteq busy \cup {g}
      /\ (watcher[g] = "polling" \/ busy' \subseteq busy)
  BY DEF PollBegin, PollEnd
<1> QED
  BY <1>1 DEF WatchersOK, ReloadSound, NoWatcherOrphaned

\* A watcher that polls is told to stop, or one that was told ends: nobody
\* else is concerned.
LEMMA StopStep ==
    ASSUME WatchersOK, NEW g \in Generations,
           NEW state \in {"none", "new", "cancelled", "stopped"},
           watcher' = [watcher EXCEPT ![g] = state],
           \/ state = watcher[g]
           \/ state = "cancelled" /\ watcher[g] = "polling"
           \/ state = "stopped" /\ g \notin busy,
           stopping' \in {stopping, stopping \ {g}},
           UNCHANGED <<busy, instance, reload>>
    PROVE  WatchersOK'
<1>1. watcher' \in [Generations -> {"none", "new", "polling", "cancelled", "stopped"}]
  BY DEF WatchersOK
<1>2. \A h \in Generations : watcher'[h] = IF h = g THEN state ELSE watcher[h]
  BY DEF WatchersOK
<1>3. \A h \in busy : h \in Generations /\ watcher'[h] \in {"polling", "cancelled"}
  BY <1>2 DEF WatchersOK
<1>4. ReloadSound'
  BY DEF WatchersOK, ReloadSound
<1>5. NoWatcherOrphaned'
  BY <1>2 DEF WatchersOK, NoWatcherOrphaned
<1>6. instance' \in Generations /\ stopping' \subseteq Generations
  BY DEF WatchersOK
<1> QED
  BY <1>1, <1>3, <1>4, <1>5, <1>6 DEF WatchersOK

\* Stop of a watcher, by the shutdown or by the goroutine of a reload.
LEMMA CancelledStep ==
    ASSUME WatchersOK, NEW g \in Generations, watcher' = Cancelled(g),
           stopping' \in {stopping, stopping \ {g}}, UNCHANGED <<busy, instance, reload>>
    PROVE  WatchersOK'
<1>1. watcher[g] \in {"none", "new", "polling", "cancelled", "stopped"}
  BY DEF WatchersOK
<1>2. watcher' = [watcher EXCEPT ![g] = IF watcher[g] = "polling" THEN "cancelled" ELSE watcher[g]]
  BY DEF Cancelled
<1>3. CASE watcher[g] = "polling"
  <2>1. watcher' = [watcher EXCEPT ![g] = "cancelled"]
    BY <1>2, <1>3
  <2> QED
    BY <1>3, <2>1, StopStep
<1>4. CASE watcher[g] # "polling"
  <2>1. watcher' = [watcher EXCEPT ![g] = watcher[g]]
    BY <1>2, <1>4
  <2>2. watcher[g] \in {"none", "new", "cancelled", "stopped"}
    BY <1>1, <1>4
  <2> QED
    BY <2>1, <2>2, StopStep
<1> QED
  BY <1>3, <1>4

\* buildWatcher: the new one does not poll yet.
LEMMA ReloadBeginStep ==
    ASSUME WatchersOK, NEW by \in Generations \cup {0}, ReloadBegin(by)
    PROVE  WatchersOK'
<1>1. PICK g \in Generations :
          /\ watcher[g] = "none" /\ watcher' = [watcher EXCEPT ![g] = "new"]
          /\ reload' = [pc |-> "swap", by |-> by, new |-> g, old |-> 0]
  BY DEF ReloadBegin
<1>2. reload = NoReload /\ UNCHANGED <<busy, instance, stopping>>
  BY DEF ReloadBegin
<1>3. watcher' \in [Generations -> {"none", "new", "polling", "cancelled", "stopped"}]
      /\ \A h \in Generations : watcher'[h] = IF h = g THEN "new" ELSE watcher[h]
  BY <1>1 DEF WatchersOK
<1>4. busy' \subseteq {h \in Generations : watcher'[h] \in {"polling", "cancelled"}}
  BY <1>1, <1>2, <1>3 DEF WatchersOK
<1>5. reload' \in Reloads /\ reload'.pc = "swap"
  BY <1>1 DEF Reloads
<1>6. reload.pc = "none"
  BY <1>2 DEF NoReload
<1>7. NoWatcherOrphaned'
  BY <1>2, <1>3, <1>6 DEF WatchersOK, NoWatcherOrphaned
<1> QED
  BY <1>2, <1>3, <1>4, <1>5, <1>7 DEF WatchersOK, ReloadSound

\* restart: at every moment the old watcher has somebody to stop it.
LEMMA RestartStep ==
    ASSUME WatchersOK, Restart
    PROVE  WatchersOK'
<1>1. reload.pc \in {"swap", "start", "stop old"}
  BY DEF Restart, RestartSwap, RestartStart, RestartStop
<1>2. reload \in Reloads /\ (reload.pc # "swap" => reload.new = instance /\ reload.old # 0)
  <2>1. NoReload.pc = "none"
    BY DEF NoReload
  <2>2. reload # NoReload
    BY <1>1, <2>1
  <2> QED
    BY <2>2 DEF WatchersOK, ReloadSound
<1>3. /\ reload.new \in Generations /\ reload.by \in Generations \cup {0}
      /\ reload.old \in Generations \cup {0} /\ instance \in Generations
  BY <1>2 DEF Reloads, WatchersOK
<1>4. 0 \notin Generations
  BY DEF Generations
<1>5. CASE RestartSwap
  <2>1. /\ reload.pc = "swap" /\ instance' = reload.new /\ UNCHANGED <<watcher, busy, stopping>>
        /\ reload' = [reload EXCEPT !.pc = "start", !.old = instance]
    BY <1>5 DEF RestartSwap
  <2>2. reload' = [pc |-> "start", by |-> reload.by, new |-> reload.new, old |-> instance]
    BY <1>2, <2>1 DEF Reloads
  <2>3. reload' \in Reloads
    BY <1>3, <2>2 DEF Reloads
  <2>4. reload'.pc = "start" /\ reload'.new = instance' /\ reload'.old = instance /\ instance # 0
    BY <1>3, <1>4, <2>1, <2>2
  <2>5. NoWatcherOrphaned'
    BY <2>1, <2>4 DEF WatchersOK, NoWatcherOrphaned
  <2>6. ReloadSound'
    BY <2>3, <2>4 DEF ReloadSound
  <2> QED
    BY <1>3, <2>1, <2>5, <2>6 DEF WatchersOK
<1>6. CASE RestartStart
  <2>1. /\ reload.pc = "start" /\ UNCHANGED <<busy, instance, stopping>>
        /\ watcher' = [watcher EXCEPT ![reload.new] = "polling"]
        /\ reload' = [reload EXCEPT !.pc = "stop old"]
    BY <1>6 DEF RestartStart
  <2>2. reload' = [pc |-> "stop old", by |-> reload.by, new |-> reload.new, old |-> reload.old]
    BY <1>2, <2>1 DEF Reloads
  <2>3. reload' \in Reloads
    BY <1>3, <2>2 DEF Reloads
  <2>4. reload'.pc = "stop old" /\ reload'.new = instance /\ reload'.old = reload.old /\ reload.old # 0
    BY <1>2, <2>1, <2>2
  <2>5. watcher' \in [Generations -> {"none", "new", "polling", "cancelled", "stopped"}]
        /\ \A h \in Generations : watcher'[h] = IF h = instance THEN "polling" ELSE watcher[h]
    BY <1>2, <1>3, <2>1 DEF WatchersOK
  <2>6. busy' \subseteq {h \in Generations : watcher'[h] \in {"polling", "cancelled"}}
    BY <2>1, <2>5 DEF WatchersOK
  <2>7. NoWatcherOrphaned'
    <3>1. SUFFICES ASSUME NEW g \in Generations, watcher'[g] = "polling"
                   PROVE  g = instance \/ g \in stopping \/ reload.old = g
      BY <2>1, <2>4 DEF NoWatcherOrphaned
    <3>2. CASE g # instance
      <4>1. watcher[g] = "polling"
        BY <3>1, <3>2, <2>5
      <4> QED
        BY <4>1 DEF WatchersOK, NoWatcherOrphaned
    <3> QED
      BY <3>2
  <2>8. ReloadSound'
    BY <2>1, <2>3, <2>4 DEF ReloadSound
  <2> QED
    BY <1>3, <2>1, <2>5, <2>6, <2>7, <2>8 DEF WatchersOK
<1>7. CASE RestartStop
  <2>1. /\ reload.pc = "stop old" /\ UNCHANGED <<watcher, busy, instance>>
        /\ stopping' = stopping \cup {reload.old} /\ reload' = NoReload
    BY <1>7 DEF RestartStop
  <2>2. reload.old \in Generations
    BY <1>2, <1>3, <2>1
  <2>3. NoWatcherOrphaned'
    BY <2>1 DEF WatchersOK, NoWatcherOrphaned
  <2> QED
    BY <2>1, <2>2, <2>3 DEF WatchersOK, ReloadSound
<1> QED
  BY <1>5, <1>6, <1>7 DEF Restart

LEMMA WatchersStep ==
    ASSUME WatchersOK, [LifeNext]_lifeVars
    PROVE  WatchersOK'
<1>1. ASSUME NEW g \in Generations, Poll(g) PROVE WatchersOK'
  <2>1. ASSUME NEW d \in Deploys, PollSubmit(g, d) PROVE WatchersOK'
    BY <2>1, WatchersStay DEF PollSubmit, watchers
  <2>2. CASE PollBegin(g) \/ PollEnd(g)
    BY <2>2, BusyStep
  <2>3. CASE PollExit(g)
    <3>1. g \notin busy /\ watcher' = [watcher EXCEPT ![g] = "stopped"]
          /\ UNCHANGED <<busy, instance, stopping, reload>>
      BY <2>3 DEF PollExit
    <3> QED
      BY <3>1, StopStep
  <2> QED
    BY <1>1, <2>1, <2>2, <2>3 DEF Poll
<1>2. ASSUME NEW g \in Generations, StopOld(g) PROVE WatchersOK'
  <2>1. stopping' = stopping \ {g} /\ watcher' = Cancelled(g) /\ UNCHANGED <<busy, instance, reload>>
    BY <1>2 DEF StopOld
  <2> QED
    BY <2>1, CancelledStep
<1>3. CASE Request
  BY <1>3, WatchersStay DEF Request, watchers
<1>4. CASE RequestEnd
  BY <1>4, WatchersStay DEF RequestEnd, watchers
<1>5. ASSUME NEW d \in Deploys, RequestSubmit(d) PROVE WatchersOK'
  BY <1>5, WatchersStay DEF RequestSubmit, watchers
<1>6. ASSUME NEW by \in Generations \cup {0}, ReloadBegin(by) PROVE WatchersOK'
  BY <1>6, ReloadBeginStep
<1>7. CASE Restart
  BY <1>7, RestartStep
<1>8. CASE Worker
  <2>1. CASE LoopPass
    BY <2>1, WatchersStay DEF LoopPass, watchers
  <2>2. CASE LoopPassEnd
    BY <2>2, WatchersStay DEF LoopPassEnd, watchers
  <2>3. CASE LoopExit
    BY <2>3, WatchersStay DEF LoopExit, watchers
  <2> QED
    BY <1>8, <2>1, <2>2, <2>3 DEF Worker
<1>9. ASSUME NEW j \in Deploys \cup {"teardown"}, JobEnd(j) PROVE WatchersOK'
  BY <1>9, WatchersStay DEF JobEnd, watchers
<1>10. CASE Signal
  BY <1>10, WatchersStay DEF Signal, watchers
<1>11. CASE GraceElapsed
  BY <1>11, WatchersStay DEF GraceElapsed, watchers
<1>12. CASE Shutdown
  <2>1. CASE StopWatcher
    <3>1. watcher' = Cancelled(stopped) /\ UNCHANGED <<busy, instance, stopping, reload>>
      BY <2>1 DEF StopWatcher
    <3>2. CASE stopped \in Generations
      BY <3>1, <3>2, CancelledStep
    <3>3. CASE stopped \notin Generations
      <4>1. watcher' = watcher
        BY <3>1, <3>3 DEF WatchersOK, Cancelled
      <4> QED
        BY <3>1, <4>1, WatchersStay
    <3> QED
      BY <3>2, <3>3
  <2>2. CASE WaitWatcher
    BY <2>2, WatchersStay DEF WaitWatcher, watchers
  <2>3. CASE CancelIntake
    BY <2>3, WatchersStay DEF CancelIntake, watchers
  <2>4. CASE WaitLoop
    BY <2>4, WatchersStay DEF WaitLoop, watchers
  <2>5. CASE Finish
    BY <2>5, WatchersStay DEF Finish, watchers
  <2> QED
    BY <1>12, <2>1, <2>2, <2>3, <2>4, <2>5 DEF Shutdown
<1>13. CASE UNCHANGED lifeVars
  BY <1>13, WatchersStay DEF lifeVars
<1> QED
  BY <1>1, <1>2, <1>3, <1>4, <1>5, <1>6, <1>7, <1>8, <1>9, <1>10, <1>11, <1>12, <1>13 DEF LifeNext

(***************************************************************************)
(* NoWatcherOrphaned: through any number of reloads, asked for by watchers *)
(* or requests and racing the shutdown, a watcher that polls is the one in *)
(* charge or somebody is about to stop it (managedWatcher.restart). That a *)
(* replaced one then stops is liveness, the property ReplacedStops.        *)
(***************************************************************************)
THEOREM WatchersHaveOwners == LifeSpec => []NoWatcherOrphaned
<1>1. LifeInit => WatchersOK
  BY WatchersInit
<1>2. WatchersOK /\ [LifeNext]_lifeVars => WatchersOK'
  BY WatchersStep
<1>3. WatchersOK => NoWatcherOrphaned
  BY DEF WatchersOK
<1> QED
  BY <1>1, <1>2, <1>3, PTL DEF LifeSpec

\* The rest of the types.
JobsOK == jobs \subseteq Deploys \cup {"teardown"} /\ offered \subseteq Deploys
FlagsOK ==
    /\ push \in BOOLEAN /\ trigger \in BOOLEAN /\ accepting \in BOOLEAN
    /\ intake \in BOOLEAN /\ ops \in BOOLEAN /\ lock \in BOOLEAN
StagesOK ==
    /\ loop \in {"idle", "pass", "exited"}
    /\ stage \in {"run", "stop watcher", "wait watcher", "servers down", "wait loop",
                  "stop runner", "done"}

LEMMA JobsStep ==
    ASSUME JobsOK, [LifeNext]_lifeVars
    PROVE  JobsOK'
<1>1. CASE UNCHANGED <<jobs, offered>>
  BY <1>1 DEF JobsOK
<1>2. CASE jobs' \in {jobs, jobs \cup {"teardown"}} /\ UNCHANGED offered
  BY <1>2 DEF JobsOK
<1>3. CASE \E d \in Deploys : jobs' \in {jobs, jobs \cup {d}} /\ offered' = offered \cup {d}
  BY <1>3 DEF JobsOK
<1>4. CASE \E j : jobs' = jobs \ {j} /\ UNCHANGED offered
  BY <1>4 DEF JobsOK
<1>5. ASSUME NEW g \in Generations, Poll(g) \/ StopOld(g) PROVE JobsOK'
  BY <1>1, <1>3, <1>5 DEF Poll, PollBegin, PollEnd, PollExit, PollSubmit, StopOld
<1>6. ASSUME NEW d \in Deploys, RequestSubmit(d) PROVE JobsOK'
  BY <1>3, <1>6 DEF RequestSubmit
<1>7. ASSUME NEW by \in Generations \cup {0}, ReloadBegin(by) PROVE JobsOK'
  BY <1>1, <1>7 DEF ReloadBegin
<1>8. CASE Restart
  BY <1>1, <1>8 DEF Restart, RestartSwap, RestartStart, RestartStop
<1>9. CASE Worker
  BY <1>1, <1>2, <1>9 DEF Worker, LoopPass, LoopPassEnd, LoopExit
<1>10. ASSUME NEW j \in Deploys \cup {"teardown"}, JobEnd(j) PROVE JobsOK'
  BY <1>4, <1>10 DEF JobEnd
<1>11. CASE Request \/ RequestEnd \/ Signal \/ GraceElapsed
  BY <1>1, <1>11 DEF Request, RequestEnd, Signal, GraceElapsed
<1>12. CASE Shutdown
  BY <1>1, <1>12 DEF Shutdown, StopWatcher, WaitWatcher, CancelIntake, WaitLoop, Finish
<1>13. CASE UNCHANGED lifeVars
  BY <1>1, <1>13 DEF lifeVars
<1> QED
  BY <1>5, <1>6, <1>7, <1>8, <1>9, <1>10, <1>11, <1>12, <1>13 DEF LifeNext

LEMMA FlagsStep ==
    ASSUME FlagsOK, [LifeNext]_lifeVars
    PROVE  FlagsOK'
<1>1. ASSUME NEW g \in Generations, Poll(g) \/ StopOld(g) PROVE FlagsOK'
  BY <1>1 DEF Poll, PollBegin, PollEnd, PollExit, PollSubmit, StopOld,
     worker, contexts, closing, FlagsOK
<1>2. CASE Request
  BY <1>2 DEF Request, worker, contexts, closing, FlagsOK
<1>3. CASE RequestEnd
  BY <1>3 DEF RequestEnd, worker, contexts, closing, FlagsOK
<1>4. ASSUME NEW d \in Deploys, RequestSubmit(d) PROVE FlagsOK'
  BY <1>4 DEF RequestSubmit, worker, contexts, closing, FlagsOK
<1>5. ASSUME NEW by \in Generations \cup {0}, ReloadBegin(by) PROVE FlagsOK'
  BY <1>5 DEF ReloadBegin, worker, contexts, closing, FlagsOK
<1>6. CASE Restart
  BY <1>6 DEF Restart, RestartSwap, RestartStart, RestartStop,
     worker, contexts, closing, FlagsOK
<1>7. CASE Worker
  BY <1>7 DEF Worker, LoopPass, LoopPassEnd, LoopExit,
     worker, contexts, closing, FlagsOK
<1>8. ASSUME NEW j \in Deploys \cup {"teardown"}, JobEnd(j) PROVE FlagsOK'
  BY <1>8 DEF JobEnd, worker, contexts, closing, FlagsOK
<1>9. CASE Signal
  BY <1>9 DEF Signal, worker, contexts, closing, FlagsOK
<1>10. CASE GraceElapsed
  BY <1>10 DEF GraceElapsed, worker, contexts, closing, FlagsOK
<1>11. CASE Shutdown
  BY <1>11, LifecycleAssumption DEF Shutdown, StopWatcher, WaitWatcher, CancelIntake, WaitLoop,
     Finish, worker, contexts, closing, FlagsOK
<1>12. CASE UNCHANGED lifeVars
  BY <1>12 DEF lifeVars, FlagsOK
<1> QED
  BY <1>1, <1>2, <1>3, <1>4, <1>5, <1>6, <1>7, <1>8, <1>9, <1>10, <1>11, <1>12 DEF LifeNext

LEMMA StagesStep ==
    ASSUME StagesOK, [LifeNext]_lifeVars
    PROVE  StagesOK'
<1>1. ASSUME NEW g \in Generations, Poll(g) \/ StopOld(g) PROVE StagesOK'
  BY <1>1 DEF Poll, PollBegin, PollEnd, PollExit, PollSubmit, StopOld,
     worker, contexts, closing, StagesOK
<1>2. CASE Request
  BY <1>2 DEF Request, worker, contexts, closing, StagesOK
<1>3. CASE RequestEnd
  BY <1>3 DEF RequestEnd, worker, contexts, closing, StagesOK
<1>4. ASSUME NEW d \in Deploys, RequestSubmit(d) PROVE StagesOK'
  BY <1>4 DEF RequestSubmit, worker, contexts, closing, StagesOK
<1>5. ASSUME NEW by \in Generations \cup {0}, ReloadBegin(by) PROVE StagesOK'
  BY <1>5 DEF ReloadBegin, worker, contexts, closing, StagesOK
<1>6. CASE Restart
  BY <1>6 DEF Restart, RestartSwap, RestartStart, RestartStop,
     worker, contexts, closing, StagesOK
<1>7. CASE Worker
  BY <1>7 DEF Worker, LoopPass, LoopPassEnd, LoopExit,
     worker, contexts, closing, StagesOK
<1>8. ASSUME NEW j \in Deploys \cup {"teardown"}, JobEnd(j) PROVE StagesOK'
  BY <1>8 DEF JobEnd, worker, contexts, closing, StagesOK
<1>9. CASE Signal
  BY <1>9 DEF Signal, worker, contexts, closing, StagesOK
<1>10. CASE GraceElapsed
  BY <1>10 DEF GraceElapsed, worker, contexts, closing, StagesOK
<1>11. CASE Shutdown
  BY <1>11 DEF Shutdown, StopWatcher, WaitWatcher, CancelIntake, WaitLoop,
     Finish, worker, contexts, closing, StagesOK
<1>12. CASE UNCHANGED lifeVars
  BY <1>12 DEF lifeVars, StagesOK
<1> QED
  BY <1>1, <1>2, <1>3, <1>4, <1>5, <1>6, <1>7, <1>8, <1>9, <1>10, <1>11, <1>12 DEF LifeNext

(***************************************************************************)
(* The goroutines and stages of the daemon stay in their types, and only a *)
(* watcher that was started and has not ended is inside its handlers.      *)
(***************************************************************************)
THEOREM LifecycleTypes == LifeSpec => []LifeTypeOK
<1>1. LifeInit => WatchersOK
  BY WatchersInit
<1>2. LifeInit => JobsOK /\ FlagsOK /\ StagesOK
  BY DEF LifeInit, JobsOK, FlagsOK, StagesOK
<1>3. WatchersOK /\ [LifeNext]_lifeVars => WatchersOK'
  BY WatchersStep
<1>4. JobsOK /\ [LifeNext]_lifeVars => JobsOK'
  BY JobsStep
<1>5. FlagsOK /\ [LifeNext]_lifeVars => FlagsOK'
  BY FlagsStep
<1>6. StagesOK /\ [LifeNext]_lifeVars => StagesOK'
  BY StagesStep
<1>7. WatchersOK /\ JobsOK /\ FlagsOK /\ StagesOK => LifeTypeOK
  BY DEF LifeTypeOK, WatchersOK, JobsOK, FlagsOK, StagesOK
<1> QED
  BY <1>1, <1>2, <1>3, <1>4, <1>5, <1>6, <1>7, PTL DEF LifeSpec
=============================================================================
