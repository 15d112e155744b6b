------------------------- MODULE ConfigSourceProofs -------------------------
(***************************************************************************)
(* A configuration that is not fit to run with never gets into the cache   *)
(* or, from git, into effect; with a fit one the planner finds every       *)
(* target; reloads that come one at a time never go back; and a push       *)
(* deploys exactly what its files ask for, whatever patterns there are.    *)
(***************************************************************************)
EXTENDS ConfigSource, WellFoundedInduction, TLAPS

(***************************************************************************)
(* Validation and planner look up the same names: of a document without    *)
(* blocking issues AllTargets passes over nothing.                         *)
(***************************************************************************)
LEMMA ReferencesResolve ==
    ASSUME NEW doc, BlockingIssues(doc) = {},
           NEW project \in Elements(doc.projects),
           NEW host \in Elements(project.targets)
    PROVE  [project |-> project.name, repo |-> project.repo, host |-> host] \in AllTargets(doc)
<1>1. PICK i \in DOMAIN doc.projects : project = doc.projects[i]
  BY DEF Elements
<1>2. i \notin BadProjects(doc)
  <2>1. SUFFICES ASSUME i \in BadProjects(doc) PROVE FALSE
    OBVIOUS
  <2>2. [section |-> "projects", at |-> i, severity |-> "error"] \in BlockingIssues(doc)
    BY <2>1 DEF BlockingIssues, Validate, Issues
  <2> QED BY <2>2
<1>3. project.repo \in Names(doc.repos) /\ host \in Names(doc.hosts)
  BY <1>1, <1>2 DEF BadProjects, Seen
<1>4. [project |-> project.name, repo |-> project.repo, host |-> host] \in TargetsOf(doc, project)
  BY <1>3 DEF TargetsOf
<1> QED BY <1>4 DEF AllTargets

(***************************************************************************)
(* EveryTargetPlanned: whatever edition is in effect.                      *)
(***************************************************************************)
THEOREM TargetsPlanned == Spec => []EveryTargetPlanned
<1>1. EveryTargetPlanned
  BY ReferencesResolve DEF EveryTargetPlanned, Blocking
<1> QED BY <1>1, PTL

-----------------------------------------------------------------------------
\* An edition, once written, stays what it is.
LEMMA EditionsStay ==
    ASSUME NEW e \in DOMAIN editions, editions \in Seq(Documents), Edit
    PROVE  /\ editions' \in Seq(Documents) /\ DOMAIN editions \subseteq DOMAIN editions'
           /\ editions'[e] = editions[e]
BY DEF Edit

LEMMA InitInv == Init => IndInv
<1> SUFFICES ASSUME Init PROVE IndInv
  OBVIOUS
<1> USE ConfigSourceAssumption
<1>1. PICK first \in Documents : editions = <<first>>
  BY DEF Init
<1>2. editions \in Seq(Documents) /\ DOMAIN editions = {1}
  BY <1>1
<1>3. TypeOK
  BY <1>2 DEF Init, TypeOK, Idle
<1>4. NothingBroken
  BY DEF Init, NothingBroken
<1>5. LoadersSound
  BY DEF Init, LoadersSound, Idle
<1> QED BY <1>3, <1>4, <1>5 DEF IndInv

\* Every step preserves the invariant.
LEMMA StepInv == IndInv /\ [Next]_vars => IndInv'
<1> SUFFICES ASSUME IndInv, [Next]_vars PROVE IndInv'
  OBVIOUS
<1> USE ConfigSourceAssumption DEF IndInv, latest
<1>1. CASE UNCHANGED vars
  BY <1>1 DEF vars, TypeOK, NothingBroken, LoadersSound, Parses, parseAndValidate
<1>2. CASE Next
  <2> serial' \in BOOLEAN /\ source' = source
    BY <1>2 DEF Next, Frame, TypeOK
  <2>1. CASE Edit
    <3>1. editions' \in Seq(Documents) /\ DOMAIN editions \subseteq DOMAIN editions'
      BY <2>1 DEF Edit, TypeOK
    <3>2. \A e \in DOMAIN editions : editions'[e] = editions[e]
      BY <2>1, EditionsStay DEF TypeOK
    <3>3. TypeOK'
      BY <2>1, <3>1 DEF Edit, TypeOK
    <3>4. NothingBroken' /\ LoadersSound'
      BY <2>1, <3>2 DEF Edit, TypeOK, NothingBroken, LoadersSound, Parses, parseAndValidate
    <3> QED BY <3>3, <3>4
  <2>2. CASE Crash
    BY <2>2 DEF Crash, TypeOK, NothingBroken, LoadersSound, Parses, parseAndValidate, Idle
  <2>3. CASE Restart
    BY <2>3 DEF Restart, TypeOK, NothingBroken, LoadersSound, Parses, parseAndValidate
  <2>4. ASSUME NEW l \in Loaders, LoadFails(l), notice' \in Nat, faults' \in 0..MaxFaults
        PROVE  IndInv'
    BY <2>4 DEF LoadFails, TypeOK, NothingBroken, LoadersSound, Parses, parseAndValidate, Idle
  <2>5. ASSUME NEW l \in Loaders, LoadStart(l) PROVE IndInv'
    <3>1. notice' \in Nat
      BY <2>5 DEF LoadStart, TypeOK
    <3>2. CASE LoadFails(l) /\ faults < MaxFaults /\ faults' = faults + 1
      <4>1. faults' \in 0..MaxFaults
        BY <3>2 DEF TypeOK
      <4> QED BY <2>4, <3>1, <3>2, <4>1
    <3>3. CASE /\ Goto(l, "read", latest)
               /\ UNCHANGED <<editions, config, cache, phase, faults, crashes>>
      <4>1. latest \in DOMAIN editions /\ latest # 0
        BY DEF TypeOK
      <4>2. TypeOK'
        BY <3>1, <3>3, <4>1 DEF Goto, TypeOK
      <4>3. NothingBroken' /\ LoadersSound'
        BY <3>3, <4>1 DEF Goto, TypeOK, NothingBroken, LoadersSound, Parses, parseAndValidate
      <4> QED BY <4>2, <4>3
    <3> QED BY <2>5, <3>2, <3>3 DEF LoadStart
  <2>6. ASSUME NEW l \in Loaders, LoadRead(l) PROVE IndInv'
    <3>1. notice' \in Nat
      BY <2>6 DEF LoadRead, TypeOK
    <3>2. CASE LoadFails(l) /\ (UNCHANGED faults \/ (faults < MaxFaults /\ faults' = faults + 1))
      <4>1. faults' \in 0..MaxFaults
        BY <3>2 DEF TypeOK
      <4> QED BY <2>4, <3>1, <3>2, <4>1
    <3>3. CASE /\ loader[l].pc = "read"
               /\ IF source = "git" THEN parseAndValidate(loader[l].edition) ELSE Parses(loader[l].edition)
               /\ Goto(l, IF source = "git" THEN "cache" ELSE "apply", loader[l].edition)
               /\ UNCHANGED <<editions, config, cache, phase, faults, crashes>>
      <4>1. TypeOK'
        BY <3>1, <3>3 DEF Goto, TypeOK
      <4>2. NothingBroken' /\ LoadersSound'
        BY <3>3 DEF Goto, TypeOK, NothingBroken, LoadersSound, Parses, parseAndValidate
      <4> QED BY <4>1, <4>2
    <3> QED BY <2>6, <3>2, <3>3 DEF LoadRead
  <2>7. ASSUME NEW l \in Loaders, WriteCache(l) PROVE IndInv'
    <3>1. TypeOK'
      BY <2>7 DEF WriteCache, Goto, TypeOK
    <3>2. NothingBroken' /\ LoadersSound'
      BY <2>7 DEF WriteCache, Goto, TypeOK, NothingBroken, LoadersSound, Parses, parseAndValidate
    <3> QED BY <3>1, <3>2
  <2>8. ASSUME NEW l \in Loaders, Apply(l) PROVE IndInv'
    <3>1. TypeOK'
      BY <2>8 DEF Apply, TypeOK, LoadersSound, Idle
    <3>2. NothingBroken' /\ LoadersSound'
      BY <2>8 DEF Apply, TypeOK, NothingBroken, LoadersSound, Parses, parseAndValidate, Idle
    <3> QED BY <3>1, <3>2
  <2> QED BY <1>2, <2>1, <2>2, <2>3, <2>5, <2>6, <2>7, <2>8 DEF Next, Load
<1> QED BY <1>1, <1>2

(***************************************************************************)
(* The loaders, the cache and the daemon only ever hold editions that      *)
(* passed what their source asks for.                                      *)
(***************************************************************************)
THEOREM LoadersInvariant == Spec => []IndInv
BY InitInv, StepInv, PTL DEF Spec

(***************************************************************************)
(* Nothing broken is cached or, from git, in effect, through any number of *)
(* editions, concurrent reloads, failures and crashes.                     *)
(***************************************************************************)
THEOREM NothingBrokenEver == Spec => []NothingBroken
<1>1. IndInv => NothingBroken
  BY DEF IndInv
<1> QED BY LoadersInvariant, <1>1, PTL

(***************************************************************************)
(* No reload of a running daemon brings in an edition with blocking issues *)
(* (applyConfigChange).                                                    *)
(***************************************************************************)
THEOREM ReloadsStaySound == Spec => ReloadsAreSound
<1> DEFINE Sound == phase = "up" /\ config' # config => Parses(config') /\ ~Blocking(config')
<1>1. IndInv /\ [Next]_vars => [Sound]_vars
  <2> SUFFICES ASSUME IndInv, Next, phase = "up", config' # config
               PROVE  Parses(config') /\ ~Blocking(config')
    BY DEF vars
  <2>1. PICK l \in Loaders : Apply(l)
    BY DEF Next, Edit, Crash, Restart, Load, LoadStart, LoadRead, WriteCache, LoadFails
  <2> QED BY <2>1 DEF Apply, IndInv, LoadersSound
<1> QED BY LoadersInvariant, <1>1, PTL DEF Spec, ReloadsAreSound

-----------------------------------------------------------------------------
\* While loads come one at a time, the one under way brings nothing older than
\* what is in effect, and neither would a start from the cache.
LoadsInOrder ==
    serial => /\ Undisturbed
              /\ \A l \in Loaders : loader[l] # Idle => config <= loader[l].edition
              /\ source = "git" => config <= cache

OrderInv == IndInv /\ LoadsInOrder

LEMMA InitOrder == Init => LoadsInOrder
<1> SUFFICES ASSUME Init PROVE LoadsInOrder
  OBVIOUS
<1>1. \A l \in Loaders : loader[l] = Idle
  BY DEF Init
<1>2. Undisturbed
  BY <1>1 DEF Undisturbed, Idle
<1>3. source = "git" => config <= cache
  BY DEF Init
<1> QED BY <1>1, <1>2, <1>3 DEF LoadsInOrder

\* A load that failed leaves the configuration, or takes the cache.
LEMMA LoadFailsOrder ==
    ASSUME IndInv, LoadsInOrder, serial, NEW l \in Loaders, LoadFails(l), source' = source,
           \A m \in Loaders \ {l} : phase = "starting" => loader[m] = Idle
    PROVE  /\ config' >= config
           /\ \A m \in Loaders : loader'[m] # Idle => config' <= loader'[m].edition
           /\ source' = "git" => config' <= cache'
<1>1. loader' = [loader EXCEPT ![l] = Idle] /\ cache' = cache
  BY DEF LoadFails
<1>2. config \in Nat /\ cache \in Nat
  BY DEF IndInv, TypeOK
<1>3. \A m \in Loaders : loader'[m] # Idle => m # l /\ loader'[m] = loader[m]
  BY <1>1 DEF IndInv, TypeOK
<1>4. CASE config' = config
  BY <1>1, <1>2, <1>3, <1>4 DEF LoadsInOrder
<1>5. CASE phase = "starting" /\ source = "git" /\ config' = cache
  <2>1. \A m \in Loaders : loader'[m] = Idle
    BY <1>3, <1>5
  <2> QED BY <1>1, <1>2, <1>5, <2>1 DEF LoadsInOrder
<1> QED BY <1>4, <1>5 DEF LoadFails

\* A step that keeps the loads serial keeps them in order, and the
\* configuration does not go back.
LEMMA SerialStep ==
    ASSUME IndInv, LoadsInOrder, Next, serial'
    PROVE  LoadsInOrder' /\ config' >= config
<1>1. serial /\ Undisturbed' /\ source' = source
  BY DEF Next, Frame, IndInv, TypeOK
<1>2. /\ config \in Nat /\ config # 0 /\ cache \in Nat /\ config <= latest /\ latest \in Nat
      /\ \A l \in Loaders : loader[l].edition \in Nat
  BY DEF IndInv, TypeOK, latest
<1>3. /\ Undisturbed
      /\ \A l \in Loaders : loader[l] # Idle => config <= loader[l].edition
      /\ source = "git" => config <= cache
  BY <1>1 DEF LoadsInOrder
<1> DEFINE Goal == /\ config' >= config
                   /\ \A m \in Loaders : loader'[m] # Idle => config' <= loader'[m].edition
                   /\ source' = "git" => config' <= cache'
<1>4. SUFFICES Goal
  BY <1>1 DEF LoadsInOrder
<1>5. CASE Edit \/ Restart
  BY <1>1, <1>2, <1>3, <1>5 DEF Edit, Restart
<1>6. CASE Crash
  BY <1>1, <1>2, <1>3, <1>6 DEF Crash
<1>7. ASSUME NEW l \in Loaders, LoadStart(l) PROVE Goal
  <2>1. CASE LoadFails(l)
    BY <1>1, <1>7, <2>1, LoadFailsOrder DEF LoadStart
  <2>2. CASE Goto(l, "read", latest) /\ UNCHANGED <<editions, config, cache, phase, faults, crashes>>
    <3>1. \A m \in Loaders : loader'[m] = IF m = l THEN [pc |-> "read", edition |-> latest] ELSE loader[m]
      BY <2>2 DEF Goto, IndInv, TypeOK
    <3> QED BY <1>1, <1>2, <1>3, <2>2, <3>1
  <2> QED BY <1>7, <2>1, <2>2 DEF LoadStart
<1>8. ASSUME NEW l \in Loaders, loader[l].pc # "idle" PROVE \A m \in Loaders \ {l} : loader[m] = Idle
  BY <1>3, <1>8 DEF Undisturbed, Idle
<1>9. ASSUME NEW l \in Loaders, loader[l].pc # "idle" PROVE config <= loader[l].edition
  BY <1>3, <1>9 DEF Idle
<1>10. ASSUME NEW l \in Loaders, LoadRead(l) PROVE Goal
  <2>0. loader[l].pc # "idle"
    BY <1>10 DEF LoadRead
  <2>1. CASE LoadFails(l)
    BY <1>1, <1>8, <2>0, <2>1, LoadFailsOrder
  <2>2. CASE /\ \E where \in {"cache", "apply"} : Goto(l, where, loader[l].edition)
             /\ UNCHANGED <<config, cache>>
    <3>1. loader'[l].edition = loader[l].edition /\ \A m \in Loaders \ {l} : loader'[m] = loader[m]
      BY <2>2 DEF Goto, IndInv, TypeOK
    <3> QED BY <1>1, <1>2, <1>3, <1>9, <2>0, <2>2, <3>1
  <2> QED BY <1>10, <2>1, <2>2 DEF LoadRead
<1>11. ASSUME NEW l \in Loaders, WriteCache(l) PROVE Goal
  <2>1. /\ loader[l].pc # "idle" /\ Goto(l, "apply", loader[l].edition) /\ UNCHANGED config
        /\ cache' \in {cache, loader[l].edition}
    BY <1>11 DEF WriteCache
  <2>2. loader'[l].edition = loader[l].edition /\ \A m \in Loaders \ {l} : loader'[m] = loader[m]
    BY <2>1 DEF Goto, IndInv, TypeOK
  <2> QED BY <1>1, <1>2, <1>3, <1>9, <2>1, <2>2
<1>12. ASSUME NEW l \in Loaders, Apply(l) PROVE Goal
  <2>1. /\ loader[l].pc = "apply" /\ loader' = [loader EXCEPT ![l] = Idle] /\ cache' = cache
        /\ config' \in {config, loader[l].edition}
    BY <1>12 DEF Apply
  <2>2. \A m \in Loaders : loader'[m] = Idle
    BY <1>8, <2>1 DEF IndInv, TypeOK
  <2>3. source = "git" => cache = loader[l].edition
    BY <1>3, <2>1 DEF Undisturbed
  <2> QED BY <1>1, <1>2, <1>3, <1>9, <2>1, <2>2, <2>3
<1> QED BY <1>5, <1>6, <1>7, <1>10, <1>11, <1>12 DEF Next, Load

(***************************************************************************)
(* The daemon never goes back to an older edition, as long as no two loads *)
(* overlap and the cache is written: what a load read is not older than    *)
(* what is in effect, and what is in effect is not newer than the cache.   *)
(***************************************************************************)
THEOREM NeverGoesBack == Spec => NeverRegresses
<1> DEFINE Forward == serial' => config' >= config
<1>1. Init => OrderInv
  BY InitInv, InitOrder DEF OrderInv
<1>2. OrderInv /\ [Next]_vars => OrderInv'
  <2> SUFFICES ASSUME OrderInv, [Next]_vars PROVE LoadsInOrder'
    BY StepInv DEF OrderInv
  <2>1. CASE Next
    BY <2>1, SerialStep DEF OrderInv, LoadsInOrder
  <2>2. CASE UNCHANGED vars
    BY <2>2 DEF OrderInv, LoadsInOrder, Undisturbed, vars
  <2> QED BY <2>1, <2>2
<1>3. OrderInv /\ [Next]_vars => [Forward]_vars
  BY SerialStep DEF OrderInv
<1>4. NeverRegresses <=> [][Forward]_vars
  BY DEF NeverRegresses
<1> QED BY <1>1, <1>2, <1>3, <1>4, PTL DEF Spec

-----------------------------------------------------------------------------
(***************************************************************************)
(* The glob matcher. matchParts is defined by recursion over pattern and   *)
(* path, Covers by a cut of the path. That a set of naturals has a least   *)
(* element stands in for induction. Covers satisfies the equation that     *)
(* defines match, so the function exists; two functions that satisfy it    *)
(* cannot first differ anywhere, so match is Covers.                       *)
(***************************************************************************)
LEMMA LeastNat ==
    ASSUME NEW T \in SUBSET Nat, T # {}
    PROVE  \E m \in T : \A n \in T : m <= n
<1> DEFINE R == OpToRel(<, Nat)
<1>1. IsWellFoundedOn(R, Nat)
  BY NatLessThanWellFounded
<1>2. \A m, n \in Nat : m < n => <<m, n>> \in R
  BY DEF OpToRel
<1> HIDE DEF R
<1>3. PICK m \in T : \A n \in T : ~(<<n, m>> \in R)
  BY <1>1, WFMin
<1>4. \A n \in T : m \in Nat /\ n \in Nat /\ ~(n < m)
  BY <1>2, <1>3
<1>5. \A n \in T : m <= n
  BY <1>4
<1> QED
  BY <1>5

\* Segments of patterns and paths. (The provers do not know that "**", which
\* WatchPaths adds, is a string.)
Segment == STRING \cup {"**"}

\* Where match looks: a segment of the pattern and one of the path.
Places(pattern, path) == (1..Len(pattern) + 1) \X (1..Len(path) + 1)

\* matchParts one segment on, with what g says of the rest.
MatchStep(pattern, path, g, at) ==
    LET p == at[1]
        f == at[2]
    IN CASE p > Len(pattern) -> f > Len(path)
         [] p <= Len(pattern) /\ pattern[p] = "**" ->
               g[<<p + 1, f>>] \/ (f <= Len(path) /\ g[<<p, f + 1>>])
         [] OTHER -> /\ f <= Len(path)
                     /\ Match(pattern[p], path[f]) /\ g[<<p + 1, f + 1>>]

IsMatch(pattern, path, g) == g = [at \in Places(pattern, path) |-> MatchStep(pattern, path, g, at)]

\* matchParts is a function that satisfies the equation, if there is one.
LEMMA MatchDefined ==
    ASSUME NEW pattern, NEW path, NEW h, IsMatch(pattern, path, h)
    PROVE  \E g : IsMatch(pattern, path, g) /\ matchParts(pattern, path) = g[<<1, 1>>]
<1> DEFINE g == CHOOSE g : IsMatch(pattern, path, g)
<1>1. IsMatch(pattern, path, g)
  BY Zenon
<1>2. matchParts(pattern, path) = g[<<1,1>>]
  BY DEF matchParts, IsMatch, MatchStep, Places
<1> HIDE DEF g
<1> QED BY <1>1, <1>2

\* The cuts of Covers, from segment p of the pattern and f of the path on.
Fits(pattern, path, cut, i) ==
    IF pattern[i] = "**" THEN cut[i] >= cut[i - 1]
    ELSE cut[i] = cut[i - 1] + 1 /\ Match(pattern[i], path[cut[i]])

CutFrom(pattern, path, p, f, cut) ==
    /\ cut \in [0..Len(pattern) -> 0..Len(path)]
    /\ cut[p - 1] = f - 1 /\ cut[Len(pattern)] = Len(path)
    /\ \A i \in p..Len(pattern) : Fits(pattern, path, cut, i)

CoversFrom(pattern, path, p, f) == \E cut : CutFrom(pattern, path, p, f, cut)

\* From the first segments on, that is all of Covers.
LEMMA CoversAll ==
    ASSUME NEW pattern \in Seq(Segment), NEW path \in Seq(Segment)
    PROVE  Covers(pattern, path) <=> CoversFrom(pattern, path, 1, 1)
<1>1. Len(pattern) \in Nat /\ DOMAIN pattern = 1..Len(pattern)
  OBVIOUS
<1>2. ASSUME NEW cut
      PROVE CutFrom(pattern, path, 1, 1, cut) <=>
              /\ cut \in [0..Len(pattern) -> 0..Len(path)]
              /\ cut[0] = 0 /\ cut[Len(pattern)] = Len(path)
              /\ \A i \in DOMAIN pattern : Fits(pattern, path, cut, i)
  BY <1>1 DEF CutFrom
<1> QED
  BY <1>2 DEF Covers, CoversFrom, Fits

\* A cut that is moved at p - 1 only.
LEMMA MovedCut ==
    ASSUME NEW pattern \in Seq(Segment), NEW path \in Seq(Segment),
           NEW p \in 1..Len(pattern), NEW f \in 1..Len(path) + 1,
           NEW cut \in [0..Len(pattern) -> 0..Len(path)],
           cut[Len(pattern)] = Len(path),
           \A i \in p + 1..Len(pattern) : Fits(pattern, path, cut, i),
           NEW e, e = f - 1, NEW c, c = [cut EXCEPT ![p - 1] = e], Fits(pattern, path, c, p)
    PROVE  CoversFrom(pattern, path, p, f)
<1>1. Len(pattern) \in Nat /\ Len(path) \in Nat /\ p - 1 \in 0..Len(pattern) /\ f - 1 \in 0..Len(path)
      /\ p - 1 # Len(pattern)
  OBVIOUS
<1>2. c \in [0..Len(pattern) -> 0..Len(path)] /\ c[p - 1] = f - 1
      /\ \A i \in 0..Len(pattern) : i # p - 1 => c[i] = cut[i]
  BY <1>1
<1>3. ASSUME NEW i \in p + 1..Len(pattern) PROVE Fits(pattern, path, c, i)
  <2>1. i \in 0..Len(pattern) /\ i # p - 1 /\ i - 1 \in 0..Len(pattern) /\ i - 1 # p - 1
    BY <1>1
  <2>2. c[i] = cut[i] /\ c[i - 1] = cut[i - 1]
    BY <1>2, <2>1
  <2> QED
    BY <2>2 DEF Fits
<1>4. \A i \in p..Len(pattern) : i = p \/ i \in p + 1..Len(pattern)
  BY <1>1
<1>5. c[Len(pattern)] = Len(path)
  BY <1>1, <1>2
<1>6. CutFrom(pattern, path, p, f, c)
  BY <1>2, <1>3, <1>4, <1>5 DEF CutFrom
<1> QED
  BY <1>6 DEF CoversFrom

\* Nothing is left of the pattern.
LEMMA CoversEnd ==
    ASSUME NEW pattern \in Seq(Segment), NEW path \in Seq(Segment), NEW f \in 1..Len(path) + 1
    PROVE  CoversFrom(pattern, path, Len(pattern) + 1, f) <=> f > Len(path)
<1>1. Len(pattern) \in Nat /\ Len(path) \in Nat
  OBVIOUS
<1>2. ASSUME NEW cut, CutFrom(pattern, path, Len(pattern) + 1, f, cut) PROVE f > Len(path)
  BY <1>1, <1>2 DEF CutFrom
<1>3. ASSUME f > Len(path) PROVE CoversFrom(pattern, path, Len(pattern) + 1, f)
  <2> DEFINE c == [i \in 0..Len(pattern) |-> Len(path)]
  <2>1. c \in [0..Len(pattern) -> 0..Len(path)] /\ c[Len(pattern)] = Len(path)
    BY <1>1
  <2>2. f - 1 = Len(path) /\ Len(pattern) + 1 - 1 = Len(pattern)
        /\ Len(pattern) + 1..Len(pattern) = {}
    BY <1>1, <1>3
  <2> HIDE DEF c
  <2>3. CutFrom(pattern, path, Len(pattern) + 1, f, c)
    BY <2>1, <2>2 DEF CutFrom
  <2> QED
    BY <2>3 DEF CoversFrom
<1> QED
  BY <1>2, <1>3 DEF CoversFrom

\* "**" takes nothing, or one segment and the rest of what it takes.
LEMMA CoversStar ==
    ASSUME NEW pattern \in Seq(Segment), NEW path \in Seq(Segment),
           NEW p \in 1..Len(pattern), NEW f \in 1..Len(path) + 1, pattern[p] = "**"
    PROVE  CoversFrom(pattern, path, p, f) <=>
              \/ CoversFrom(pattern, path, p + 1, f)
              \/ f <= Len(path) /\ CoversFrom(pattern, path, p, f + 1)
<1>1. /\ Len(pattern) \in Nat /\ Len(path) \in Nat /\ p \in Nat /\ f \in Nat
      /\ p - 1 \in 0..Len(pattern) /\ p \in 0..Len(pattern) /\ p + 1 - 1 = p /\ f + 1 - 1 = f
      /\ p # p - 1
  OBVIOUS
<1>2. ASSUME NEW cut, CutFrom(pattern, path, p, f, cut)
      PROVE  \/ CoversFrom(pattern, path, p + 1, f)
             \/ f <= Len(path) /\ CoversFrom(pattern, path, p, f + 1)
  <2>1. /\ cut \in [0..Len(pattern) -> 0..Len(path)] /\ cut[p - 1] = f - 1
        /\ cut[Len(pattern)] = Len(path) /\ \A i \in p..Len(pattern) : Fits(pattern, path, cut, i)
    BY <1>2 DEF CutFrom
  <2>2. \A i \in p + 1..Len(pattern) : Fits(pattern, path, cut, i)
    BY <1>1, <2>1
  <2>3. cut[p] \in 0..Len(path) /\ cut[p] >= f - 1
    <3>1. Fits(pattern, path, cut, p)
      BY <1>1, <2>1
    <3> QED
      BY <1>1, <2>1, <3>1 DEF Fits
  <2>4. CASE cut[p] = f - 1
    <3>1. CutFrom(pattern, path, p + 1, f, cut)
      BY <1>1, <2>1, <2>2, <2>4 DEF CutFrom
    <3> QED
      BY <3>1 DEF CoversFrom
  <2>5. CASE cut[p] >= f
    <3>1. f <= Len(path) /\ f + 1 \in 1..Len(path) + 1
      BY <1>1, <2>3, <2>5
    <3> DEFINE c == [cut EXCEPT ![p - 1] = f]
    <3>2. c[p] = cut[p] /\ c[p - 1] = f
      BY <1>1, <2>1
    <3>3. c = [cut EXCEPT ![p - 1] = f]
      OBVIOUS
    <3> HIDE DEF c
    <3>4. Fits(pattern, path, c, p)
      BY <2>5, <3>2 DEF Fits
    <3>5. PICK g \in 1..Len(path) + 1 : g = f + 1 /\ f = g - 1
      BY <1>1, <3>1
    <3>6. CoversFrom(pattern, path, p, g)
      BY <2>1, <2>2, <3>3, <3>4, <3>5, MovedCut
    <3> QED
      BY <3>1, <3>5, <3>6
  <2> QED
    BY <1>1, <2>3, <2>4, <2>5
<1>3. ASSUME NEW cut, NEW g \in 1..Len(path) + 1, NEW q \in {p, p + 1},
             CutFrom(pattern, path, q, g, cut), q = p + 1 => g = f, q = p => g = f + 1
      PROVE  CoversFrom(pattern, path, p, f)
  <2>1. /\ cut \in [0..Len(pattern) -> 0..Len(path)] /\ cut[q - 1] = g - 1
        /\ cut[Len(pattern)] = Len(path) /\ \A i \in q..Len(pattern) : Fits(pattern, path, cut, i)
    BY <1>3 DEF CutFrom
  <2>2. \A i \in p + 1..Len(pattern) : Fits(pattern, path, cut, i)
    BY <1>1, <2>1
  <2>3. cut[p] \in 0..Len(path) /\ cut[p] >= f - 1
    <3>1. cut[p] \in 0..Len(path)
      BY <1>1, <2>1
    <3>2. CASE q = p
      <4>1. Fits(pattern, path, cut, p) /\ cut[p - 1] = f
        BY <1>1, <1>3, <2>1, <3>2
      <4>2. cut[p] >= f
        BY <4>1 DEF Fits
      <4> QED
        BY <1>1, <3>1, <4>2
    <3>3. CASE q = p + 1
      BY <1>1, <1>3, <2>1, <3>1, <3>3
    <3> QED
      BY <3>1, <3>2, <3>3
  <2> DEFINE c == [cut EXCEPT ![p - 1] = f - 1]
  <2>4. f - 1 \in 0..Len(path)
    BY <1>1
  <2>5. c[p] = cut[p] /\ c[p - 1] = f - 1
    BY <1>1, <2>1
  <2>7. c = [cut EXCEPT ![p - 1] = f - 1]
    OBVIOUS
  <2> HIDE DEF c
  <2>6. Fits(pattern, path, c, p)
    BY <2>3, <2>5 DEF Fits
  <2> QED
    BY <2>1, <2>2, <2>6, <2>7, MovedCut
<1>4. CoversFrom(pattern, path, p + 1, f) => CoversFrom(pattern, path, p, f)
  BY <1>1, <1>3 DEF CoversFrom
<1>5. f <= Len(path) /\ CoversFrom(pattern, path, p, f + 1) => CoversFrom(pattern, path, p, f)
  BY <1>1, <1>3 DEF CoversFrom
<1>6. CoversFrom(pattern, path, p, f) =>
            \/ CoversFrom(pattern, path, p + 1, f)
            \/ f <= Len(path) /\ CoversFrom(pattern, path, p, f + 1)
  BY <1>2 DEF CoversFrom
<1> QED
  BY <1>4, <1>5, <1>6

\* Any other segment of the pattern takes one of the path.
LEMMA CoversSegment ==
    ASSUME NEW pattern \in Seq(Segment), NEW path \in Seq(Segment),
           NEW p \in 1..Len(pattern), NEW f \in 1..Len(path) + 1, pattern[p] # "**"
    PROVE  CoversFrom(pattern, path, p, f) <=>
              /\ f <= Len(path) /\ Match(pattern[p], path[f])
              /\ CoversFrom(pattern, path, p + 1, f + 1)
<1>1. /\ Len(pattern) \in Nat /\ Len(path) \in Nat /\ p \in Nat /\ f \in Nat
      /\ p - 1 \in 0..Len(pattern) /\ p \in 0..Len(pattern) /\ p + 1 - 1 = p /\ f + 1 - 1 = f
      /\ p # p - 1 /\ f - 1 + 1 = f
  OBVIOUS
<1>2. ASSUME NEW cut, CutFrom(pattern, path, p, f, cut)
      PROVE  /\ f <= Len(path) /\ Match(pattern[p], path[f])
             /\ CoversFrom(pattern, path, p + 1, f + 1)
  <2>1. /\ cut \in [0..Len(pattern) -> 0..Len(path)] /\ cut[p - 1] = f - 1
        /\ cut[Len(pattern)] = Len(path) /\ \A i \in p..Len(pattern) : Fits(pattern, path, cut, i)
    BY <1>2 DEF CutFrom
  <2>2. \A i \in p + 1..Len(pattern) : Fits(pattern, path, cut, i)
    BY <1>1, <2>1
  <2>3. cut[p] = f /\ Match(pattern[p], path[f])
    <3>1. Fits(pattern, path, cut, p)
      BY <1>1, <2>1
    <3> QED
      BY <1>1, <2>1, <3>1 DEF Fits
  <2>4. f <= Len(path)
    BY <1>1, <2>1, <2>3
  <2>5. CutFrom(pattern, path, p + 1, f + 1, cut)
    BY <1>1, <2>1, <2>2, <2>3 DEF CutFrom
  <2> QED
    BY <2>3, <2>4, <2>5 DEF CoversFrom
<1>3. ASSUME NEW cut, CutFrom(pattern, path, p + 1, f + 1, cut), f <= Len(path), Match(pattern[p], path[f])
      PROVE  CoversFrom(pattern, path, p, f)
  <2>1. /\ cut \in [0..Len(pattern) -> 0..Len(path)] /\ cut[p] = f
        /\ cut[Len(pattern)] = Len(path) /\ \A i \in p + 1..Len(pattern) : Fits(pattern, path, cut, i)
    BY <1>1, <1>3 DEF CutFrom
  <2> DEFINE c == [cut EXCEPT ![p - 1] = f - 1]
  <2>2. c[p] = f /\ c[p - 1] = f - 1
    BY <1>1, <2>1
  <2>4. c = [cut EXCEPT ![p - 1] = f - 1]
    OBVIOUS
  <2> HIDE DEF c
  <2>3. Fits(pattern, path, c, p)
    BY <1>1, <1>3, <2>2 DEF Fits
  <2> QED
    BY <2>1, <2>3, <2>4, MovedCut
<1> QED
  BY <1>2, <1>3 DEF CoversFrom

-----------------------------------------------------------------------------
\* The reference satisfies the equation by which match is defined.
LEMMA CoversStep ==
    ASSUME NEW pattern \in Seq(Segment), NEW path \in Seq(Segment),
           NEW g, NEW p \in 1..Len(pattern) + 1, NEW f \in 1..Len(path) + 1,
           p <= Len(pattern) => (g[<<p + 1, f>>] <=> CoversFrom(pattern, path, p + 1, f)),
           f <= Len(path) => (g[<<p, f + 1>>] <=> CoversFrom(pattern, path, p, f + 1)),
           p <= Len(pattern) /\ f <= Len(path) =>
              (g[<<p + 1, f + 1>>] <=> CoversFrom(pattern, path, p + 1, f + 1))
    PROVE  MatchStep(pattern, path, g, <<p, f>>) = CoversFrom(pattern, path, p, f)
<1> DEFINE at == <<p, f>>
<1>1. at[1] = p /\ at[2] = f /\ Len(pattern) \in Nat /\ Len(path) \in Nat /\ p \in Nat /\ f \in Nat
  OBVIOUS
<1> HIDE DEF at
<1>2. CoversFrom(pattern, path, p, f) \in BOOLEAN
  BY DEF CoversFrom
<1>3. CASE p > Len(pattern)
  <2>1. p = Len(pattern) + 1 /\ ~(p <= Len(pattern))
    BY <1>1, <1>3
  <2>2. MatchStep(pattern, path, g, at) = (f > Len(path))
    BY <1>1, <1>3, <2>1 DEF MatchStep
  <2>3. CoversFrom(pattern, path, p, f) <=> f > Len(path)
    BY <2>1, CoversEnd
  <2> QED
    BY <1>2, <2>2, <2>3 DEF at
<1>4. CASE p <= Len(pattern) /\ pattern[p] = "**"
  <2>1. p \in 1..Len(pattern) /\ ~(p > Len(pattern))
    BY <1>1, <1>4
  <2>2. MatchStep(pattern, path, g, at) = (g[<<p + 1, f>>] \/ (f <= Len(path) /\ g[<<p, f + 1>>]))
    BY <1>1, <1>4, <2>1 DEF MatchStep
  <2>3. CoversFrom(pattern, path, p, f) <=>
            \/ CoversFrom(pattern, path, p + 1, f)
            \/ f <= Len(path) /\ CoversFrom(pattern, path, p, f + 1)
    BY <1>4, <2>1, CoversStar
  <2>4. (g[<<p + 1, f>>] \/ (f <= Len(path) /\ g[<<p, f + 1>>])) <=> CoversFrom(pattern, path, p, f)
    BY <1>4, <2>3
  <2> QED
    BY <1>2, <2>2, <2>4 DEF at
<1>5. CASE p <= Len(pattern) /\ pattern[p] # "**"
  <2>1. p \in 1..Len(pattern) /\ ~(p > Len(pattern))
    BY <1>1, <1>5
  <2>2. MatchStep(pattern, path, g, at) =
          (/\ f <= Len(path) /\ Match(pattern[p], path[f]) /\ g[<<p + 1, f + 1>>])
    BY <1>1, <1>5, <2>1 DEF MatchStep
  <2>3. CoversFrom(pattern, path, p, f) <=>
            /\ f <= Len(path) /\ Match(pattern[p], path[f])
            /\ CoversFrom(pattern, path, p + 1, f + 1)
    BY <1>5, <2>1, CoversSegment
  <2>4. (/\ f <= Len(path) /\ Match(pattern[p], path[f]) /\ g[<<p + 1, f + 1>>])
           <=> CoversFrom(pattern, path, p, f)
    BY <1>5, <2>3
  <2> QED
    BY <1>2, <2>2, <2>4 DEF at
<1> QED
  BY <1>1, <1>3, <1>4, <1>5

\* ... so there is such a function.
LEMMA MatchExists ==
    ASSUME NEW pattern \in Seq(Segment), NEW path \in Seq(Segment)
    PROVE  \E g : IsMatch(pattern, path, g)
<1> DEFINE g == [at \in Places(pattern, path) |-> CoversFrom(pattern, path, at[1], at[2])]
<1>1. Len(pattern) \in Nat /\ Len(path) \in Nat
  OBVIOUS
<1>2. ASSUME NEW p \in 1..Len(pattern) + 1, NEW f \in 1..Len(path) + 1
      PROVE  g[<<p, f>>] = CoversFrom(pattern, path, p, f)
  BY DEF Places
<1> HIDE DEF g
<1>3. ASSUME NEW p \in 1..Len(pattern) + 1, NEW f \in 1..Len(path) + 1
      PROVE  MatchStep(pattern, path, g, <<p, f>>) = CoversFrom(pattern, path, p, f)
  <2>1. p <= Len(pattern) => (g[<<p + 1, f>>] <=> CoversFrom(pattern, path, p + 1, f))
    BY <1>1, <1>2
  <2>2. f <= Len(path) => (g[<<p, f + 1>>] <=> CoversFrom(pattern, path, p, f + 1))
    BY <1>1, <1>2
  <2>3. p <= Len(pattern) /\ f <= Len(path) =>
            (g[<<p + 1, f + 1>>] <=> CoversFrom(pattern, path, p + 1, f + 1))
    BY <1>1, <1>2
  <2> QED
    BY <2>1, <2>2, <2>3, CoversStep
<1>4. ASSUME NEW at \in Places(pattern, path)
      PROVE  CoversFrom(pattern, path, at[1], at[2]) = MatchStep(pattern, path, g, at)
  <2>1. PICK p \in 1..Len(pattern) + 1, f \in 1..Len(path) + 1 : at = <<p, f>>
    BY DEF Places
  <2>2. at[1] = p /\ at[2] = f
    BY <2>1
  <2> QED
    BY <1>3, <2>1, <2>2
<1>5. g = [at \in Places(pattern, path) |-> MatchStep(pattern, path, g, at)]
  BY <1>4 DEF g
<1> QED
  BY <1>5 DEF IsMatch

\* By induction on the segments that are left of pattern and path together.
LEMMA MatchUnique ==
    ASSUME NEW pattern \in Seq(Segment), NEW path \in Seq(Segment), NEW g, IsMatch(pattern, path, g)
    PROVE  \A p \in 1..Len(pattern) + 1, f \in 1..Len(path) + 1 :
              g[<<p, f>>] <=> CoversFrom(pattern, path, p, f)
<1> DEFINE Left(p, f) == (Len(pattern) + 1 - p) + (Len(path) + 1 - f)
           Wrong == {n \in Nat : \E p \in 1..Len(pattern) + 1, f \in 1..Len(path) + 1 :
                        Left(p, f) = n /\ ~(g[<<p, f>>] <=> CoversFrom(pattern, path, p, f))}
<1>1. Len(pattern) \in Nat /\ Len(path) \in Nat
  OBVIOUS
<1>2. \A p \in 1..Len(pattern) + 1, f \in 1..Len(path) + 1 : Left(p, f) \in Nat
  BY <1>1
<1>3. ASSUME NEW p \in 1..Len(pattern) + 1, NEW f \in 1..Len(path) + 1
      PROVE  g[<<p, f>>] = MatchStep(pattern, path, g, <<p, f>>)
  <2>1. <<p, f>> \in Places(pattern, path)
    BY DEF Places
  <2> QED
    BY <2>1 DEF IsMatch
<1>4. Wrong = {}
  <2> SUFFICES ASSUME Wrong # {} PROVE FALSE
    OBVIOUS
  <2>1. Wrong \in SUBSET Nat
    OBVIOUS
  <2> HIDE DEF Wrong
  <2>2. PICK m \in Wrong : \A n \in Wrong : m <= n
    BY <2>1, LeastNat
  <2>3. m \in Nat
    BY <2>1
  <2>4. PICK p \in 1..Len(pattern) + 1, f \in 1..Len(path) + 1 :
            Left(p, f) = m /\ ~(g[<<p, f>>] <=> CoversFrom(pattern, path, p, f))
    BY <2>2 DEF Wrong
  <2>5. ASSUME NEW q \in 1..Len(pattern) + 1, NEW h \in 1..Len(path) + 1, Left(q, h) < m
        PROVE  g[<<q, h>>] <=> CoversFrom(pattern, path, q, h)
    <3>1. Left(q, h) \in Nat /\ ~(m <= Left(q, h))
      BY <1>2, <2>3, <2>5
    <3>2. Left(q, h) \notin Wrong
      BY <2>2, <3>1
    <3> HIDE DEF Left
    <3> QED
      BY <3>1, <3>2 DEF Wrong
  <2>6. /\ p <= Len(pattern) => p + 1 \in 1..Len(pattern) + 1 /\ Left(p + 1, f) < m
        /\ f <= Len(path) => f + 1 \in 1..Len(path) + 1 /\ Left(p, f + 1) < m
        /\ p <= Len(pattern) /\ f <= Len(path) => Left(p + 1, f + 1) < m
    BY <1>1, <2>4
  <2> HIDE DEF Left
  <2>7. p <= Len(pattern) => (g[<<p + 1, f>>] <=> CoversFrom(pattern, path, p + 1, f))
    BY <2>5, <2>6
  <2>8. f <= Len(path) => (g[<<p, f + 1>>] <=> CoversFrom(pattern, path, p, f + 1))
    BY <2>5, <2>6
  <2>9. p <= Len(pattern) /\ f <= Len(path) =>
            (g[<<p + 1, f + 1>>] <=> CoversFrom(pattern, path, p + 1, f + 1))
    BY <2>5, <2>6
  <2>10. MatchStep(pattern, path, g, <<p, f>>) = CoversFrom(pattern, path, p, f)
    BY <2>7, <2>8, <2>9, CoversStep
  <2> QED
    BY <1>3, <2>4, <2>10
<1> HIDE DEF Left
<1> QED
  BY <1>2, <1>4

(***************************************************************************)
(* For every pattern and every path MatchPath says what the glob means:    *)
(* "**" takes any stretch of the path, also an empty one at either end and *)
(* several times in a pattern (matchParts).                                *)
(***************************************************************************)
THEOREM MatcherIsExact ==
    ASSUME NEW pattern \in Seq(Segment), NEW path \in Seq(Segment)
    PROVE  matchParts(pattern, path) <=> Covers(pattern, path)
<1>1. PICK g : IsMatch(pattern, path, g) /\ matchParts(pattern, path) = g[<<1, 1>>]
  BY MatchExists, MatchDefined
<1>2. 1 \in 1..Len(pattern) + 1 /\ 1 \in 1..Len(path) + 1
  OBVIOUS
<1>3. g[<<1, 1>>] <=> CoversFrom(pattern, path, 1, 1)
  BY <1>1, <1>2, MatchUnique
<1> QED
  BY <1>1, <1>3, CoversAll

-----------------------------------------------------------------------------
(* The plan of a push.                                                     *)

LEMMA StringsAreSegments == Seq(STRING) \subseteq Seq(Segment)
<1>1. STRING \subseteq Segment
  BY DEF Segment
<1>2. \A S, T : S \subseteq T => Seq(S) \subseteq Seq(T)
  OBVIOUS
<1> QED
  BY <1>1, <1>2, Zenon

\* The patterns of a project are sequences of segments, the default too.
LEMMA WatchPathsType ==
    ASSUME NEW project \in Project, NEW pattern \in Elements(WatchPaths(project))
    PROVE  pattern \in Seq(Segment)
<1>1. project.subdir \in Seq(STRING) /\ project.watch \in Seq(Seq(STRING))
  BY DEF Project
<1>2. CASE WatchPaths(project) = project.watch
  <2>1. pattern \in Seq(STRING)
    BY <1>1, <1>2 DEF Elements
  <2> QED
    BY <2>1, StringsAreSegments
<1>3. CASE WatchPaths(project) = <<project.subdir \o <<"**">>>>
  <2>1. "**" \in Segment
    BY DEF Segment
  <2>2. <<"**">> \in Seq(Segment)
    BY <2>1
  <2>3. project.subdir \in Seq(Segment)
    BY <1>1, StringsAreSegments
  <2>4. project.subdir \o <<"**">> \in Seq(Segment)
    BY <2>2, <2>3
  <2>5. pattern = project.subdir \o <<"**">>
    BY <1>3 DEF Elements
  <2> QED
    BY <2>4, <2>5
<1> QED
  BY <1>2, <1>3 DEF WatchPaths

\* A project that watches something is deployed for what it watches.
LEMMA ProjectMatchesExactly ==
    ASSUME NEW project \in Project, WatchPaths(project) # <<>>,
           NEW event, event.files \subseteq Seq(STRING)
    PROVE  ProjectMatchesChangedFiles(project, event) <=>
              (event.known => \E pattern \in Elements(WatchPaths(project)), path \in event.files :
                                 Covers(pattern, path))
<1>1. ASSUME NEW pattern \in Elements(WatchPaths(project)), NEW path \in event.files
      PROVE  matchParts(pattern, path) <=> Covers(pattern, path)
  <2>1. pattern \in Seq(Segment) /\ path \in Seq(Segment)
    BY WatchPathsType, StringsAreSegments
  <2> QED
    BY <2>1, MatcherIsExact
<1> QED
  BY <1>1 DEF ProjectMatchesChangedFiles, filesMatchProject

\* A target of a project carries its name and its repo.
LEMMA TargetsNamed ==
    ASSUME NEW doc, NEW project, NEW t \in TargetsOf(doc, project)
    PROVE  t.project = project.name /\ t.repo = project.repo
BY DEF TargetsOf

\* What Validate lets pass is unambiguous: PlanIsExact covers every
\* configuration without blocking issues.
LEMMA ValidIsUnambiguous ==
    ASSUME NEW doc \in Document, BlockingIssues(doc) = {}
    PROVE  Unambiguous(doc)
<1>1. doc.projects \in Seq(Project)
  BY DEF Document
<1>2. ASSUME NEW i \in DOMAIN doc.projects PROVE i \notin BadProjects(doc)
  <2>1. SUFFICES ASSUME i \in BadProjects(doc) PROVE FALSE
    OBVIOUS
  <2>2. [section |-> "projects", at |-> i, severity |-> "error"] \in BlockingIssues(doc)
    BY <2>1 DEF BlockingIssues, Validate, Issues
  <2> QED BY <2>2
<1>3. ASSUME NEW i \in DOMAIN doc.projects, NEW j \in DOMAIN doc.projects,
             doc.projects[i].name = doc.projects[j].name, i < j
      PROVE  FALSE
  <2>1. i \in 1..j - 1
    BY <1>1, <1>3
  <2>2. j \in BadEntries(doc.projects)
    BY <1>3, <2>1 DEF BadEntries
  <2> QED BY <1>2, <2>2 DEF BadProjects
<1>4. ASSUME NEW project \in Elements(doc.projects) PROVE WatchPaths(project) # <<>>
  <2>1. PICK i \in DOMAIN doc.projects : project = doc.projects[i]
    BY DEF Elements
  <2>2. project.subdir # <<>>
    BY <1>2, <2>1 DEF BadProjects
  <2>3. <<project.subdir \o <<"**">>>> # <<>>
    OBVIOUS
  <2> QED BY <2>2, <2>3 DEF WatchPaths
<1>5. \A i, j \in DOMAIN doc.projects : i < j \/ j < i \/ i = j
  BY <1>1
<1> QED
  BY <1>3, <1>4, <1>5 DEF Unambiguous

(***************************************************************************)
(* PlanIsExact: whatever edition is in effect, and for every set of        *)
(* changed files, a push deploys the targets that watch one of them, and   *)
(* no others (Plan).                                                       *)
(***************************************************************************)
THEOREM PlanStaysExact == Spec => []PlanIsExact
<1>1. IndInv => PlanIsExact
  <2> DEFINE doc == editions[config]
  <2> SUFFICES ASSUME IndInv, Unambiguous(doc), NEW repo \in Names(doc.repos),
                      NEW files \in ChangeSets, NEW known \in BOOLEAN
               PROVE  LET event == [repo |-> repo, files |-> files, known |-> known, forced |-> {}]
                      IN Plan(doc, event) =
                            {t \in TargetsForRepo(doc, repo) :
                                known => \E project \in Elements(doc.projects) :
                                    /\ project.name = t.project
                                    /\ \E pattern \in Elements(WatchPaths(project)), path \in files :
                                          Covers(pattern, path)}
    BY DEF PlanIsExact
  <2> DEFINE event == [repo |-> repo, files |-> files, known |-> known, forced |-> {}]
             Watched(project) ==
                known => \E pattern \in Elements(WatchPaths(project)), path \in files :
                            Covers(pattern, path)
             Wanted(t) ==
                known => \E project \in Elements(doc.projects) :
                            /\ project.name = t.project
                            /\ \E pattern \in Elements(WatchPaths(project)), path \in files :
                                  Covers(pattern, path)
  <2>1. doc \in Document
    BY ConfigSourceAssumption DEF IndInv, TypeOK
  <2>2. doc.projects \in Seq(Project) /\ files \subseteq Seq(STRING)
    BY <2>1, ConfigSourceAssumption DEF Document
  <2>3. event.repo = repo /\ event.files = files /\ event.known = known /\ event.forced = {}
    OBVIOUS
  <2>4. \A project \in Elements(doc.projects) : project \in Project
    BY <2>2 DEF Elements
  <2> HIDE DEF doc, event
  <2>5. ASSUME NEW project \in Elements(doc.projects)
        PROVE  ProjectMatchesChangedFiles(project, event) <=> Watched(project)
    BY <2>2, <2>3, <2>4, ProjectMatchesExactly DEF Unambiguous
  <2>6. ASSUME NEW p \in Elements(doc.projects), NEW q \in Elements(doc.projects), p.name = q.name
        PROVE  p = q
    BY <2>6 DEF Unambiguous, Elements
  <2>7. ASSUME NEW t PROVE t \in Plan(doc, event) <=>
            \E project \in Elements(doc.projects) :
               project.repo = repo /\ ProjectMatchesChangedFiles(project, event) /\ t \in TargetsOf(doc, project)
    BY <2>3 DEF Plan
  <2>8. ASSUME NEW t PROVE t \in TargetsForRepo(doc, repo) <=>
            \E project \in Elements(doc.projects) : t \in TargetsOf(doc, project) /\ t.repo = repo
    BY DEF TargetsForRepo, AllTargets
  <2>9. ASSUME NEW t \in Plan(doc, event) PROVE t \in TargetsForRepo(doc, repo) /\ Wanted(t)
    <3>1. PICK p \in Elements(doc.projects) :
               p.repo = repo /\ ProjectMatchesChangedFiles(p, event) /\ t \in TargetsOf(doc, p)
      BY <2>7
    <3>2. t.project = p.name /\ t.repo = repo
      BY <3>1, TargetsNamed
    <3> QED
      BY <2>5, <2>8, <3>1, <3>2
  <2>10. ASSUME NEW t \in TargetsForRepo(doc, repo), Wanted(t) PROVE t \in Plan(doc, event)
    <3>1. PICK p \in Elements(doc.projects) : t \in TargetsOf(doc, p) /\ t.repo = repo
      BY <2>8
    <3>2. t.project = p.name /\ p.repo = repo
      BY <3>1, TargetsNamed
    <3>3. Watched(p)
      BY <2>6, <2>10, <3>2
    <3> QED
      BY <2>5, <2>7, <3>1, <3>2, <3>3
  <2>11. Plan(doc, event) = {t \in TargetsForRepo(doc, repo) : Wanted(t)}
    BY <2>9, <2>10
  <2> QED
    BY <2>11 DEF event
<1> QED
  BY LoadersInvariant, <1>1, PTL
=============================================================================
