---------------------------- MODULE ConfigSource ----------------------------
(***************************************************************************)
(* Where the configuration comes from: a local file or a git repository    *)
(* with a last-known-good cache, read at startup and by every reload       *)
(* (poll, webhook, file event, admin request).  Reloads load outside the   *)
(* reloader's mutex and take it only to swap the configuration in.         *)
(*                                                                         *)
(* An edition is a position in the history of the file; what it says is a  *)
(* document of module Config.                                              *)
(***************************************************************************)
EXTENDS Config

CONSTANTS
    Documents,    \* what the operator may write into the file
    ChangeSets,   \* sets of changed files a push may have
    Sources,      \* where it may be: "local" or "git"
    MaxEditions,  \* bound: editions of the file
    Unprompted,   \* TRUE: loads happen without a notice (polls, `config reload`)
    Loaders,      \* goroutines that may be reloading at the same time
    MaxFaults,    \* bound: failed remote reads and cache writes
    CacheFails,   \* TRUE: writes of the cache may fail as well
    MaxCrashes    \* bound: crashes or shutdowns

ASSUME ConfigSourceAssumption ==
    /\ Documents \subseteq Document /\ MaxEditions \in Nat \ {0}
    /\ UNION ChangeSets \subseteq Seq(STRING)
    /\ Sources \subseteq {"local", "git"}
    /\ Unprompted \in BOOLEAN /\ CacheFails \in BOOLEAN
    /\ MaxFaults \in Nat /\ MaxCrashes \in Nat

VARIABLES
    source,    \* DEEPLO_CONFIG_SOURCE
    editions,  \* the documents written so far, the last one at the source
    notice,    \* webhook deliveries or file events not yet handled
    config,    \* edition in effect (when down: the last one)
    cache,     \* edition in current.yml, 0 without one
    loader,    \* each goroutine: where it is, and the edition it read
    phase,     \* "down", "starting", "up"
    serial,    \* so far no two loads overlapped and no write of the cache failed
    faults, crashes

vars == <<source, editions, notice, config, cache, loader, phase, serial, faults, crashes>>

latest == Len(editions)

Idle == [pc |-> "idle", edition |-> 0]

\* Parse and Validate of the edition, as the loader and the reloader ask.
Parses(e) == editions[e].parses
Blocking(e) == BlockingIssues(editions[e]) # {}

\* From git an edition needs to be free of any issue, warnings included.
parseAndValidate(e) == Parses(e) /\ Validate(editions[e]) = {}

\* The daemon runs with the first edition.
Init ==
    /\ source \in Sources
    /\ \E first \in Documents : editions = <<first>>
    /\ parseAndValidate(1)
    /\ config = 1 /\ notice = 0
    /\ cache = IF source = "git" THEN 1 ELSE 0
    /\ loader = [l \in Loaders |-> Idle]
    /\ phase = "up" /\ serial = TRUE /\ faults = 0 /\ crashes = 0

-----------------------------------------------------------------------------
Goto(l, where, e) == loader' = [loader EXCEPT ![l] = [pc |-> where, edition |-> e]]

\* The operator writes the next edition; whoever listens is told.
Edit ==
    /\ latest < MaxEditions
    /\ \E doc \in Documents : editions' = Append(editions, doc)
    /\ notice' = IF phase = "up" THEN notice + 1 ELSE notice
    /\ UNCHANGED <<config, cache, loader, phase, faults, crashes>>

\* Mutation: nobody asks whether there is a cache.
LoadFailsBlindly(l) ==
    /\ loader' = [loader EXCEPT ![l] = Idle]
    /\ IF phase = "starting" THEN config' = cache /\ phase' = "up" ELSE UNCHANGED <<config, phase>>
    /\ UNCHANGED <<editions, cache, crashes>>

\* The load failed. At startup the cache has to do, or the daemon exits; a
\* reload that got its configuration from the cache is dropped.
LoadFails(l) ==
    /\ loader' = [loader EXCEPT ![l] = Idle]
    /\ IF phase = "starting" /\ source = "git" /\ cache # 0 /\ parseAndValidate(cache)
       THEN config' = cache /\ phase' = "up"
       ELSE config' = config /\ phase' = IF phase = "starting" THEN "down" ELSE phase
    /\ UNCHANGED <<editions, cache, crashes>>

\* Mutation: a load happens only when something announced it.
LoadStartPrompted(l) ==
    /\ loader[l] = Idle /\ phase # "down"
    /\ phase = "starting" => \A other \in Loaders : loader[other] = Idle
    /\ phase = "starting" \/ notice > 0
    /\ notice' = IF notice > 0 /\ phase = "up" THEN notice - 1 ELSE notice
    /\ \/ Goto(l, "read", latest) /\ UNCHANGED <<editions, config, cache, phase, faults, crashes>>
       \/ source = "git" /\ faults < MaxFaults /\ faults' = faults + 1 /\ LoadFails(l)

\* Mutation: the mirror is read as it is, whatever it was fetched for.
LoadStartUnfetched(l) ==
    /\ loader[l] = Idle /\ phase # "down"
    /\ phase = "starting" => \A other \in Loaders : loader[other] = Idle
    /\ Unprompted \/ phase = "starting" \/ notice > 0
    /\ notice' = IF notice > 0 /\ phase = "up" THEN notice - 1 ELSE notice
    /\ \E e \in 1..latest : Goto(l, "read", e)
    /\ UNCHANGED <<editions, config, cache, phase, faults, crashes>>

\* ls-remote, or the local file: which edition is it?
LoadStart(l) ==
    /\ loader[l] = Idle /\ phase # "down"
    /\ phase = "starting" => \A other \in Loaders : loader[other] = Idle
    /\ Unprompted \/ phase = "starting" \/ notice > 0
    /\ notice' = IF notice > 0 /\ phase = "up" THEN notice - 1 ELSE notice
    /\ \/ Goto(l, "read", latest) /\ UNCHANGED <<editions, config, cache, phase, faults, crashes>>
       \/ source = "git" /\ faults < MaxFaults /\ faults' = faults + 1 /\ LoadFails(l)

\* Mutation: what was fetched is cached before it is validated.
LoadReadTrusting(l) ==
    /\ loader[l].pc = "read"
    /\ Goto(l, IF source = "git" THEN "cache" ELSE "apply", loader[l].edition)
    /\ UNCHANGED <<editions, notice, config, cache, phase, faults, crashes>>

\* EnsureCommit, ReadFile and parsing; for git, validation as well.
LoadRead(l) ==
    LET e == loader[l].edition IN
    /\ loader[l].pc = "read"
    /\ \/ /\ IF source = "git" THEN parseAndValidate(e) ELSE Parses(e)
          /\ Goto(l, IF source = "git" THEN "cache" ELSE "apply", e)
          /\ UNCHANGED <<editions, config, cache, phase, faults, crashes>>
       \/ /\ ~(IF source = "git" THEN parseAndValidate(e) ELSE Parses(e))
          /\ LoadFails(l) /\ UNCHANGED faults
       \/ /\ source = "git" /\ faults < MaxFaults /\ faults' = faults + 1
          /\ LoadFails(l)
    /\ UNCHANGED notice

\* writeCachedConfig; a failure is logged, the load goes on. (The metadata
\* beside it only tells the commit and is not modelled.)
WriteCache(l) ==
    /\ loader[l].pc = "cache"
    /\ Goto(l, "apply", loader[l].edition)
    /\ \/ cache' = loader[l].edition /\ UNCHANGED faults
       \/ CacheFails /\ faults < MaxFaults /\ faults' = faults + 1 /\ UNCHANGED cache
    /\ UNCHANGED <<editions, notice, config, phase, crashes>>

\* Mutation: a reload swaps in what a startup would.
ApplyUnchecked(l) ==
    /\ loader[l].pc = "apply"
    /\ loader' = [loader EXCEPT ![l] = Idle]
    /\ config' = loader[l].edition
    /\ phase' = "up"
    /\ UNCHANGED <<editions, notice, cache, faults, crashes>>

\* applyConfigChange under applyMutex. A startup takes the edition with its
\* blocking issues and only warns.
Apply(l) ==
    LET e == loader[l].edition IN
    /\ loader[l].pc = "apply"
    /\ loader' = [loader EXCEPT ![l] = Idle]
    /\ config' = IF phase = "starting" \/ ~Blocking(e) THEN e ELSE config
    /\ phase' = "up"
    /\ UNCHANGED <<editions, notice, cache, faults, crashes>>

Crash ==
    /\ phase # "down" /\ crashes < MaxCrashes
    /\ crashes' = crashes + 1
    /\ phase' = "down" /\ notice' = 0
    /\ loader' = [l \in Loaders |-> Idle]
    /\ UNCHANGED <<editions, config, cache, faults>>

Restart ==
    /\ phase = "down"
    /\ phase' = "starting"
    /\ UNCHANGED <<editions, notice, config, cache, loader, faults, crashes>>

Load(l) == LoadStart(l) \/ LoadRead(l) \/ WriteCache(l) \/ Apply(l)

\* One load at a time, and what is about to be applied is in the cache.
Undisturbed ==
    /\ \A l, m \in Loaders : loader[l] # Idle /\ loader[m] # Idle => l = m
    /\ \A l \in Loaders : source = "git" /\ loader[l].pc = "apply" => cache = loader[l].edition

\* The environment is fixed for the life of the daemon.
Frame == source' = source /\ serial' = (serial /\ Undisturbed')

Next == (Edit \/ Crash \/ Restart \/ \E l \in Loaders : Load(l)) /\ Frame

Spec == Init /\ [][Next]_vars

\* Whoever reloads runs on; a poller polls again; a supervisor restarts the
\* daemon.  Nobody has to edit.
LiveSpec == Spec /\ WF_vars(Restart /\ Frame) /\ \A l \in Loaders : WF_vars(Load(l) /\ Frame)

-----------------------------------------------------------------------------
(* Properties.                                                             *)

\* What is in effect is always some edition: a start never comes up with a
\* cache that does not exist (readCachedConfig).
TypeOK ==
    /\ source \in Sources /\ editions \in Seq(Documents)
    /\ config \in DOMAIN editions /\ cache \in {0} \cup DOMAIN editions
    /\ notice \in Nat /\ serial \in BOOLEAN
    /\ loader \in [Loaders -> [pc : {"idle", "read", "cache", "apply"}, edition : {0} \cup DOMAIN editions]]
    /\ phase \in {"down", "starting", "up"}
    /\ faults \in 0..MaxFaults /\ crashes \in 0..MaxCrashes

\* What a start without the network falls back to is fit to run with, and
\* so is what the daemon runs with: a broken edition is kept out by reloads,
\* crashes and restarts (loadGitConfig, readCachedConfig, applyConfigChange).
\* Only a start from a local file takes what it finds.
NothingBroken ==
    /\ cache # 0 => parseAndValidate(cache)
    /\ source = "git" => parseAndValidate(config)

\* What a loader carries to the cache and to the swap has passed what its
\* source asks for, however the file has changed since it was read.
LoadersSound ==
    \A l \in Loaders : LET e == loader[l].edition IN
        /\ loader[l].pc # "idle" => e # 0
        /\ loader[l].pc = "cache" => source = "git"
        /\ loader[l].pc \in {"cache", "apply"} =>
              Parses(e) /\ (source = "git" => parseAndValidate(e))

\* The inductive invariant: what loaders, cache and daemon hold are editions
\* that were fit to be taken (loadGitConfig, readCachedConfig, Reload).
IndInv == TypeOK /\ NothingBroken /\ LoadersSound

\* As long as reloads come one at a time and the cache can be written, the
\* daemon never goes back to an older edition, not even when it starts from
\* the cache: "keeps the last valid version".
NeverRegresses == [][serial' => config' >= config]_vars

\* While the daemon runs, no reload brings in an edition with blocking
\* issues ("failed reloads are rejected and the current in-memory config
\* stays active").
ReloadsAreSound ==
    [][phase = "up" /\ config' # config => Parses(config') /\ ~Blocking(config')]_vars

\* When the operator stops editing and the last edition in the repository is
\* free of issues, it comes into effect, through overlapping and failed loads
\* and crashes: the next poll brings it.
ComesIntoEffect ==
    source = "git" => <>[](parseAndValidate(latest) => config = latest)

\* With an edition without blocking issues in effect the planner passes over
\* nothing: every host that a project names gets a target (Validate and
\* AllTargets agree on what a reference is).
EveryTargetPlanned ==
    ~Blocking(config) => \A project \in Elements(editions[config].projects) :
        \A host \in Elements(project.targets) :
            [project |-> project.name, repo |-> project.repo, host |-> host]
                \in AllTargets(editions[config])

\* A path and a pattern side by side: each segment of the pattern takes its
\* stretch of the path, "**" any stretch, the others one segment.
Covers(pattern, path) ==
    \E cut \in [0..Len(pattern) -> 0..Len(path)] :
        /\ cut[0] = 0 /\ cut[Len(pattern)] = Len(path)
        /\ \A i \in DOMAIN pattern :
              IF pattern[i] = "**" THEN cut[i] >= cut[i - 1]
              ELSE cut[i] = cut[i - 1] + 1 /\ Match(pattern[i], path[cut[i]])

\* Projects have names of their own and each watches something, as Validate
\* asks for: a start from a local file may take others.
Unambiguous(doc) ==
    /\ \A i, j \in DOMAIN doc.projects : doc.projects[i].name = doc.projects[j].name => i = j
    /\ \A project \in Elements(doc.projects) : WatchPaths(project) # <<>>

\* A push deploys a target of its repo exactly when some changed file is one
\* its project watches, and every target when the diff is unknown ("A deploy
\* fires only if at least one changed file matches"); MatchPath agrees with
\* what a glob means.
PlanIsExact ==
    LET doc == editions[config] IN
    Unambiguous(doc) => \A repo \in Names(doc.repos), files \in ChangeSets, known \in BOOLEAN :
        LET event == [repo |-> repo, files |-> files, known |-> known, forced |-> {}]
        IN Plan(doc, event) =
              {t \in TargetsForRepo(doc, repo) :
                  known => \E project \in Elements(doc.projects) :
                      /\ project.name = t.project
                      /\ \E pattern \in Elements(WatchPaths(project)), path \in files :
                            Covers(pattern, path)}
=============================================================================
