------------------------------- MODULE Config -------------------------------
(***************************************************************************)
(* The configuration document: what validation asks of it                  *)
(* (internal/config), and which targets a push then deploys                *)
(* (internal/planner).                                                     *)
(*                                                                         *)
(* A document is what the YAML says: the sequences hosts, repos and        *)
(* projects.  `fields` of an entry says whether the settings that are      *)
(* checked one by one (addresses, ports, trigger modes, persist files) are *)
(* fine.  Paths, and the patterns of watch_paths, are sequences of         *)
(* segments.                                                               *)
(***************************************************************************)
EXTENDS Naturals, Sequences

Entry == [name : STRING, fields : BOOLEAN]
Project == [name : STRING, fields : BOOLEAN, repo : STRING, subdir : Seq(STRING),
            watch : Seq(Seq(STRING)), targets : Seq(STRING)]
Document == [parses : BOOLEAN, hosts : Seq(Entry), repos : Seq(Entry), projects : Seq(Project)]

Elements(s) == {s[i] : i \in DOMAIN s}
Names(entries) == {entries[i].name : i \in DOMAIN entries}

-----------------------------------------------------------------------------
(* Watch paths.                                                            *)

\* filepath.Match on one segment; an ill-formed pattern is an error.
IllFormed == {"["}
Match(pattern, segment) == pattern \notin IllFormed /\ (pattern = "*" \/ pattern = segment)

\* Mutation: "**" takes at least one segment.
matchPartsGreedy(pattern, path) ==
    LET match[at \in (1..Len(pattern) + 1) \X (1..Len(path) + 1)] ==
            LET p == at[1]
                f == at[2]
            IN CASE p > Len(pattern) -> f > Len(path)
                 [] f > Len(path) -> FALSE
                 [] pattern[p] = "**" -> match[<<p + 1, f + 1>>] \/ match[<<p, f + 1>>]
                 [] OTHER -> Match(pattern[p], path[f]) /\ match[<<p + 1, f + 1>>]
    IN match[<<1, 1>>]

\* The rest of the pattern against the rest of the path.
matchParts(pattern, path) ==
    LET match[at \in (1..Len(pattern) + 1) \X (1..Len(path) + 1)] ==
            LET p == at[1]
                f == at[2]
            IN CASE p > Len(pattern) -> f > Len(path)
                 [] p <= Len(pattern) /\ pattern[p] = "**" ->
                       match[<<p + 1, f>>] \/ (f <= Len(path) /\ match[<<p, f + 1>>])
                 [] OTHER -> /\ f <= Len(path)
                             /\ Match(pattern[p], path[f]) /\ match[<<p + 1, f + 1>>]
    IN match[<<1, 1>>]

\* ApplyDefaults, and again the planner: without watch_paths everything
\* below repo_subdir is watched.
WatchPaths(project) ==
    IF project.watch = <<>> /\ project.subdir # <<>>
    THEN <<project.subdir \o <<"**">>>> ELSE project.watch

validateWatchPath(pattern) ==
    pattern # <<"">> /\ \A i \in DOMAIN pattern : pattern[i] \notin IllFormed

-----------------------------------------------------------------------------
(* Validation.                                                             *)

\* An entry without a name, or with one seen before, or with a bad setting.
BadEntries(entries) ==
    {i \in DOMAIN entries : \/ entries[i].name = "" \/ ~entries[i].fields
                            \/ \E j \in 1..i - 1 : entries[j].name = entries[i].name}

\* What the name of a repo or of a host may refer to.
Seen(entries) == Names(entries) \ {""}

\* Mutation: the hosts of a project are not looked up.
BadProjectsByRepo(doc) ==
    BadEntries(doc.projects) \cup
    {i \in DOMAIN doc.projects : doc.projects[i].repo \notin Seen(doc.repos)}

BadProjects(doc) ==
    BadEntries(doc.projects) \cup
    {i \in DOMAIN doc.projects : LET project == doc.projects[i] IN
        \/ project.repo \notin Seen(doc.repos)
        \/ project.subdir = <<>>
        \/ \E pattern \in Elements(WatchPaths(project)) : ~validateWatchPath(pattern)
        \/ project.targets = <<>>
        \/ ~(Elements(project.targets) \subseteq Seen(doc.hosts))}

Issues(section, at, severity) ==
    {[section |-> section, at |-> i, severity |-> severity] : i \in at}

\* A section without entries is an issue of its own, for projects a warning.
NoneIf(entries) == IF entries = <<>> THEN {0} ELSE {}

Validate(doc) ==
    Issues("hosts", NoneIf(doc.hosts) \cup BadEntries(doc.hosts), "error")
    \cup Issues("repos", NoneIf(doc.repos) \cup BadEntries(doc.repos), "error")
    \cup Issues("projects", NoneIf(doc.projects), "warning")
    \cup Issues("projects", BadProjects(doc), "error")

BlockingIssues(doc) == {issue \in Validate(doc) : issue.severity = "error"}

-----------------------------------------------------------------------------
(* The planner. A target is a project and a host, by name; the planner     *)
(* passes over a repo or a host that it does not find.                     *)

TargetsOf(doc, project) ==
    IF project.repo \in Names(doc.repos)
    THEN {[project |-> project.name, repo |-> project.repo, host |-> host] :
             host \in Elements(project.targets) \cap Names(doc.hosts)}
    ELSE {}

AllTargets(doc) == UNION {TargetsOf(doc, project) : project \in Elements(doc.projects)}

TargetsForRepo(doc, repo) == {t \in AllTargets(doc) : t.repo = repo}

\* A push: the repo and its changed files, unless the diff is not known.
filesMatchProject(watchPaths, event) ==
    \/ watchPaths = <<>>
    \/ ~event.known
    \/ \E path \in event.files, pattern \in Elements(watchPaths) : matchParts(pattern, path)

ProjectMatchesChangedFiles(project, event) == filesMatchProject(WatchPaths(project), event)

\* Resume, reconciliation and manual deploys name their targets.
Plan(doc, event) ==
    IF event.forced # {} THEN event.forced
    ELSE UNION {TargetsOf(doc, project) : project \in
                   {p \in Elements(doc.projects) :
                       p.repo = event.repo /\ ProjectMatchesChangedFiles(p, event)}}
=============================================================================
