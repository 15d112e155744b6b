----------------------------- MODULE Reporting -----------------------------
(***************************************************************************)
(* What GitHub and the deployment records say about deploys: DeployTarget  *)
(* reports the start and the end of each one to the Deployments and the    *)
(* Commit Statuses API, with the context of the deploy itself, which may   *)
(* expire or be cancelled at any point.  A request may be refused, or be   *)
(* carried out while its answer gets lost, and the daemon may die between  *)
(* any two of them.                                                        *)
(*                                                                         *)
(* Deploys of one target (project, host) run one at a time, deploys of     *)
(* different targets side by side.  The projects share a repository.       *)
(***************************************************************************)
EXTENDS Naturals

CONSTANTS
    Deploys,     \* deployment IDs
    Projects, Hosts, Shas,
    Setups,      \* enabled: reporting is on; environmentHost: environments name the host;
                 \* onGitHub: so is the repository; info: project, host and commit of each deploy
    MaxFaults,   \* bound: refused requests, lost answers, failed saves, expired contexts
    MaxCrashes   \* bound: crashes of the daemon

DeployInfo == [project : Projects, host : Hosts, sha : Shas]

ASSUME ReportingAssumption ==
    /\ Setups \subseteq [enabled : BOOLEAN, environmentHost : BOOLEAN, onGitHub : BOOLEAN,
                         info : [Deploys -> DeployInfo]]
    /\ MaxFaults \in Nat /\ MaxCrashes \in Nat

VARIABLES
    setup,       \* the settings of this daemon and the deploys it will do
    pc,          \* where each DeployTarget is; "ended", or "dead" after a crash
    live,        \* the context of the deploy has not expired
    result,      \* what runDeploy returned: "success" or "failure"
    token,       \* reportToken is not empty
    reportErr,   \* firstErr of reportFinish is not nil
    record,      \* the run files
    latest,      \* the index: newest recorded deploy of each target
    deployment,  \* GitHub: last status of the deployment created for each deploy
    commit,      \* GitHub: last status of a commit in a context, and whose it is
    up,          \* the daemon is running
    faults, crashes

local == <<pc, live, result, token, reportErr>>
store == <<record, latest>>
github == <<deployment, commit>>
budget == <<faults, crashes>>
vars == <<setup, local, store, github, up, budget>>

Info == setup.info
Target(d) == <<Info[d].project, Info[d].host>>

NoRecord == [status |-> "none", token |-> FALSE, reportStatus |-> "none", reportError |-> FALSE]
NoStatus == [state |-> "none"]

Running == {d \in Deploys : pc[d] \notin {"idle", "ended", "dead"}}

-----------------------------------------------------------------------------
(* Names on GitHub.                                                        *)

\* Mutation: DEEPLO_GITHUB_ENVIRONMENT_HOST makes no difference.
EnvironmentOfProject(d) == <<Info[d].project>>

\* The environment of deployContext (a common prefix makes no difference);
\* ParseOwnerRepo refuses a repository that is not on GitHub.
Environment(d) ==
    IF setup.environmentHost THEN <<Info[d].host, Info[d].project>> ELSE <<Info[d].project>>

Environments == {<<p>> : p \in Projects} \cup (Hosts \X Projects)

\* A commit status is kept by commit and context, which is the environment.
Context(d) == <<Info[d].sha, Environment(d)>>

\* The startup warning about projects that deploy to more than one host.
WarnAmbiguousReporting ==
    /\ setup.enabled /\ ~setup.environmentHost
    /\ \E d, e \in Deploys : Info[d].project = Info[e].project /\ Info[d].host # Info[e].host

Init ==
    /\ setup \in Setups
    /\ pc = [d \in Deploys |-> "idle"]
    /\ live = [d \in Deploys |-> TRUE]
    /\ result = [d \in Deploys |-> "none"]
    /\ token = [d \in Deploys |-> FALSE]
    /\ reportErr = [d \in Deploys |-> FALSE]
    /\ record = [d \in Deploys |-> NoRecord]
    /\ latest = [t \in Projects \X Hosts |-> {}]
    /\ deployment = [d \in Deploys |-> "none"]
    /\ commit = [k \in Shas \X Environments |-> NoStatus]
    /\ up = TRUE /\ faults = 0 /\ crashes = 0

Fault == faults < MaxFaults /\ faults' = faults + 1 /\ UNCHANGED crashes

Goto(d, where) == pc' = [pc EXCEPT ![d] = where]

\* The local variables of these deploys are gone.
Forget(D) ==
    /\ live' = [d \in Deploys |-> d \in D \/ live[d]]
    /\ token' = [d \in Deploys |-> d \notin D /\ token[d]]
    /\ reportErr' = [d \in Deploys |-> d \notin D /\ reportErr[d]]

-----------------------------------------------------------------------------
(* Requests.                                                               *)

\* One POST is carried out ("ok"); or carried out, but the answer is lost; or
\* refused. With an expired context nothing is sent.
Outcomes == {"ok", "lost", "refused", "expired"}

apiPost(d, outcome, applied) ==
    /\ live[d] <=> outcome # "expired"
    /\ IF outcome \in {"ok", "lost"} THEN applied ELSE UNCHANGED github
    /\ IF outcome \in {"lost", "refused"} THEN Fault ELSE UNCHANGED budget

\* GitHub leaves only the last successful deployment of an environment active.
DeploymentStatus(d, state) ==
    /\ deployment' = [e \in Deploys |->
           IF e = d THEN state
           ELSE IF state = "success" /\ deployment[e] = "success" /\ Environment(e) = Environment(d)
                THEN "inactive"
                ELSE deployment[e]]
    /\ UNCHANGED commit

CommitStatus(d, state) ==
    /\ commit' = [commit EXCEPT ![Context(d)] = [state |-> state, by |-> d]]
    /\ UNCHANGED deployment

-----------------------------------------------------------------------------
(* DeployTarget.                                                           *)

\* SaveDeployment: run file and index; a write that fails is only logged.
SaveDeployment(d, rec) ==
    \/ /\ record' = [record EXCEPT ![d] = rec]
       /\ latest' = [latest EXCEPT ![Target(d)] = {d}]
       /\ UNCHANGED budget
    \/ Fault /\ UNCHANGED store

\* The job has the target's lock. DeployStarted does nothing when the reporter
\* is off or the repository is not on GitHub.
Start(d) ==
    /\ up /\ pc[d] = "idle" /\ \A e \in Running : Target(e) # Target(d)
    /\ SaveDeployment(d, [NoRecord EXCEPT !.status = "running"])
    /\ Goto(d, IF setup.enabled /\ setup.onGitHub THEN "create" ELSE "run")
    /\ UNCHANGED <<setup, live, result, token, reportErr, github, up>>

\* Without a deployment nothing more is said about the start.
createDeployment(d) ==
    /\ pc[d] = "create"
    /\ \E o \in Outcomes :
          /\ apiPost(d, o, DeploymentStatus(d, "created"))
          /\ token' = [token EXCEPT ![d] = (o = "ok")]
          /\ Goto(d, IF o = "ok" THEN "progress" ELSE "run")
    /\ UNCHANGED <<setup, live, result, reportErr, store, up>>

\* Errors of these two are only logged.
StartStatus(d) ==
    /\ \E o \in Outcomes :
          \/ pc[d] = "progress" /\ Goto(d, "pending") /\ apiPost(d, o, DeploymentStatus(d, "in_progress"))
          \/ pc[d] = "pending" /\ Goto(d, "run") /\ apiPost(d, o, CommitStatus(d, "pending"))
    /\ UNCHANGED <<setup, live, result, token, reportErr, store, up>>

\* Fetch, bundle, compose. It fails for its own reasons or with its context,
\* and reportFinish follows, if there is a reporter.
runDeploy(d) ==
    /\ pc[d] = "run"
    /\ \E r \in {"success", "failure"} :
          /\ r = "success" => live[d]
          /\ result' = [result EXCEPT ![d] = r]
    /\ Goto(d, IF ~setup.enabled \/ ~setup.onGitHub THEN "save"
               ELSE IF token[d] THEN "status" ELSE "commit")
    /\ UNCHANGED <<setup, live, token, reportErr, store, github, up, budget>>

\* Mutation: the error of the last request counts.
FinishLastErr(d) ==
    /\ \E o \in Outcomes :
          /\ \/ pc[d] = "status" /\ Goto(d, "commit") /\ apiPost(d, o, DeploymentStatus(d, result[d]))
             \/ pc[d] = "commit" /\ Goto(d, "save") /\ apiPost(d, o, CommitStatus(d, result[d]))
          /\ reportErr' = [reportErr EXCEPT ![d] = (o # "ok")]
    /\ UNCHANGED <<setup, live, result, token, store, up>>

\* Mutation: the deployment succeeds whatever the deploy did.
FinishSuccess(d) ==
    /\ \E o \in Outcomes :
          /\ \/ pc[d] = "status" /\ Goto(d, "commit") /\ apiPost(d, o, DeploymentStatus(d, "success"))
             \/ pc[d] = "commit" /\ Goto(d, "save") /\ apiPost(d, o, CommitStatus(d, result[d]))
          /\ reportErr' = [reportErr EXCEPT ![d] = @ \/ o # "ok"]
    /\ UNCHANGED <<setup, live, result, token, store, up>>

\* Mutation: each request is repeated until it goes through.
FinishInsisting(d) ==
    /\ \E o \in Outcomes :
          /\ \/ pc[d] = "status" /\ Goto(d, "commit") /\ apiPost(d, o, DeploymentStatus(d, result[d]))
             \/ pc[d] = "commit" /\ Goto(d, "save") /\ apiPost(d, o, CommitStatus(d, result[d]))
          /\ o = "ok" /\ UNCHANGED reportErr
    /\ UNCHANGED <<setup, live, result, token, store, up>>

\* Deployment and commit status each get their request, the first error is kept.
reportFinish(d) ==
    /\ \E o \in Outcomes :
          /\ \/ pc[d] = "status" /\ Goto(d, "commit") /\ apiPost(d, o, DeploymentStatus(d, result[d]))
             \/ pc[d] = "commit" /\ Goto(d, "save") /\ apiPost(d, o, CommitStatus(d, result[d]))
          /\ reportErr' = [reportErr EXCEPT ![d] = @ \/ o # "ok"]
    /\ UNCHANGED <<setup, live, result, token, store, up>>

\* ReportStatus is what was to be reported, also when there was nobody to tell.
End(d) ==
    /\ pc[d] = "save"
    /\ SaveDeployment(d, [status |-> result[d], token |-> token[d],
                          reportStatus |-> IF setup.enabled THEN result[d] ELSE "none",
                          reportError |-> reportErr[d]])
    /\ Goto(d, "ended")
    /\ Forget({d})
    /\ UNCHANGED <<setup, result, github, up>>

-----------------------------------------------------------------------------
(* Expiry, crash, startup.                                                 *)

\* DEEPLO_DEPLOY_TIMEOUT, or a shutdown that cancels its jobs.
Expire(d) ==
    /\ d \in Running /\ live[d] /\ Fault
    /\ live' = [live EXCEPT ![d] = FALSE]
    /\ UNCHANGED <<setup, pc, result, token, reportErr, store, github, up>>

Crash ==
    /\ up /\ crashes < MaxCrashes
    /\ up' = FALSE
    /\ crashes' = crashes + 1
    /\ pc' = [d \in Deploys |-> IF d \in Running THEN "dead" ELSE pc[d]]
    /\ Forget(Running)
    /\ UNCHANGED <<setup, result, store, github, faults>>

\* MarkStaleRunningDeploymentsFailed: nothing is reported.
Restart ==
    /\ ~up
    /\ up' = TRUE
    /\ record' = [d \in Deploys |->
           IF record[d].status = "running" /\ d \in latest[Target(d)]
           THEN [record[d] EXCEPT !.status = "failure"] ELSE record[d]]
    /\ UNCHANGED <<setup, local, latest, github, budget>>

-----------------------------------------------------------------------------
DeployTarget(d) ==
    createDeployment(d) \/ StartStatus(d) \/ runDeploy(d) \/ reportFinish(d) \/ End(d)

Next ==
    \/ \E d \in Deploys : Start(d) \/ DeployTarget(d) \/ Expire(d)
    \/ Crash
    \/ Restart

Spec == Init /\ [][Next]_vars

\* A deploy that has begun goes on: requests have a timeout of their own, and
\* runDeploy returns.
LiveSpec == Spec /\ \A d \in Deploys : WF_vars(DeployTarget(d))

-----------------------------------------------------------------------------
(* Properties.                                                             *)

\* Deploys, records and what GitHub holds stay in their types.
TypeOK ==
    /\ setup \in Setups
    /\ pc \in [Deploys -> {"idle", "create", "progress", "pending", "run", "status", "commit",
                           "save", "ended", "dead"}]
    /\ live \in [Deploys -> BOOLEAN] /\ token \in [Deploys -> BOOLEAN] /\ reportErr \in [Deploys -> BOOLEAN]
    /\ result \in [Deploys -> {"none", "success", "failure"}]
    /\ record \in [Deploys -> [status : {"none", "running", "success", "failure"}, token : BOOLEAN,
                               reportStatus : {"none", "success", "failure"}, reportError : BOOLEAN]]
    /\ latest \in [Projects \X Hosts -> SUBSET Deploys]
    /\ deployment \in [Deploys -> {"none", "created", "in_progress", "success", "failure", "inactive"}]
    /\ commit \in [Shas \X Environments -> {NoStatus} \cup
                       [state : {"pending", "success", "failure"}, by : Deploys]]
    /\ up \in BOOLEAN /\ faults \in 0..MaxFaults /\ crashes \in 0..MaxCrashes

\* GitHub calls a deploy or a commit a success or a failure only when the
\* deploy it has this from came out so, whatever requests and answers were
\* lost, contexts expired and daemons died (DeployTarget reports once runDeploy
\* has returned). A record of success is as true; one of failure may be the
\* startup marking of a deploy that died.
GitHubIsTrue ==
    /\ \A d \in Deploys :
          /\ deployment[d] \in {"success", "inactive"} => result[d] = "success"
          /\ deployment[d] = "failure" => result[d] = "failure"
          /\ record[d].status = "success" => result[d] = "success"
    /\ \A k \in DOMAIN commit :
          commit[k].state \in {"success", "failure"} => result[commit[k].by] = commit[k].state

\* GitHub has what d came to, as far as d was the last to say something.
Told(d) ==
    /\ record[d].token => deployment[d] \in (IF result[d] = "success" THEN {"success", "inactive"} ELSE {"failure"})
    /\ commit[Context(d)] # NoStatus
    /\ commit[Context(d)].by = d => commit[Context(d)].state = result[d]

\* A record that shows a report and no reporting error can be relied on: GitHub
\* knows how the deploy ended, and nothing it created stays in progress. (A
\* repository that is not on GitHub is an exception: its records claim a report
\* that nobody sent.)
SilenceMeansTold ==
    setup.onGitHub => \A d \in Deploys :
        record[d].reportStatus # "none" /\ ~record[d].reportError => Told(d)

\* Unless the daemon warned of it at startup, what GitHub shows of one target is
\* replaced only by a later deploy of the same target: environments and
\* contexts tell targets apart.
OwnTargetOnly ==
    [][~WarnAmbiguousReporting =>
          /\ \A d \in Deploys : deployment[d] = "success" /\ deployment'[d] = "inactive" =>
                \E e \in Deploys : deployment[e] # "success" /\ deployment'[e] = "success" /\ Target(e) = Target(d)
          /\ \A k \in DOMAIN commit : commit[k] # NoStatus /\ commit'[k] # commit[k] =>
                Target(commit'[k].by) = Target(commit[k].by)]_vars

\* A deployment that GitHub shows in progress does not stay so unnoticed: GitHub
\* learns how it ended, or the record names the error, unless the daemon died
\* meanwhile or could not save the record. Neither GitHub nor an expired context
\* holds up the deploy.
InProgressEnds ==
    \A d \in Deploys :
        deployment[d] = "in_progress" ~>
            \/ deployment[d] \in {"success", "failure", "inactive"}
            \/ record[d].reportError
            \/ pc[d] = "dead"
            \/ pc[d] = "ended" /\ record[d].reportStatus = "none"
=============================================================================
