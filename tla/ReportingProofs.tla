-------------------------- MODULE ReportingProofs --------------------------
(***************************************************************************)
(* What GitHub and the records say is true, for any number of deploys,     *)
(* targets, faults and crashes.  Inv is inductive: it adds to the two      *)
(* promises which requests a deploy has behind it at each point, and what  *)
(* they have left on GitHub if none of them failed.                        *)
(***************************************************************************)
EXTENDS Reporting, TLAPS

\* Before runDeploy has returned.
Early == {"idle", "create", "progress", "pending", "run"}

Requesting == {"create", "progress", "pending", "status", "commit"}

\* The result is there when DeployTarget starts to report it, not before.
ResultKnown(d) ==
    /\ pc[d] \in Early => result[d] = "none"
    /\ pc[d] \in {"status", "commit", "save"} => result[d] \in {"success", "failure"}

\* Without a reporter, or a repository on GitHub, no request is made.
ReporterNeeded(d) == pc[d] \in Requesting => setup.enabled /\ setup.onGitHub

\* The deployment has no final state until reportFinish gives it one.
StillOpen(d) ==
    pc[d] \in Early \cup {"status"} => deployment[d] \in {"none", "created", "in_progress"}

\* What the deployment and the record say of a deploy is so.
DeployIsTrue(d) ==
    /\ deployment[d] \in {"success", "inactive"} => result[d] = "success"
    /\ deployment[d] = "failure" => result[d] = "failure"
    /\ record[d].status = "success" => result[d] = "success"

DeploymentTold(d) ==
    deployment[d] \in (IF result[d] = "success" THEN {"success", "inactive"} ELSE {"failure"})

CommitTold(d) ==
    /\ commit[Context(d)] # NoStatus
    /\ commit[Context(d)].by = d => commit[Context(d)].state = result[d]

\* As long as firstErr is nil, the requests that reportFinish has behind it
\* have done their work.
FinishTold(d) ==
    setup.onGitHub /\ setup.enabled /\ ~reportErr[d] =>
        /\ pc[d] \in {"commit", "save"} /\ token[d] => DeploymentTold(d)
        /\ pc[d] = "save" => CommitTold(d)

\* Only a deploy that has ended has a record of its report, and one without an
\* error can be relied on.
RecordTold(d) ==
    record[d].reportStatus # "none" =>
        /\ pc[d] = "ended"
        /\ setup.onGitHub /\ ~record[d].reportError =>
               (record[d].token => DeploymentTold(d)) /\ CommitTold(d)

DeployInv(d) ==
    /\ ResultKnown(d) /\ ReporterNeeded(d) /\ StillOpen(d)
    /\ DeployIsTrue(d) /\ FinishTold(d) /\ RecordTold(d)

\* A commit status is in the context of the deploy it is from, and true.
CommitsTrue ==
    \A k \in Shas \X Environments : commit[k] # NoStatus =>
        /\ commit[k].by \in Deploys /\ Context(commit[k].by) = k
        /\ commit[k].state \in {"success", "failure"} => result[commit[k].by] = commit[k].state

Inv == TypeOK /\ CommitsTrue /\ \A d \in Deploys : DeployInv(d)

\* The two promises are part of it.
LEMMA InvPromises ==
    ASSUME Inv
    PROVE  GitHubIsTrue /\ SilenceMeansTold
<1>1. DOMAIN commit = Shas \X Environments
  BY DEF Inv, TypeOK
<1>2. GitHubIsTrue
  <2>1. \A k \in DOMAIN commit :
            commit[k].state \in {"success", "failure"} => result[commit[k].by] = commit[k].state
    BY <1>1 DEF Inv, CommitsTrue, NoStatus
  <2> QED
    BY <2>1 DEF Inv, DeployInv, DeployIsTrue, GitHubIsTrue
<1>3. SilenceMeansTold
  BY DEF Inv, DeployInv, RecordTold, DeploymentTold, CommitTold, SilenceMeansTold, Told
<1> QED
  BY <1>2, <1>3

-----------------------------------------------------------------------------
(* What the helpers do.                                                    *)

\* Targets, environments and contexts of deploys are what the index and
\* GitHub keep their entries by.
LEMMA Names ==
    ASSUME TypeOK, NEW d \in Deploys
    PROVE  /\ setup.enabled \in BOOLEAN /\ setup.environmentHost \in BOOLEAN /\ setup.onGitHub \in BOOLEAN
           /\ Target(d) \in Projects \X Hosts
           /\ Environment(d) \in Environments
           /\ Context(d) \in Shas \X Environments
<1>1. setup \in [enabled : BOOLEAN, environmentHost : BOOLEAN, onGitHub : BOOLEAN, info : [Deploys -> DeployInfo]]
  BY ReportingAssumption DEF TypeOK
<1>2. setup.info[d] \in [project : Projects, host : Hosts, sha : Shas]
  BY <1>1 DEF DeployInfo
<1>3. setup.info[d].project \in Projects /\ setup.info[d].host \in Hosts /\ setup.info[d].sha \in Shas
  BY <1>2
<1>4. Target(d) \in Projects \X Hosts
  BY <1>3 DEF Target, Info
<1>5. Environment(d) \in Environments
  BY <1>3 DEF Environment, Environments, Info
<1>6. Context(d) \in Shas \X Environments
  BY <1>3, <1>5 DEF Context, Info
<1> QED
  BY <1>1, <1>4, <1>5, <1>6

\* Names do not change: the settings are read once.
LEMMA NamesStay ==
    ASSUME UNCHANGED setup, NEW d
    PROVE  Target(d)' = Target(d) /\ Environment(d)' = Environment(d) /\ Context(d)' = Context(d)
BY DEF Target, Environment, Context, Info

DeploymentStates == {"none", "created", "in_progress", "success", "failure", "inactive"}

\* A new state of one deployment may only deactivate others.
LEMMA DeploymentStatusEffect ==
    ASSUME TypeOK, NEW d \in Deploys, NEW state \in DeploymentStates, DeploymentStatus(d, state)
    PROVE  /\ deployment' \in [Deploys -> DeploymentStates]
           /\ deployment'[d] = state
           /\ \A e \in Deploys \ {d} :
                 \/ deployment'[e] = deployment[e]
                 \/ deployment[e] = "success" /\ deployment'[e] = "inactive"
           /\ commit' = commit
BY DEF TypeOK, DeploymentStatus, DeploymentStates

CommitStates == {NoStatus} \cup [state : {"pending", "success", "failure"}, by : Deploys]

\* A commit status replaces what its context had.
LEMMA CommitStatusEffect ==
    ASSUME TypeOK, NEW d \in Deploys, NEW state \in {"pending", "success", "failure"}, CommitStatus(d, state)
    PROVE  /\ commit' \in [Shas \X Environments -> CommitStates]
           /\ commit'[Context(d)] = [state |-> state, by |-> d]
           /\ commit'[Context(d)] # NoStatus
           /\ \A k \in (Shas \X Environments) \ {Context(d)} : commit'[k] = commit[k]
           /\ \A k \in Shas \X Environments :
                 commit'[k] = commit[k] \/ (commit'[k] # NoStatus /\ commit'[k].by = d)
           /\ deployment' = deployment
<1>1. Context(d) \in Shas \X Environments
  BY Names
<1>2. commit \in [Shas \X Environments -> CommitStates]
  BY DEF TypeOK, CommitStates
<1>3. [state |-> state, by |-> d] \in CommitStates
  BY DEF CommitStates
<1>4. [state |-> state, by |-> d] # NoStatus
  BY DEF NoStatus
<1>5. \A k \in Shas \X Environments :
          commit'[k] = IF k = Context(d) THEN [state |-> state, by |-> d] ELSE commit[k]
  BY <1>1, <1>2 DEF CommitStatus
<1>6. [state |-> state, by |-> d].by = d
  OBVIOUS
<1> QED
  BY <1>1, <1>2, <1>3, <1>4, <1>5, <1>6 DEF CommitStatus

LEMMA FaultType ==
    ASSUME TypeOK, Fault \/ UNCHANGED budget
    PROVE  faults' \in 0..MaxFaults /\ crashes' \in 0..MaxCrashes
BY ReportingAssumption DEF TypeOK, Fault, budget

LEMMA GotoEffect ==
    ASSUME TypeOK, NEW d \in Deploys, NEW where, Goto(d, where)
    PROVE  /\ pc'[d] = where
           /\ \A e \in Deploys \ {d} : pc'[e] = pc[e]
BY DEF TypeOK, Goto

Records == [status : {"none", "running", "success", "failure"}, token : BOOLEAN,
            reportStatus : {"none", "success", "failure"}, reportError : BOOLEAN]

\* SaveDeployment writes the record of one deploy, or nothing.
LEMMA SaveEffect ==
    ASSUME TypeOK, NEW d \in Deploys,
           NEW rec \in Records,
           SaveDeployment(d, rec)
    PROVE  /\ record' \in [Deploys -> Records]
           /\ latest' \in [Projects \X Hosts -> SUBSET Deploys]
           /\ record'[d] = rec \/ record'[d] = record[d]
           /\ \A e \in Deploys \ {d} : record'[e] = record[e]
           /\ faults' \in 0..MaxFaults /\ crashes' \in 0..MaxCrashes
<1>1. Target(d) \in Projects \X Hosts
  BY Names
<1>2. Fault \/ UNCHANGED budget
  BY DEF SaveDeployment
<1>3. faults' \in 0..MaxFaults /\ crashes' \in 0..MaxCrashes
  BY <1>2, FaultType
<1>4. CASE UNCHANGED store
  BY <1>3, <1>4 DEF TypeOK, store, Records
<1>5. CASE record' = [record EXCEPT ![d] = rec] /\ latest' = [latest EXCEPT ![Target(d)] = {d}]
  <2>1. latest' \in [Projects \X Hosts -> SUBSET Deploys]
    BY <1>1, <1>5 DEF TypeOK
  <2> QED
    BY <1>3, <1>5, <2>1 DEF TypeOK, Records
<1> QED
  BY <1>4, <1>5 DEF SaveDeployment

-----------------------------------------------------------------------------
(* A step of one deploy leaves the others as they were, except that GitHub *)
(* may deactivate their deployments and replace a commit status.           *)

Elsewhere(d) ==
    /\ UNCHANGED setup
    /\ \A e \in Deploys \ {d} :
          /\ pc'[e] = pc[e] /\ result'[e] = result[e] /\ token'[e] = token[e]
          /\ reportErr'[e] = reportErr[e] /\ record'[e] = record[e]
          /\ \/ deployment'[e] = deployment[e]
             \/ deployment[e] = "success" /\ deployment'[e] = "inactive"
    /\ \A k \in Shas \X Environments :
          \/ commit'[k] = commit[k]
          \/ commit'[k] # NoStatus /\ commit'[k].by = d

LEMMA OthersKeep ==
    ASSUME Inv, NEW d \in Deploys, Elsewhere(d), NEW e \in Deploys \ {d}
    PROVE  DeployInv(e)'
<1>1. Context(e)' = Context(e) /\ Context(e) \in Shas \X Environments
  BY Names, NamesStay DEF Elsewhere, Inv
<1>2. pc'[e] = pc[e] /\ result'[e] = result[e] /\ UNCHANGED setup
  BY DEF Elsewhere
<1>3. ResultKnown(e)' /\ ReporterNeeded(e)'
  BY <1>2 DEF Inv, DeployInv, ResultKnown, ReporterNeeded
<1>4. DeployIsTrue(e)' /\ StillOpen(e)'
  BY <1>2 DEF Inv, DeployInv, DeployIsTrue, StillOpen, Elsewhere
<1>5. DeploymentTold(e) => DeploymentTold(e)'
  BY <1>2 DEF DeploymentTold, Elsewhere
<1>6. CommitTold(e) => CommitTold(e)'
  BY <1>1, <1>2 DEF CommitTold, Elsewhere
<1>7. FinishTold(e)'
  BY <1>2, <1>5, <1>6 DEF Inv, DeployInv, FinishTold, Elsewhere
<1>8. RecordTold(e)'
  BY <1>2, <1>5, <1>6 DEF Inv, DeployInv, RecordTold, Elsewhere
<1> QED
  BY <1>3, <1>4, <1>7, <1>8 DEF DeployInv

\* So a step of d has to be looked at for d itself, the types and the commits.
LEMMA StepOfOne ==
    ASSUME Inv, NEW d \in Deploys, Elsewhere(d), TypeOK', CommitsTrue', DeployInv(d)'
    PROVE  Inv'
BY OthersKeep DEF Inv

\* With the commit statuses untouched, they stay true unless d's result changes.
LEMMA CommitsStay ==
    ASSUME Inv, UNCHANGED <<setup, commit, result>>
    PROVE  CommitsTrue'
BY NamesStay DEF Inv, CommitsTrue

-----------------------------------------------------------------------------
(* The steps of DeployTarget.                                              *)

LEMMA StartStep ==
    ASSUME Inv, NEW d \in Deploys, Start(d)
    PROVE  Inv'
<1> DEFINE where == IF setup.enabled /\ setup.onGitHub THEN "create" ELSE "run"
           rec == [NoRecord EXCEPT !.status = "running"]
<1>1. pc[d] = "idle" /\ SaveDeployment(d, rec) /\ Goto(d, where)
      /\ UNCHANGED <<setup, live, result, token, reportErr, deployment, commit, up>>
  BY DEF Start, github
<1>2. rec \in Records /\ rec.status = "running" /\ rec.reportStatus = "none"
  BY DEF Records, NoRecord
<1> HIDE DEF rec
<1>3. TypeOK'
  BY <1>1, <1>2, SaveEffect DEF Inv, TypeOK, Goto, Records
<1>4. Elsewhere(d)
  BY <1>1, <1>2, SaveEffect, GotoEffect DEF Inv, Elsewhere
<1>5. CommitsTrue'
  BY <1>1, CommitsStay
<1>6. DeployInv(d)'
  <2>1. /\ pc'[d] = where /\ record'[d] \in {rec, record[d]}
        /\ DeployInv(d)
    BY <1>1, <1>2, SaveEffect, GotoEffect DEF Inv
  <2> QED
    BY <1>1, <1>2, <2>1 DEF DeployInv, ResultKnown, ReporterNeeded, StillOpen, DeployIsTrue, FinishTold,
       RecordTold, Early, Requesting
<1> QED
  BY <1>3, <1>4, <1>5, <1>6, StepOfOne

\* A request about a deployment: carried out or not, it costs a fault at most.
LEMMA PostDeployment ==
    ASSUME Inv, NEW d \in Deploys, NEW o \in Outcomes, NEW state \in DeploymentStates,
           apiPost(d, o, DeploymentStatus(d, state))
    PROVE  /\ deployment' \in [Deploys -> DeploymentStates] /\ UNCHANGED commit
           /\ deployment'[d] = state \/ (o # "ok" /\ deployment'[d] = deployment[d])
           /\ \A e \in Deploys \ {d} :
                 \/ deployment'[e] = deployment[e]
                 \/ deployment[e] = "success" /\ deployment'[e] = "inactive"
           /\ faults' \in 0..MaxFaults /\ crashes' \in 0..MaxCrashes
<1>1. TypeOK /\ (Fault \/ UNCHANGED budget)
  BY DEF Inv, apiPost
<1>2. faults' \in 0..MaxFaults /\ crashes' \in 0..MaxCrashes
  BY <1>1, FaultType
<1>3. CASE o \in {"ok", "lost"}
  BY <1>1, <1>2, <1>3, DeploymentStatusEffect DEF apiPost
<1>4. CASE o \notin {"ok", "lost"}
  BY <1>1, <1>2, <1>4 DEF apiPost, github, TypeOK, DeploymentStates
<1> QED
  BY <1>3, <1>4

LEMMA PostCommit ==
    ASSUME Inv, NEW d \in Deploys, NEW o \in Outcomes, NEW state \in {"pending", "success", "failure"},
           apiPost(d, o, CommitStatus(d, state))
    PROVE  /\ commit' \in [Shas \X Environments -> CommitStates] /\ UNCHANGED deployment
           /\ \/ commit'[Context(d)] = [state |-> state, by |-> d] /\ commit'[Context(d)] # NoStatus
              \/ o # "ok" /\ commit'[Context(d)] = commit[Context(d)]
           /\ \A k \in (Shas \X Environments) \ {Context(d)} : commit'[k] = commit[k]
           /\ \A k \in Shas \X Environments :
                 commit'[k] = commit[k] \/ (commit'[k] # NoStatus /\ commit'[k].by = d)
           /\ faults' \in 0..MaxFaults /\ crashes' \in 0..MaxCrashes
<1>1. TypeOK /\ (Fault \/ UNCHANGED budget)
  BY DEF Inv, apiPost
<1>2. faults' \in 0..MaxFaults /\ crashes' \in 0..MaxCrashes
  BY <1>1, FaultType
<1>3. CASE o \in {"ok", "lost"}
  <2>1. CommitStatus(d, state)
    BY <1>3 DEF apiPost
  <2>2. UNCHANGED deployment
    BY <2>1 DEF CommitStatus
  <2>3. commit' \in [Shas \X Environments -> CommitStates]
    BY <1>1, <2>1, CommitStatusEffect
  <2>4. commit'[Context(d)] = [state |-> state, by |-> d] /\ commit'[Context(d)] # NoStatus
    BY <1>1, <2>1, CommitStatusEffect
  <2>5. ASSUME NEW k \in (Shas \X Environments) \ {Context(d)} PROVE commit'[k] = commit[k]
    <3>1. commit \in [Shas \X Environments -> CommitStates]
      BY <1>1 DEF TypeOK, CommitStates
    <3> QED
      BY <2>1, <3>1 DEF CommitStatus
  <2>6. \A k \in Shas \X Environments :
              commit'[k] = commit[k] \/ (commit'[k] # NoStatus /\ commit'[k].by = d)
    BY <1>1, <2>1, CommitStatusEffect
  <2> QED
    BY <1>2, <2>2, <2>3, <2>4, <2>5, <2>6, Zenon
<1>4. CASE o \notin {"ok", "lost"}
  BY <1>1, <1>2, <1>4 DEF apiPost, github, TypeOK, CommitStates
<1> QED
  BY <1>3, <1>4

\* Commit statuses stay true when d says what came of it, or that it is pending.
LEMMA CommitsStayTrue ==
    ASSUME Inv, NEW d \in Deploys, NEW state \in {"pending", "success", "failure"},
           state \in {"success", "failure"} => result[d] = state,
           UNCHANGED <<setup, result>>,
           \/ commit'[Context(d)] = [state |-> state, by |-> d]
           \/ commit'[Context(d)] = commit[Context(d)],
           \A k \in (Shas \X Environments) \ {Context(d)} : commit'[k] = commit[k]
    PROVE  CommitsTrue'
<1> SUFFICES ASSUME NEW k \in Shas \X Environments, (commit[k] # NoStatus)'
             PROVE  (/\ commit[k].by \in Deploys /\ Context(commit[k].by) = k
                     /\ commit[k].state \in {"success", "failure"} => result[commit[k].by] = commit[k].state)'
  BY DEF CommitsTrue
<1>1. CASE commit'[k] = commit[k]
  BY <1>1, NamesStay DEF Inv, CommitsTrue
<1>2. CASE k = Context(d) /\ commit'[k] = [state |-> state, by |-> d]
  BY <1>2, NamesStay
<1> QED
  BY <1>1, <1>2

LEMMA createDeploymentStep ==
    ASSUME Inv, NEW d \in Deploys, createDeployment(d)
    PROVE  Inv'
<1>1. PICK o \in Outcomes :
          /\ apiPost(d, o, DeploymentStatus(d, "created"))
          /\ token' = [token EXCEPT ![d] = (o = "ok")]
          /\ Goto(d, IF o = "ok" THEN "progress" ELSE "run")
  BY DEF createDeployment
<1>2. pc[d] = "create" /\ UNCHANGED <<setup, live, result, reportErr, record, latest, up>>
  BY DEF createDeployment, store
<1>3. "created" \in DeploymentStates
  BY DEF DeploymentStates
<1>4. TypeOK'
  BY <1>1, <1>2, <1>3, PostDeployment DEF Inv, TypeOK, Goto, DeploymentStates
<1>5. Elsewhere(d)
  BY <1>1, <1>2, <1>3, PostDeployment, GotoEffect DEF Inv, Elsewhere, TypeOK
<1>6. CommitsTrue'
  BY <1>1, <1>2, <1>3, PostDeployment, CommitsStay
<1>7. DeployInv(d)'
  <2>1. /\ pc'[d] \in {"progress", "run"} /\ deployment'[d] \in {"created", deployment[d]}
        /\ DeployInv(d)
    BY <1>1, <1>3, PostDeployment, GotoEffect DEF Inv
  <2> QED
    BY <1>2, <2>1 DEF DeployInv, ResultKnown, ReporterNeeded, StillOpen, DeployIsTrue, FinishTold,
       RecordTold, Early, Requesting
<1> QED
  BY <1>4, <1>5, <1>6, <1>7, StepOfOne

LEMMA StartStatusStep ==
    ASSUME Inv, NEW d \in Deploys, StartStatus(d)
    PROVE  Inv'
<1>1. UNCHANGED <<setup, live, result, token, reportErr, record, latest, up>>
  BY DEF StartStatus, store
<1>2. PICK o \in Outcomes :
          \/ pc[d] = "progress" /\ Goto(d, "pending") /\ apiPost(d, o, DeploymentStatus(d, "in_progress"))
          \/ pc[d] = "pending" /\ Goto(d, "run") /\ apiPost(d, o, CommitStatus(d, "pending"))
  BY DEF StartStatus
<1>3. CASE pc[d] = "progress" /\ Goto(d, "pending") /\ apiPost(d, o, DeploymentStatus(d, "in_progress"))
  <2>1. "in_progress" \in DeploymentStates
    BY DEF DeploymentStates
  <2>2. TypeOK'
    BY <1>1, <1>3, <2>1, PostDeployment DEF Inv, TypeOK, Goto, DeploymentStates
  <2>3. Elsewhere(d)
    BY <1>1, <1>3, <2>1, PostDeployment, GotoEffect DEF Inv, Elsewhere
  <2>4. CommitsTrue'
    BY <1>1, <1>3, <2>1, PostDeployment, CommitsStay
  <2>5. /\ pc'[d] = "pending" /\ deployment'[d] \in {"in_progress", deployment[d]}
        /\ DeployInv(d)
    BY <1>3, <2>1, PostDeployment, GotoEffect DEF Inv
  <2>6. DeployInv(d)'
    BY <1>1, <1>3, <2>5 DEF DeployInv, ResultKnown, ReporterNeeded, StillOpen, DeployIsTrue, FinishTold,
       RecordTold, Early, Requesting
  <2> QED
    BY <2>2, <2>3, <2>4, <2>6, StepOfOne
<1>4. CASE pc[d] = "pending" /\ Goto(d, "run") /\ apiPost(d, o, CommitStatus(d, "pending"))
  <2>0. /\ commit' \in [Shas \X Environments -> CommitStates] /\ UNCHANGED deployment
        /\ faults' \in 0..MaxFaults /\ crashes' \in 0..MaxCrashes
    BY <1>4, PostCommit
  <2>1. TypeOK'
    BY <1>1, <1>4, <2>0 DEF Inv, TypeOK, Goto, CommitStates
  <2>2. Elsewhere(d)
    BY <1>1, <1>4, PostCommit, GotoEffect DEF Inv, Elsewhere
  <2>3. CommitsTrue'
    BY <1>1, <1>4, PostCommit, CommitsStayTrue
  <2>4. pc'[d] = "run" /\ DeployInv(d) /\ UNCHANGED deployment
    BY <1>4, PostCommit, GotoEffect DEF Inv
  <2>5. DeployInv(d)'
    BY <1>1, <1>4, <2>4 DEF DeployInv, ResultKnown, ReporterNeeded, StillOpen, DeployIsTrue, FinishTold,
       RecordTold, Early, Requesting
  <2> QED
    BY <2>1, <2>2, <2>3, <2>5, StepOfOne
<1> QED
  BY <1>2, <1>3, <1>4

\* The result was not there before, so nothing on GitHub is from it.
LEMMA runDeployStep ==
    ASSUME Inv, NEW d \in Deploys, runDeploy(d)
    PROVE  Inv'
<1> DEFINE where == IF ~setup.enabled \/ ~setup.onGitHub THEN "save"
                    ELSE IF token[d] THEN "status" ELSE "commit"
<1>1. /\ pc[d] = "run" /\ Goto(d, where)
      /\ UNCHANGED <<setup, live, token, reportErr, record, latest, deployment, commit, up, faults, crashes>>
  BY DEF runDeploy, store, github, budget
<1>2. PICK r \in {"success", "failure"} : result' = [result EXCEPT ![d] = r]
  BY DEF runDeploy
<1>3. DeployInv(d) /\ result[d] = "none"
  BY <1>1 DEF Inv, DeployInv, ResultKnown, Early
<1>4. where \in {"save", "status", "commit"}
      /\ (where # "save" => setup.enabled /\ setup.onGitHub)
      /\ (where = "save" => ~(setup.enabled /\ setup.onGitHub))
      /\ (where = "commit" => ~token[d])
  BY Names DEF Inv, TypeOK
<1> HIDE DEF where
<1>5. pc'[d] = where /\ result'[d] = r /\ \A e \in Deploys \ {d} : result'[e] = result[e]
  BY <1>1, <1>2, GotoEffect DEF Inv, TypeOK
<1>6. TypeOK'
  BY <1>1, <1>2, <1>4 DEF Inv, TypeOK, Goto
<1>7. Elsewhere(d)
  BY <1>1, <1>5, GotoEffect DEF Inv, Elsewhere
<1>8. CommitsTrue'
  BY <1>1, <1>3, <1>5, NamesStay DEF Inv, CommitsTrue
<1>9. DeployInv(d)'
  BY <1>1, <1>3, <1>4, <1>5 DEF DeployInv, ResultKnown, ReporterNeeded, StillOpen, DeployIsTrue, FinishTold,
     RecordTold, Early, Requesting
<1> QED
  BY <1>6, <1>7, <1>8, <1>9, StepOfOne

LEMMA reportFinishStep ==
    ASSUME Inv, NEW d \in Deploys, reportFinish(d)
    PROVE  Inv'
<1>1. UNCHANGED <<setup, live, result, token, record, latest, up>>
  BY DEF reportFinish, store
<1>2. PICK o \in Outcomes :
          /\ \/ pc[d] = "status" /\ Goto(d, "commit") /\ apiPost(d, o, DeploymentStatus(d, result[d]))
             \/ pc[d] = "commit" /\ Goto(d, "save") /\ apiPost(d, o, CommitStatus(d, result[d]))
          /\ reportErr' = [reportErr EXCEPT ![d] = @ \/ o # "ok"]
  BY DEF reportFinish
<1>3. DeployInv(d) /\ pc[d] \in {"status", "commit"}
  BY <1>2 DEF Inv
<1>4. result[d] \in {"success", "failure"} /\ result[d] \in DeploymentStates
      /\ setup.enabled /\ setup.onGitHub
  BY <1>3 DEF DeployInv, ResultKnown, ReporterNeeded, Requesting, DeploymentStates
<1>5. /\ reportErr' \in [Deploys -> BOOLEAN]
      /\ reportErr'[d] = (reportErr[d] \/ o # "ok")
      /\ \A e \in Deploys \ {d} : reportErr'[e] = reportErr[e]
  BY <1>2 DEF Inv, TypeOK
<1>6. CASE pc[d] = "status" /\ Goto(d, "commit") /\ apiPost(d, o, DeploymentStatus(d, result[d]))
  <2>1. TypeOK'
    BY <1>1, <1>4, <1>5, <1>6, PostDeployment DEF Inv, TypeOK, Goto, DeploymentStates
  <2>2. Elsewhere(d)
    BY <1>1, <1>4, <1>5, <1>6, PostDeployment, GotoEffect DEF Inv, Elsewhere
  <2>3. CommitsTrue'
    BY <1>1, <1>4, <1>6, PostDeployment, CommitsStay
  <2>4. pc'[d] = "commit" /\ (deployment'[d] = result[d] \/ (o # "ok" /\ deployment'[d] = deployment[d]))
    BY <1>4, <1>6, PostDeployment, GotoEffect DEF Inv
  <2>5. DeployInv(d)'
    BY <1>1, <1>3, <1>4, <1>5, <1>6, <2>4 DEF DeployInv, ResultKnown, ReporterNeeded, StillOpen, DeployIsTrue,
       FinishTold, DeploymentTold, RecordTold, Early, Requesting
  <2> QED
    BY <2>1, <2>2, <2>3, <2>5, StepOfOne
<1>7. CASE pc[d] = "commit" /\ Goto(d, "save") /\ apiPost(d, o, CommitStatus(d, result[d]))
  <2>1. /\ commit' \in [Shas \X Environments -> CommitStates] /\ UNCHANGED deployment
        /\ faults' \in 0..MaxFaults /\ crashes' \in 0..MaxCrashes
    BY <1>4, <1>7, PostCommit
  <2>2. pc' = [pc EXCEPT ![d] = "save"]
    BY <1>7 DEF Goto
  <2>3. TypeOK'
    BY <1>1, <1>5, <2>1, <2>2 DEF Inv, TypeOK, CommitStates
  <2>4. pc'[d] = "save" /\ \A e \in Deploys \ {d} : pc'[e] = pc[e]
    BY <1>7, GotoEffect DEF Inv
  <2>5. \A k \in Shas \X Environments :
            commit'[k] = commit[k] \/ (commit'[k] # NoStatus /\ commit'[k].by = d)
    BY <1>4, <1>7, PostCommit
  <2>6. Elsewhere(d)
    BY <1>1, <1>5, <2>1, <2>4, <2>5 DEF Elsewhere
  <2>7. CommitsTrue'
    BY <1>1, <1>4, <1>7, PostCommit, CommitsStayTrue
  <2>8. \/ commit'[Context(d)] = [state |-> result[d], by |-> d] /\ commit'[Context(d)] # NoStatus
        \/ o # "ok"
    <3>1. o = "ok" => CommitStatus(d, result[d])
      BY <1>7 DEF apiPost
    <3> QED
      BY <1>4, <3>1, CommitStatusEffect DEF Inv
  <2>9. ~reportErr'[d] => CommitTold(d)'
    BY <1>1, <1>5, <2>8, NamesStay DEF CommitTold
  <2>10. DeploymentTold(d) => DeploymentTold(d)'
    BY <1>1, <2>1 DEF DeploymentTold
  <2>11. DeployInv(d)'
    BY <1>1, <1>3, <1>4, <1>5, <1>7, <2>1, <2>4, <2>9, <2>10 DEF DeployInv, ResultKnown, ReporterNeeded, StillOpen,
       DeployIsTrue, FinishTold, RecordTold, Early, Requesting
  <2> QED
    BY <2>3, <2>6, <2>7, <2>11, StepOfOne
<1> QED
  BY <1>2, <1>6, <1>7

\* The record takes over what FinishTold says of the deploy.
LEMMA EndStep ==
    ASSUME Inv, NEW d \in Deploys, End(d)
    PROVE  Inv'
<1> DEFINE rec == [status |-> result[d], token |-> token[d],
                   reportStatus |-> IF setup.enabled THEN result[d] ELSE "none",
                   reportError |-> reportErr[d]]
<1>1. /\ pc[d] = "save" /\ SaveDeployment(d, rec) /\ Goto(d, "ended") /\ Forget({d})
      /\ UNCHANGED <<setup, result, deployment, commit, up>>
  BY DEF End, github
<1>2. DeployInv(d) /\ result[d] \in {"success", "failure"}
  BY <1>1 DEF Inv, DeployInv, ResultKnown
<1>3. /\ rec \in Records /\ rec.status = result[d] /\ rec.token = token[d] /\ rec.reportError = reportErr[d]
      /\ rec.reportStatus # "none" => setup.enabled
  BY <1>2 DEF Inv, TypeOK, Records
<1> HIDE DEF rec
<1>4. /\ live' \in [Deploys -> BOOLEAN] /\ token' \in [Deploys -> BOOLEAN] /\ reportErr' \in [Deploys -> BOOLEAN]
      /\ \A e \in Deploys \ {d} : token'[e] = token[e] /\ reportErr'[e] = reportErr[e]
  BY <1>1 DEF Inv, TypeOK, Forget
<1>5. TypeOK'
  BY <1>1, <1>3, <1>4, SaveEffect DEF Inv, TypeOK, Goto, Records
<1>6. Elsewhere(d)
  BY <1>1, <1>3, <1>4, SaveEffect, GotoEffect DEF Inv, Elsewhere
<1>7. CommitsTrue'
  BY <1>1, CommitsStay
<1>8. pc'[d] = "ended" /\ record'[d] \in {rec, record[d]}
  BY <1>1, <1>3, SaveEffect, GotoEffect DEF Inv
<1>9. DeploymentTold(d)' = DeploymentTold(d) /\ CommitTold(d)' = CommitTold(d)
  BY <1>1, NamesStay DEF DeploymentTold, CommitTold
<1>10. RecordTold(d)'
  BY <1>1, <1>2, <1>3, <1>8, <1>9 DEF DeployInv, RecordTold, FinishTold
<1>11. DeployInv(d)'
  BY <1>1, <1>2, <1>3, <1>8, <1>10 DEF DeployInv, ResultKnown, ReporterNeeded, StillOpen, DeployIsTrue,
     FinishTold, Early, Requesting
<1> QED
  BY <1>5, <1>6, <1>7, <1>11, StepOfOne

-----------------------------------------------------------------------------
(* Expiry, crash, startup.                                                 *)

LEMMA ExpireStep ==
    ASSUME Inv, NEW d \in Deploys, Expire(d)
    PROVE  Inv'
<1>1. UNCHANGED <<setup, pc, result, token, reportErr, record, latest, deployment, commit, up>>
  BY DEF Expire, store, github
<1>2. TypeOK'
  BY <1>1, FaultType DEF Inv, TypeOK, Expire
<1>3. Elsewhere(d)
  BY <1>1 DEF Elsewhere
<1>4. CommitsTrue'
  BY <1>1, CommitsStay
<1>5. DeployInv(d)'
  BY <1>1, NamesStay DEF Inv, DeployInv, ResultKnown, ReporterNeeded, StillOpen, DeployIsTrue, FinishTold,
     RecordTold, DeploymentTold, CommitTold
<1> QED
  BY <1>2, <1>3, <1>4, <1>5, StepOfOne

\* What a dead deploy has said remains true.
LEMMA CrashStep ==
    ASSUME Inv, Crash
    PROVE  Inv'
<1>1. /\ pc' = [d \in Deploys |-> IF d \in Running THEN "dead" ELSE pc[d]]
      /\ UNCHANGED <<setup, result, record, latest, deployment, commit, faults>>
  BY DEF Crash, store, github
<1>2. TypeOK'
  <2>1. live' \in [Deploys -> BOOLEAN] /\ token' \in [Deploys -> BOOLEAN] /\ reportErr' \in [Deploys -> BOOLEAN]
    BY DEF Inv, TypeOK, Crash, Forget
  <2>2. crashes' \in 0..MaxCrashes
    BY ReportingAssumption DEF Inv, TypeOK, Crash
  <2>3. pc' \in [Deploys -> {"idle", "create", "progress", "pending", "run", "status", "commit",
                            "save", "ended", "dead"}]
    BY <1>1 DEF Inv, TypeOK
  <2> QED
    BY <1>1, <2>1, <2>2, <2>3 DEF Inv, TypeOK, Crash
<1>3. CommitsTrue'
  BY <1>1, CommitsStay
<1>4. ASSUME NEW d \in Deploys PROVE DeployInv(d)'
  <2>1. DeployInv(d)
    BY DEF Inv
  <2>2. pc'[d] \in {"idle", "ended", "dead"} /\ (pc'[d] = "dead" \/ pc'[d] = pc[d])
    BY <1>1 DEF Running
  <2>3. pc[d] = "ended" => pc'[d] = "ended"
    BY <1>1 DEF Running
  <2>4. DeploymentTold(d)' = DeploymentTold(d) /\ CommitTold(d)' = CommitTold(d)
    BY <1>1, NamesStay DEF DeploymentTold, CommitTold
  <2> QED
    BY <1>1, <2>1, <2>2, <2>3, <2>4 DEF DeployInv, ResultKnown, ReporterNeeded, StillOpen, DeployIsTrue,
       FinishTold, RecordTold, Early, Requesting
<1> QED
  BY <1>2, <1>3, <1>4 DEF Inv

LEMMA RestartStep ==
    ASSUME Inv, Restart
    PROVE  Inv'
<1>1. UNCHANGED <<setup, pc, live, result, token, reportErr, latest, deployment, commit, faults, crashes>>
  BY DEF Restart, local, github, budget
<1>2. \A d \in Deploys :
          /\ record'[d] \in Records
          /\ record'[d].status = "success" => record[d].status = "success"
          /\ record'[d].token = record[d].token /\ record'[d].reportStatus = record[d].reportStatus
          /\ record'[d].reportError = record[d].reportError
  <2> SUFFICES ASSUME NEW d \in Deploys
               PROVE  /\ record'[d] \in Records
                      /\ record'[d].status = "success" => record[d].status = "success"
                      /\ record'[d].token = record[d].token /\ record'[d].reportStatus = record[d].reportStatus
                      /\ record'[d].reportError = record[d].reportError
    OBVIOUS
  <2>1. record[d] \in Records
    BY DEF Inv, TypeOK, Records
  <2>2. record'[d] = record[d] \/ record'[d] = [record[d] EXCEPT !.status = "failure"]
    BY DEF Restart
  <2>3. CASE record'[d] = [record[d] EXCEPT !.status = "failure"]
    BY <2>1, <2>3 DEF Records
  <2> QED
    BY <2>1, <2>2, <2>3
<1>3. TypeOK'
  BY <1>1, <1>2 DEF Inv, TypeOK, Restart, Records
<1>4. CommitsTrue'
  BY <1>1, CommitsStay
<1>5. ASSUME NEW d \in Deploys PROVE DeployInv(d)'
  <2>1. DeploymentTold(d)' = DeploymentTold(d) /\ CommitTold(d)' = CommitTold(d)
    BY <1>1, NamesStay DEF DeploymentTold, CommitTold
  <2> QED
    BY <1>1, <1>2, <2>1 DEF Inv, DeployInv, ResultKnown, ReporterNeeded, StillOpen, DeployIsTrue,
       FinishTold, RecordTold
<1> QED
  BY <1>3, <1>4, <1>5 DEF Inv

-----------------------------------------------------------------------------
LEMMA InitInv == Init => Inv
<1> SUFFICES ASSUME Init PROVE Inv
  OBVIOUS
<1>1. TypeOK
  BY ReportingAssumption DEF Init, TypeOK, NoRecord
<1>2. CommitsTrue
  BY DEF Init, CommitsTrue
<1>3. ASSUME NEW d \in Deploys PROVE DeployInv(d)
  BY DEF Init, DeployInv, ResultKnown, ReporterNeeded, StillOpen, DeployIsTrue, FinishTold, RecordTold,
     Early, Requesting, NoRecord
<1> QED
  BY <1>1, <1>2, <1>3 DEF Inv

\* Inv is inductive: every request, answer, expiry, crash and start keeps it.
THEOREM ReportingInvariant == Spec => []Inv
<1>1. Inv /\ [Next]_vars => Inv'
  <2> SUFFICES ASSUME Inv, [Next]_vars PROVE Inv'
    OBVIOUS
  <2>1. CASE UNCHANGED vars
    <3>1. UNCHANGED <<setup, pc, live, result, token, reportErr, record, latest, deployment, commit, up, faults, crashes>>
      BY <2>1 DEF vars, local, store, github, budget
    <3>2. CommitsTrue'
      BY <3>1, CommitsStay
    <3>3. \A d \in Deploys : DeployInv(d)'
      BY <3>1, NamesStay DEF Inv, DeployInv, ResultKnown, ReporterNeeded, StillOpen, DeployIsTrue, FinishTold,
         RecordTold, DeploymentTold, CommitTold
    <3> QED
      BY <3>1, <3>2, <3>3 DEF Inv, TypeOK
  <2>2. CASE Next
    BY <2>2, StartStep, createDeploymentStep, StartStatusStep, runDeployStep, reportFinishStep, EndStep,
       ExpireStep, CrashStep, RestartStep DEF Next, DeployTarget
  <2> QED
    BY <2>1, <2>2
<1> QED
  BY <1>1, InitInv, PTL DEF Spec

\* GitHub and the records are never wrong about how a deploy ended.
THEOREM GitHubStaysTrue == Spec => []GitHubIsTrue
BY ReportingInvariant, InvPromises, PTL

\* A record without a reporting error means that GitHub has been told.
THEOREM SilenceIsSafe == Spec => []SilenceMeansTold
BY ReportingInvariant, InvPromises, PTL

-----------------------------------------------------------------------------
(* Whose the entries on GitHub are.                                        *)

\* Environments tell targets apart, unless the daemon warned that they do not.
LEMMA EnvironmentsApart ==
    ASSUME Inv, setup.enabled, ~WarnAmbiguousReporting,
           NEW d \in Deploys, NEW e \in Deploys, Environment(d) = Environment(e)
    PROVE  Target(d) = Target(e)
<1>1. CASE setup.environmentHost
  BY <1>1 DEF Environment, Target
<1>2. CASE ~setup.environmentHost
  <2>1. Info[d].project = Info[e].project
    BY <1>2 DEF Environment
  <2>2. Info[d].host = Info[e].host
    BY <1>2, <2>1 DEF WarnAmbiguousReporting
  <2> QED
    BY <2>1, <2>2 DEF Target
<1> QED
  BY <1>1, <1>2, Names DEF Inv

\* What a step changes on GitHub, if anything: the deployment of a deploy that
\* has no final state, or a commit status.
LEMMA GitHubChanges ==
    ASSUME Inv, [Next]_vars
    PROVE  \/ UNCHANGED <<deployment, commit>>
           \/ /\ setup.enabled
              /\ \E d \in Deploys :
                    \/ /\ deployment[d] # "success"
                       /\ \E state \in DeploymentStates : DeploymentStatus(d, state)
                    \/ \E state \in {"pending", "success", "failure"} : CommitStatus(d, state)
<1>1. CASE UNCHANGED vars
  BY <1>1 DEF vars, github
<1>2. ASSUME NEW d \in Deploys, Start(d) \/ runDeploy(d) \/ End(d) \/ Expire(d)
      PROVE  UNCHANGED <<deployment, commit>>
  BY <1>2 DEF Start, runDeploy, End, Expire, github
<1>3. CASE Crash \/ Restart
  BY <1>3 DEF Crash, Restart, github
<1>4. ASSUME NEW d \in Deploys, createDeployment(d) \/ StartStatus(d) \/ reportFinish(d)
      PROVE  \/ UNCHANGED <<deployment, commit>>
             \/ /\ setup.enabled
                /\ \/ /\ deployment[d] # "success"
                      /\ \E state \in DeploymentStates : DeploymentStatus(d, state)
                   \/ \E state \in {"pending", "success", "failure"} : CommitStatus(d, state)
  <2>1. DeployInv(d)
    BY DEF Inv
  <2>2. pc[d] \in Requesting
    BY <1>4 DEF createDeployment, StartStatus, reportFinish, Requesting
  <2>3. setup.enabled
    BY <2>1, <2>2 DEF DeployInv, ReporterNeeded
  <2>4. CASE createDeployment(d)
    <3>1. pc[d] = "create" /\ deployment[d] # "success"
      BY <2>1, <2>4 DEF createDeployment, DeployInv, StillOpen, Early
    <3>2. UNCHANGED <<deployment, commit>> \/ DeploymentStatus(d, "created")
      BY <2>4 DEF createDeployment, apiPost, github
    <3> QED
      BY <2>3, <3>1, <3>2 DEF DeploymentStates
  <2>5. CASE StartStatus(d)
    <3>1. deployment[d] # "success"
      BY <2>1, <2>5 DEF StartStatus, DeployInv, StillOpen, Early
    <3>2. \/ UNCHANGED <<deployment, commit>>
          \/ DeploymentStatus(d, "in_progress")
          \/ CommitStatus(d, "pending")
      BY <2>5 DEF StartStatus, apiPost, github
    <3> QED
      BY <2>3, <3>1, <3>2 DEF DeploymentStates
  <2>6. CASE reportFinish(d)
    <3>1. result[d] \in {"success", "failure"}
      BY <2>1, <2>6 DEF reportFinish, DeployInv, ResultKnown
    <3>2. \/ UNCHANGED <<deployment, commit>>
          \/ pc[d] = "status" /\ DeploymentStatus(d, result[d])
          \/ CommitStatus(d, result[d])
      BY <2>6 DEF reportFinish, apiPost, github
    <3>3. pc[d] = "status" => deployment[d] # "success"
      BY <2>1 DEF DeployInv, StillOpen
    <3> QED
      BY <2>3, <3>1, <3>2, <3>3 DEF DeploymentStates
  <2> QED
    BY <1>4, <2>4, <2>5, <2>6
<1> QED
  BY <1>1, <1>2, <1>3, <1>4 DEF Next, DeployTarget

\* Unless the daemon warned at startup, only a deploy of the same target replaces
\* what GitHub shows of a target.
THEOREM OnlyOwnTarget == Spec => OwnTargetOnly
<1> DEFINE Own ==
      ~WarnAmbiguousReporting =>
          /\ \A d \in Deploys : deployment[d] = "success" /\ deployment'[d] = "inactive" =>
                \E e \in Deploys : deployment[e] # "success" /\ deployment'[e] = "success" /\ Target(e) = Target(d)
          /\ \A k \in DOMAIN commit : commit[k] # NoStatus /\ commit'[k] # commit[k] =>
                Target(commit'[k].by) = Target(commit[k].by)
<1>1. Inv /\ [Next]_vars => [Own]_vars
  <2> SUFFICES ASSUME Inv, [Next]_vars, ~WarnAmbiguousReporting
               PROVE  /\ \A d \in Deploys : deployment[d] = "success" /\ deployment'[d] = "inactive" =>
                            \E e \in Deploys : /\ deployment[e] # "success" /\ deployment'[e] = "success"
                                              /\ Target(e) = Target(d)
                      /\ \A k \in DOMAIN commit : commit[k] # NoStatus /\ commit'[k] # commit[k] =>
                            Target(commit'[k].by) = Target(commit[k].by)
    OBVIOUS
  <2>1. CASE UNCHANGED <<deployment, commit>>
    BY <2>1
  <2>2. ASSUME setup.enabled, NEW e \in Deploys, deployment[e] # "success",
               NEW state \in DeploymentStates, DeploymentStatus(e, state)
        PROVE  \A d \in Deploys : deployment[d] = "success" /\ deployment'[d] = "inactive" =>
                   deployment'[e] = "success" /\ Target(e) = Target(d)
    <3> SUFFICES ASSUME NEW d \in Deploys, deployment[d] = "success", deployment'[d] = "inactive"
                 PROVE  deployment'[e] = "success" /\ Target(e) = Target(d)
      OBVIOUS
    <3>1. d # e /\ state = "success" /\ Environment(d) = Environment(e)
      BY <2>2 DEF DeploymentStatus
    <3>2. deployment'[e] = "success"
      BY <2>2, <3>1 DEF DeploymentStatus
    <3> QED
      BY <2>2, <3>1, <3>2, EnvironmentsApart
  <2>3. ASSUME setup.enabled, NEW e \in Deploys,
               NEW state \in {"pending", "success", "failure"}, CommitStatus(e, state)
        PROVE  \A k \in DOMAIN commit : commit[k] # NoStatus /\ commit'[k] # commit[k] =>
                   Target(commit'[k].by) = Target(commit[k].by)
    <3> SUFFICES ASSUME NEW k \in Shas \X Environments, commit[k] # NoStatus, commit'[k] # commit[k]
                 PROVE  Target(commit'[k].by) = Target(commit[k].by)
      BY DEF Inv, TypeOK
    <3>1. k = Context(e) /\ commit'[k].by = e
      <4>1. k = Context(e)
        BY <2>3, Names DEF CommitStatus, Inv, TypeOK
      <4>2. commit'[k].by = e
        BY <2>3, CommitStatusEffect DEF Inv
      <4> QED
        BY <4>1, <4>2
    <3>2. commit[k].by \in Deploys /\ Context(commit[k].by) = k
      BY DEF Inv, CommitsTrue
    <3>3. Environment(commit[k].by) = Environment(e)
      BY <3>1, <3>2 DEF Context
    <3> QED
      BY <2>3, <3>1, <3>2, <3>3, EnvironmentsApart
  <2>4. CASE \E e \in Deploys, state \in DeploymentStates :
                 setup.enabled /\ deployment[e] # "success" /\ DeploymentStatus(e, state)
    BY <2>2, <2>4 DEF DeploymentStatus
  <2>5. CASE \E e \in Deploys, state \in {"pending", "success", "failure"} :
                 setup.enabled /\ CommitStatus(e, state)
    BY <2>3, <2>5 DEF CommitStatus
  <2> QED
    BY <2>1, <2>4, <2>5, GitHubChanges
<1>2. OwnTargetOnly <=> [][Own]_vars
  BY DEF OwnTargetOnly
<1> QED
  BY <1>1, <1>2, ReportingInvariant, PTL DEF Spec
=============================================================================
