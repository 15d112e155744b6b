--------------------------- MODULE ComposeDeploy ---------------------------
(***************************************************************************)
(* What compose.Executor does to one project directory on one host over    *)
(* SSH: stage the bundle, carry the persist files over, validate, swap the *)
(* directories, bring the containers up, verify; and the teardown of the   *)
(* project.  The runner's project lock makes it one operation at a time.   *)
(*                                                                         *)
(* Every remote command may fail, be cut off by the deploy timeout, or be  *)
(* the last thing the daemon did before it died, after any part of its     *)
(* effect.  The host keeps whatever it left behind.                        *)
(***************************************************************************)
EXTENDS Integers, FiniteSets

CONSTANTS
    Files,         \* file names that occur in the project directory
    ComposeFiles,  \* project.compose_files
    PersistFiles,  \* project.persist_files
    MaxCommit,     \* bound: commits to deploy
    BundleOf,      \* BundleOf[c]: files in the bundle of commit c
    ValidCommits,  \* commits whose compose files `docker compose config` accepts
    Versions,      \* bound: 1..Versions tell the edits of a persist file apart
    MaxFaults      \* bound: failed or interrupted commands

Commits == 1..MaxCommit

ASSUME ComposeAssumption ==
    /\ MaxCommit \in Nat \ {0} /\ Versions \in Nat /\ MaxFaults \in Nat
    /\ IsFiniteSet(Files) /\ PersistFiles \subseteq Files
    /\ ComposeFiles # {}  \* or Deploy returns an error at once
    /\ BundleOf \in [Commits -> {b \in SUBSET Files : ComposeFiles \subseteq b}]
    /\ ValidCommits \subseteq Commits

\* What a file holds: nothing (0), what commit c ships (c), version v of the
\* operator (MaxCommit + v), or a write that was cut short.
Torn == -1
Edited == {MaxCommit + v : v \in 1..Versions}
Contents == {Torn, 0} \cup Commits \cup Edited

\* A directory exists exactly when it has a file: no bundle is empty.
NoDir == [f \in Files |-> 0]
Present(dir) == dir # NoDir

VARIABLES
    live, staging, old,  \* <remoteDir>, <remoteDir>.staging, <remoteDir>.old
    containers,          \* commit the containers run, 0 none, Torn a mixture
    pc,                  \* the command the operation is at, "idle" between two
    commit,              \* commit being deployed, or deployed last
    left,                \* files still to upload, then to carry over
    result,              \* how the last operation ended
    edited,              \* the operator's latest version of each persist file, 0 when
                         \* a commit or a teardown has replaced it since
    faults

dirs == <<live, staging, old>>
vars == <<dirs, containers, pc, commit, left, result, edited, faults>>

Init ==
    /\ live = NoDir /\ staging = NoDir /\ old = NoDir
    /\ containers = 0
    /\ pc = "idle" /\ commit = 0 /\ left = {} /\ result = "none"
    /\ edited = [f \in PersistFiles |-> 0] /\ faults = 0

\* The contents a directory may have after `rm -rf` stopped half way.
PartlyRemoved(dir) == {[f \in Files |-> IF f \in gone THEN 0 ELSE dir[f]] : gone \in SUBSET Files}

Fault == faults < MaxFaults /\ faults' = faults + 1

\* What a failed mkdir, upload or cp leaves in the staging directory.
Interrupted ==
    {staging} \cup {[staging EXCEPT ![f] = Torn] :
        f \in {g \in left : pc = "upload" \/ (staging[g] = 0 /\ live[g] # 0)}}

\* The host after the command at pc stopped somewhere: its file half written,
\* its directory half removed, some of its containers replaced or stopped.
Halfway ==
    /\ staging' \in IF pc = "clean" THEN PartlyRemoved(staging) ELSE Interrupted
    /\ old' \in IF pc \in {"swap1", "cleanold"} THEN PartlyRemoved(old) ELSE {old}
    /\ live' \in IF pc = "remove" THEN PartlyRemoved(live) ELSE {live}
    /\ containers' \in CASE pc = "up" -> {containers, commit, Torn}
                         [] pc = "down" /\ containers # 0 -> {containers, 0, Torn}
                         [] OTHER -> {containers}
    /\ edited' = IF pc = "remove" THEN [f \in PersistFiles |-> 0] ELSE edited
    /\ UNCHANGED commit

\* The operation ends; Deploy and teardown report to their caller.
Return(res) == pc' = "idle" /\ result' = res /\ left' = {}

Step(from, to) == pc = from /\ pc' = to /\ UNCHANGED <<commit, result, edited, faults>>

-----------------------------------------------------------------------------
(* Mutations: bugs this code could plausibly have.                         *)

\* Preflight ignores the exit code of `docker compose config`.
PreflightLenient == Step("preflight", "swap1") /\ UNCHANGED <<dirs, containers, left>>

\* A failed upload is logged, not returned.
UploadLenient ==
    /\ left # {}
    /\ Step("upload", "upload")
    /\ \E f \in left : /\ left' = left \ {f}
                       /\ \E x \in {commit, Torn} : staging' = [staging EXCEPT ![f] = x]
    /\ UNCHANGED <<live, old, containers>>

\* The swap demands that there is a live directory to move away.
SwapMoveLiveStrict ==
    /\ Present(live)
    /\ Step("swap2", "swap3")
    /\ old' = live /\ live' = NoDir
    /\ UNCHANGED <<staging, containers, left>>

-----------------------------------------------------------------------------
(* Executor.Deploy, one action per remote command.                         *)

\* bundle.Validate, ComposeFiles not empty; then the first command.
Deploy(c) ==
    /\ pc = "idle"
    /\ pc' = "clean" /\ commit' = c /\ left' = BundleOf[c] /\ result' = "none"
    /\ UNCHANGED <<dirs, containers, edited, faults>>

\* cleanup is best-effort: its error is logged and forgotten.
CleanStaging ==
    /\ pc = "clean" /\ pc' = "upload"
    /\ \/ staging' = NoDir /\ UNCHANGED faults
       \/ Fault /\ staging' \in PartlyRemoved(staging)
    /\ UNCHANGED <<live, old, containers, commit, left, result, edited>>

\* mkdir -p and Upload of one file.
Upload ==
    /\ left # {}
    /\ Step("upload", "upload")
    /\ \E f \in left : /\ left' = left \ {f}
                       /\ staging' = [staging EXCEPT ![f] = commit]
    /\ UNCHANGED <<live, old, containers>>

UploadDone ==
    /\ left = {}
    /\ Step("upload", "persist")
    /\ left' = PersistFiles
    /\ UNCHANGED <<dirs, containers>>

\* if [ -f live/name ] && [ ! -e staging/name ]; then cp; fi
CopyPersist ==
    /\ left # {}
    /\ Step("persist", "persist")
    /\ \E f \in left : /\ left' = left \ {f}
                       /\ staging' = IF live[f] # 0 /\ staging[f] = 0
                                     THEN [staging EXCEPT ![f] = live[f]] ELSE staging
    /\ UNCHANGED <<live, old, containers>>

CopyDone ==
    /\ left = {}
    /\ Step("persist", "preflight")
    /\ UNCHANGED <<dirs, containers, left>>

Preflight ==
    /\ commit \in ValidCommits
    /\ Step("preflight", "swap1")
    /\ UNCHANGED <<dirs, containers, left>>

\* A failure while staging: the staging directory is cleaned up, if possible,
\* and the error returned.  An invalid commit fails without any fault.
StagingFails ==
    /\ pc \in {"upload", "persist", "preflight"}
    /\ \/ /\ pc = "preflight" /\ commit \notin ValidCommits
          /\ staging' = NoDir
          /\ UNCHANGED faults
       \/ /\ Fault
          /\ \E dir \in Interrupted : staging' \in PartlyRemoved(dir)
    /\ Return("failed")
    /\ UNCHANGED <<live, old, containers, commit, edited>>

\* rm -rf old && ( [ ! -d live ] || mv live old ) && mv staging live
SwapRemoveOld ==
    /\ Step("swap1", "swap2")
    /\ old' = NoDir
    /\ UNCHANGED <<live, staging, containers, left>>

SwapMoveLive ==
    /\ Step("swap2", "swap3")
    /\ old' = live /\ live' = NoDir
    /\ UNCHANGED <<staging, containers, left>>

SwapMoveStaging ==
    /\ pc = "swap3" /\ pc' = "cleanold"
    /\ live' = staging /\ staging' = NoDir
    /\ edited' = [f \in PersistFiles |-> IF f \in BundleOf[commit] THEN 0 ELSE edited[f]]
    /\ UNCHANGED <<old, containers, commit, left, result, faults>>

\* The swap command stops before, between or after its three parts; nothing
\* is cleaned up.
SwapFails ==
    /\ pc \in {"swap1", "swap2", "swap3", "cleanold"}
    /\ Halfway /\ Fault
    /\ Return("failed")

CleanOld ==
    /\ pc = "cleanold" /\ pc' = "up"
    /\ \/ old' = NoDir /\ UNCHANGED faults
       \/ Fault /\ old' \in PartlyRemoved(old)
    /\ UNCHANGED <<live, staging, containers, commit, left, result, edited>>

ComposeUp ==
    /\ Step("up", "verify")
    /\ containers' = commit
    /\ UNCHANGED <<dirs, left>>

ComposeUpFails ==
    /\ pc = "up"
    /\ Halfway /\ Fault
    /\ Return("failed")

\* docker compose ps: the command fails or a service is not running, or all is well.
Ps ==
    /\ pc = "verify"
    /\ \/ Return("success") /\ UNCHANGED faults
       \/ Return("failed") /\ Fault
    /\ UNCHANGED <<dirs, containers, commit, edited>>

-----------------------------------------------------------------------------
(* teardown: docker compose down in the live directory, then remove it.    *)

Teardown ==
    /\ pc = "idle" /\ commit # 0
    /\ pc' = "down" /\ result' = "none"
    /\ UNCHANGED <<dirs, containers, commit, left, edited, faults>>

\* `cd live` needs the directory, `-f` the compose files in it.
CanCompose == \A f \in ComposeFiles : live[f] \in Commits

Down ==
    /\ CanCompose
    /\ Step("down", "remove")
    /\ containers' = 0
    /\ UNCHANGED <<dirs, left>>

DownFails ==
    /\ pc = "down"
    /\ \/ ~CanCompose /\ UNCHANGED <<dirs, containers, commit, edited, faults>>
       \/ Halfway /\ Fault
    /\ Return("failed")

RemoveDir ==
    /\ pc = "remove"
    /\ Halfway
    /\ \/ ~Present(live') /\ Return("removed") /\ UNCHANGED faults
       \/ Return("failed") /\ Fault

-----------------------------------------------------------------------------
(* The daemon dies, the operator edits a host-managed file.                *)

Crash ==
    /\ pc # "idle"
    /\ Halfway /\ Fault
    /\ Return("crashed")

OperatorEdit ==
    /\ pc = "idle" /\ Present(live)
    /\ \E f \in PersistFiles, x \in Edited :
          /\ live[f] \notin Commits \cup {x}
          /\ live' = [live EXCEPT ![f] = x]
          /\ edited' = [edited EXCEPT ![f] = x]
    /\ result' = "none"
    /\ UNCHANGED <<staging, old, containers, pc, commit, left, faults>>

-----------------------------------------------------------------------------
Running ==
    \/ CleanStaging \/ Upload \/ UploadDone \/ CopyPersist \/ CopyDone
    \/ Preflight \/ StagingFails \/ SwapRemoveOld \/ SwapMoveLive
    \/ SwapMoveStaging \/ SwapFails \/ CleanOld \/ ComposeUp \/ ComposeUpFails
    \/ Ps \/ Down \/ DownFails \/ RemoveDir

Next == Running \/ (\E c \in Commits : Deploy(c)) \/ Teardown \/ Crash \/ OperatorEdit

Spec == Init /\ [][Next]_vars

\* Every remote command returns or is cut off by the deploy timeout. Nobody
\* has to start an operation.
LiveSpec == Spec /\ WF_vars(Running)

-----------------------------------------------------------------------------
(* Properties.                                                             *)

\* Directories, containers and the operation under way stay in their types;
\* an operation ends with a result the runner can report.
TypeOK ==
    /\ {live, staging, old} \subseteq [Files -> Contents]
    /\ containers \in {Torn} \cup 0..MaxCommit
    /\ pc \in {"idle", "clean", "upload", "persist", "preflight", "swap1", "swap2",
               "swap3", "cleanold", "up", "verify", "down", "remove"}
    /\ commit \in 0..MaxCommit /\ left \subseteq Files
    /\ result \in {"none", "success", "failed", "removed", "crashed"}
    /\ edited \in [PersistFiles -> {0} \cup Edited] /\ faults \in 0..MaxFaults

Holds(dir, c) == \A f \in BundleOf[c] : dir[f] = c

\* Whatever was interrupted before, containers only ever come up from, and
\* run beside, a live directory that holds the complete bundle of a commit
\* that passed preflight: no torn upload, no mixture of commits, no bundle
\* compose rejects (Deploy: "staging is cleaned up, the live directory is
\* untouched").
LiveIsDeployable ==
    Present(live) /\ (containers # 0 \/ pc = "up") =>
        \E c \in ValidCommits : Holds(live, c)

\* A deploy that reports success has the commit's containers running on top
\* of the commit's files, until the next operation begins.
SuccessIsReal ==
    result = "success" => containers = commit /\ Holds(live, commit)

\* No debris of failed, timed-out or crashed operations keeps a later deploy
\* from going through: without further faults it reports success.
DeployRecovers ==
    \A c \in ValidCommits :
        (pc = "clean" /\ commit = c /\ faults = MaxFaults) ~> result = "success"

\* persist_files: "Host-managed files to carry across deploys": after a
\* successful deploy the live directory has the operator's latest version,
\* unless a commit that ships the file or a teardown replaced it.
PersistCarried ==
    result = "success" =>
        \A f \in PersistFiles : edited[f] # 0 => live[f] = edited[f]
=============================================================================
