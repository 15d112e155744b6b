------------------------ MODULE ComposeDeployProofs ------------------------
(***************************************************************************)
(* Containers never come up from a broken directory, and a reported        *)
(* success is real, for any bundles, persist files and sequence of         *)
(* operations, faults and crashes.  Inv is inductive: it adds to the two   *)
(* promises what the staging and the live directory hold at each command.  *)
(***************************************************************************)
EXTENDS ComposeDeploy, TLAPS

Deploying == {"clean", "upload", "persist", "preflight", "swap1", "swap2", "swap3", "cleanold", "up", "verify"}

\* A deploy has a commit; it has passed preflight when the directories are swapped.
CommitChosen ==
    /\ pc \in Deploying => commit \in Commits
    /\ pc \in {"swap1", "swap2", "swap3", "cleanold", "up", "verify"} => commit \in ValidCommits

\* The staging directory has what was uploaded, and all of it from then on.
StagingHolds ==
    /\ pc = "clean" => left = BundleOf[commit]
    /\ pc = "upload" => \A f \in BundleOf[commit] \ left : staging[f] = commit
    /\ pc \in {"persist", "preflight", "swap1", "swap2", "swap3"} => Holds(staging, commit)

\* The live directory has the bundle after the swap.
LiveHolds == pc \in {"cleanold", "up", "verify"} => Holds(live, commit)

\* The containers are stopped before their directory is removed, and are
\* the commit's when they are verified.
ContainersFollow ==
    /\ pc = "remove" => containers = 0
    /\ pc = "verify" => containers = commit

NoResultYet == pc # "idle" => result = "none"

Inv ==
    /\ TypeOK /\ CommitChosen /\ StagingHolds /\ LiveHolds /\ ContainersFollow /\ NoResultYet
    /\ LiveIsDeployable /\ SuccessIsReal

-----------------------------------------------------------------------------
(* Lemmas about the helpers.                                               *)

LEMMA ContentFacts ==
    /\ Commits \subseteq Contents /\ 0 \in Contents /\ Torn \in Contents /\ Edited \subseteq Contents
    /\ 0 \notin Commits /\ Torn \notin Commits
    /\ Commits \subseteq 0..MaxCommit /\ ValidCommits \subseteq Commits
    /\ \A x \in Edited : x \notin Commits /\ x # 0
BY ComposeAssumption DEF Contents, Commits, Torn, Edited

LEMMA BundleFacts ==
    ASSUME NEW c \in Commits
    PROVE  BundleOf[c] \subseteq Files /\ BundleOf[c] # {}
BY ComposeAssumption

LEMMA NoDirType == NoDir \in [Files -> Contents]
BY ContentFacts DEF NoDir

LEMMA DirTypes ==
    ASSUME TypeOK
    PROVE  /\ live \in [Files -> Contents] /\ staging \in [Files -> Contents]
           /\ old \in [Files -> Contents]
BY DEF TypeOK

LEMMA PartlyRemovedType ==
    ASSUME NEW dir \in [Files -> Contents], NEW rest \in PartlyRemoved(dir)
    PROVE  rest \in [Files -> Contents]
<1>1. PICK gone \in SUBSET Files : rest = [f \in Files |-> IF f \in gone THEN 0 ELSE dir[f]]
  BY DEF PartlyRemoved
<1> QED
  BY <1>1, ContentFacts

LEMMA InterruptedType ==
    ASSUME TypeOK, NEW dir \in Interrupted
    PROVE  dir \in [Files -> Contents]
<1>1. left \subseteq Files /\ staging \in [Files -> Contents]
  BY DirTypes DEF TypeOK
<1>2. CASE dir = staging
  BY <1>1, <1>2
<1>3. CASE dir # staging
  <2>1. PICK f \in left : dir = [staging EXCEPT ![f] = Torn]
    BY <1>3 DEF Interrupted
  <2> QED
    BY <1>1, <2>1, ContentFacts
<1> QED
  BY <1>2, <1>3

LEMMA FaultType ==
    ASSUME TypeOK, Fault \/ UNCHANGED faults
    PROVE  faults' \in 0..MaxFaults
BY ComposeAssumption DEF TypeOK, Fault

\* A command that stopped half way leaves the live directory alone, unless
\* it was removing it, and starts no containers, unless it was doing that.
LEMMA HalfwayEffect ==
    ASSUME TypeOK, CommitChosen, Halfway
    PROVE  /\ {live', staging', old'} \subseteq [Files -> Contents]
           /\ containers' \in {Torn} \cup 0..MaxCommit
           /\ commit' = commit
           /\ edited' \in [PersistFiles -> {0} \cup Edited]
           /\ pc # "remove" => live' = live
           /\ pc # "up" /\ containers = 0 => containers' = 0
<1> USE DirTypes
<1>1. staging' \in [Files -> Contents]
  <2>1. CASE pc = "clean"
    BY <2>1, PartlyRemovedType DEF Halfway
  <2>2. CASE pc # "clean"
    BY <2>2, InterruptedType DEF Halfway
  <2> QED
    BY <2>1, <2>2
<1>2. old' \in [Files -> Contents]
  <2>1. CASE pc \in {"swap1", "cleanold"}
    BY <2>1, PartlyRemovedType DEF Halfway
  <2>2. CASE pc \notin {"swap1", "cleanold"}
    BY <2>2 DEF Halfway
  <2> QED
    BY <2>1, <2>2
<1>3. live' \in [Files -> Contents] /\ (pc # "remove" => live' = live)
  <2>1. CASE pc = "remove"
    BY <2>1, PartlyRemovedType DEF Halfway
  <2>2. CASE pc # "remove"
    BY <2>2 DEF Halfway
  <2> QED
    BY <2>1, <2>2
<1>4. /\ containers' \in {Torn} \cup 0..MaxCommit
      /\ pc # "up" /\ containers = 0 => containers' = 0
  <2>0. containers \in {Torn} \cup 0..MaxCommit /\ 0 \in 0..MaxCommit
    BY ComposeAssumption DEF TypeOK
  <2>1. CASE pc = "up"
    <3>1. commit \in 0..MaxCommit
      BY DEF TypeOK
    <3>2. containers' \in {containers, commit, Torn}
      BY <2>1 DEF Halfway
    <3> QED
      BY <2>0, <2>1, <3>1, <3>2
  <2>2. CASE pc = "down" /\ containers # 0
    <3>1. containers' \in {containers, 0, Torn}
      BY <2>2 DEF Halfway
    <3> QED
      BY <2>0, <2>2, <3>1
  <2>3. CASE pc # "up" /\ ~(pc = "down" /\ containers # 0)
    <3>1. containers' = containers
      BY <2>3 DEF Halfway
    <3> QED
      BY <2>0, <3>1
  <2> QED
    BY <2>1, <2>2, <2>3
<1>5. commit' = commit
  BY DEF Halfway
<1>6. edited' \in [PersistFiles -> {0} \cup Edited]
  <2>1. CASE pc = "remove"
    <3>1. edited' = [f \in PersistFiles |-> 0]
      BY <2>1 DEF Halfway
    <3> QED
      BY <3>1
  <2>2. CASE pc # "remove"
    BY <2>2 DEF Halfway, TypeOK
  <2> QED
    BY <2>1, <2>2
<1> QED
  BY <1>1, <1>2, <1>3, <1>4, <1>5, <1>6

-----------------------------------------------------------------------------
(* The invariant is preserved.                                             *)

LEMMA InitInv == Init => Inv
<1> SUFFICES ASSUME Init PROVE Inv
  OBVIOUS
<1>1. TypeOK
  BY NoDirType, ComposeAssumption DEF Init, TypeOK
<1> QED
  BY <1>1 DEF Init, Inv, CommitChosen, StagingHolds, LiveHolds, ContainersFollow, NoResultYet,
     LiveIsDeployable, SuccessIsReal, Deploying, Present

\* An operation that ends without success leaves containers only beside a
\* live directory that was there before.
LEMMA ReturnPreserves ==
    ASSUME Inv, Halfway, pc # "idle", Fault \/ UNCHANGED faults,
           NEW res \in {"failed", "crashed", "removed"}, Return(res)
    PROVE  Inv'
<1> USE DEF Inv
<1>1. /\ {live', staging', old'} \subseteq [Files -> Contents]
      /\ containers' \in {Torn} \cup 0..MaxCommit
      /\ commit' = commit
      /\ edited' \in [PersistFiles -> {0} \cup Edited]
      /\ pc # "remove" => live' = live
      /\ pc # "up" /\ containers = 0 => containers' = 0
  BY HalfwayEffect
<1>2. pc' = "idle" /\ result' = res /\ left' = {}
  BY DEF Return
<1>3. TypeOK'
  <2>1. faults' \in 0..MaxFaults
    BY FaultType
  <2>2. commit' \in 0..MaxCommit
    BY <1>1 DEF TypeOK
  <2> QED
    BY <1>1, <1>2, <2>1, <2>2 DEF TypeOK
<1>4. LiveIsDeployable'
  <2>1. CASE pc = "remove"
    BY <2>1, <1>1, <1>2 DEF LiveIsDeployable, ContainersFollow
  <2>2. CASE pc # "remove"
    BY <2>2, <1>1, <1>2 DEF LiveIsDeployable, Present, Holds
  <2> QED
    BY <2>1, <2>2
<1>5. (CommitChosen /\ StagingHolds /\ LiveHolds /\ ContainersFollow /\ NoResultYet)'
  BY <1>2 DEF CommitChosen, StagingHolds, LiveHolds, ContainersFollow, NoResultYet, Deploying
<1>6. SuccessIsReal'
  BY <1>2 DEF SuccessIsReal
<1> QED
  BY <1>3, <1>4, <1>5, <1>6

\* While a command of a deploy stages the bundle, what is live does not change.
LEMMA StagingStep ==
    ASSUME Inv, pc \in {"clean", "upload", "persist", "preflight"},
           pc' \in {"upload", "persist", "preflight", "swap1"},
           UNCHANGED <<live, old, containers, commit, result, edited>>,
           staging' \in [Files -> Contents], left' \subseteq Files,
           Fault \/ UNCHANGED faults,
           StagingHolds', pc' = "swap1" => commit \in ValidCommits
    PROVE  Inv'
<1> USE DEF Inv
<1>1. result = "none"
  BY DEF NoResultYet
<1>2. TypeOK'
  <2>1. faults' \in 0..MaxFaults
    BY FaultType
  <2> QED
    BY <2>1, DirTypes DEF TypeOK
<1>3. CommitChosen'
  BY DEF CommitChosen, Deploying
<1>4. (LiveHolds /\ ContainersFollow /\ NoResultYet)'
  BY <1>1 DEF LiveHolds, ContainersFollow, NoResultYet
<1>5. LiveIsDeployable'
  BY DEF LiveIsDeployable, Present, Holds
<1>6. SuccessIsReal'
  BY <1>1 DEF SuccessIsReal
<1> QED
  BY <1>2, <1>3, <1>4, <1>5, <1>6

LEMMA CleanStagingInv == ASSUME Inv, CleanStaging PROVE Inv'
<1> USE DEF Inv
<1>1. staging' \in [Files -> Contents]
  BY DirTypes, NoDirType, PartlyRemovedType DEF CleanStaging
<1>2. left' = left /\ commit' = commit /\ pc = "clean" /\ pc' = "upload"
  BY DEF CleanStaging
<1>3. StagingHolds'
  BY <1>2 DEF StagingHolds
<1>4. left' \subseteq Files
  BY <1>2 DEF TypeOK
<1> QED
  BY <1>1, <1>2, <1>3, <1>4, StagingStep DEF CleanStaging

LEMMA UploadInv == ASSUME Inv, Upload PROVE Inv'
<1> USE DEF Inv
<1>1. PICK f \in left : left' = left \ {f} /\ staging' = [staging EXCEPT ![f] = commit]
  BY DEF Upload
<1>2. pc = "upload" /\ pc' = "upload" /\ commit' = commit
  BY DEF Upload, Step
<1>3. commit \in Commits /\ left \subseteq Files /\ staging \in [Files -> Contents]
  BY <1>2, DirTypes DEF CommitChosen, Deploying, TypeOK
<1>4. staging' \in [Files -> Contents] /\ left' \subseteq Files
  BY <1>1, <1>3, ContentFacts
<1>5. StagingHolds'
  <2>1. ASSUME NEW g \in BundleOf[commit], g \notin left' PROVE staging'[g] = commit
    <3>1. g \in Files
      BY <1>3, BundleFacts
    <3>2. CASE g = f
      BY <1>1, <1>3, <3>1, <3>2
    <3>3. CASE g # f
      <4>1. g \notin left
        BY <1>1, <2>1, <3>3
      <4>2. staging[g] = commit
        BY <1>2, <4>1 DEF StagingHolds
      <4> QED
        BY <1>1, <1>3, <3>1, <3>3, <4>2
    <3> QED
      BY <3>2, <3>3
  <2> QED
    BY <2>1, <1>2 DEF StagingHolds
<1> QED
  BY <1>2, <1>4, <1>5, StagingStep DEF Upload, Step

LEMMA UploadDoneInv == ASSUME Inv, UploadDone PROVE Inv'
<1> USE DEF Inv
<1>1. /\ pc = "upload" /\ pc' = "persist" /\ left = {} /\ left' = PersistFiles
      /\ UNCHANGED <<live, staging, old, containers, commit, result, edited, faults>>
  BY DEF UploadDone, Step, dirs
<1>2. StagingHolds'
  BY <1>1 DEF StagingHolds, Holds
<1>3. staging' \in [Files -> Contents] /\ left' \subseteq Files
  BY <1>1, DirTypes, ComposeAssumption
<1> QED
  BY <1>1, <1>2, <1>3, StagingStep

\* What is carried over never replaces a file of the bundle.
LEMMA CopyPersistInv == ASSUME Inv, CopyPersist PROVE Inv'
<1> USE DEF Inv
<1>1. PICK f \in left :
        /\ left' = left \ {f}
        /\ staging' = IF live[f] # 0 /\ staging[f] = 0 THEN [staging EXCEPT ![f] = live[f]] ELSE staging
  BY DEF CopyPersist
<1>2. pc = "persist" /\ pc' = "persist" /\ commit' = commit
  BY DEF CopyPersist, Step
<1>3. /\ commit \in Commits /\ left \subseteq Files
      /\ staging \in [Files -> Contents] /\ live \in [Files -> Contents]
  BY <1>2, DirTypes DEF CommitChosen, Deploying, TypeOK
<1>4. staging' \in [Files -> Contents] /\ left' \subseteq Files
  BY <1>1, <1>3
<1>5. StagingHolds'
  <2>1. ASSUME NEW g \in BundleOf[commit] PROVE staging'[g] = commit
    <3>1. g \in Files /\ commit # 0
      BY <1>3, BundleFacts, ContentFacts
    <3>2. staging[g] = commit
      BY <1>2 DEF StagingHolds, Holds
    <3> QED
      BY <1>1, <1>3, <3>1, <3>2
  <2> QED
    BY <2>1, <1>2 DEF StagingHolds, Holds
<1> QED
  BY <1>2, <1>4, <1>5, StagingStep DEF CopyPersist, Step

LEMMA CopyDoneInv == ASSUME Inv, CopyDone PROVE Inv'
<1> USE DEF Inv
<1>1. /\ pc = "persist" /\ pc' = "preflight"
      /\ UNCHANGED <<live, staging, old, containers, commit, left, result, edited, faults>>
  BY DEF CopyDone, Step, dirs
<1>2. StagingHolds'
  BY <1>1 DEF StagingHolds, Holds
<1>3. staging' \in [Files -> Contents] /\ left' \subseteq Files
  BY <1>1, DirTypes DEF TypeOK
<1> QED
  BY <1>1, <1>2, <1>3, StagingStep

LEMMA PreflightInv == ASSUME Inv, Preflight PROVE Inv'
<1> USE DEF Inv
<1>1. /\ pc = "preflight" /\ pc' = "swap1" /\ commit \in ValidCommits
      /\ UNCHANGED <<live, staging, old, containers, commit, left, result, edited, faults>>
  BY DEF Preflight, Step, dirs
<1>2. StagingHolds'
  BY <1>1 DEF StagingHolds, Holds
<1>3. staging' \in [Files -> Contents] /\ left' \subseteq Files
  BY <1>1, DirTypes DEF TypeOK
<1> QED
  BY <1>1, <1>2, <1>3, StagingStep

LEMMA StagingFailsInv == ASSUME Inv, StagingFails PROVE Inv'
<1> USE DEF Inv
<1>1. /\ pc' = "idle" /\ result' = "failed" /\ left' = {}
      /\ UNCHANGED <<live, old, containers, commit, edited>>
  BY DEF StagingFails, Return
<1>2. staging' \in [Files -> Contents] /\ faults' \in 0..MaxFaults
  BY NoDirType, InterruptedType, PartlyRemovedType, FaultType DEF StagingFails
<1>3. TypeOK'
  BY <1>1, <1>2, DirTypes DEF TypeOK
<1>4. (CommitChosen /\ StagingHolds /\ LiveHolds /\ ContainersFollow /\ NoResultYet)'
  BY <1>1 DEF CommitChosen, StagingHolds, LiveHolds, ContainersFollow, NoResultYet, Deploying
<1>5. LiveIsDeployable' /\ SuccessIsReal'
  BY <1>1 DEF LiveIsDeployable, SuccessIsReal, Present, Holds
<1> QED
  BY <1>3, <1>4, <1>5

LEMMA SwapRemoveOldInv == ASSUME Inv, SwapRemoveOld PROVE Inv'
<1> USE DEF Inv
<1>1. /\ pc = "swap1" /\ pc' = "swap2" /\ old' = NoDir
      /\ UNCHANGED <<live, staging, containers, commit, left, result, edited, faults>>
  BY DEF SwapRemoveOld, Step
<1>2. TypeOK'
  BY <1>1, DirTypes, NoDirType DEF TypeOK
<1>3. (CommitChosen /\ StagingHolds /\ LiveHolds /\ ContainersFollow /\ NoResultYet)'
  BY <1>1 DEF CommitChosen, StagingHolds, LiveHolds, ContainersFollow, NoResultYet, Deploying, Holds
<1>4. LiveIsDeployable' /\ SuccessIsReal'
  BY <1>1 DEF LiveIsDeployable, SuccessIsReal, NoResultYet, Present, Holds
<1> QED
  BY <1>2, <1>3, <1>4

LEMMA SwapMoveLiveInv == ASSUME Inv, SwapMoveLive PROVE Inv'
<1> USE DEF Inv
<1>1. /\ pc = "swap2" /\ pc' = "swap3" /\ old' = live /\ live' = NoDir
      /\ UNCHANGED <<staging, containers, commit, left, result, edited, faults>>
  BY DEF SwapMoveLive, Step
<1>2. TypeOK'
  BY <1>1, DirTypes, NoDirType DEF TypeOK
<1>3. (CommitChosen /\ StagingHolds /\ LiveHolds /\ ContainersFollow /\ NoResultYet)'
  BY <1>1 DEF CommitChosen, StagingHolds, LiveHolds, ContainersFollow, NoResultYet, Deploying, Holds
<1>4. LiveIsDeployable' /\ SuccessIsReal'
  BY <1>1 DEF LiveIsDeployable, SuccessIsReal, NoResultYet, Present
<1> QED
  BY <1>2, <1>3, <1>4

LEMMA SwapMoveStagingInv == ASSUME Inv, SwapMoveStaging PROVE Inv'
<1> USE DEF Inv
<1>1. /\ pc = "swap3" /\ pc' = "cleanold" /\ live' = staging /\ staging' = NoDir
      /\ UNCHANGED <<old, containers, commit, left, result, faults>>
      /\ edited' = [f \in PersistFiles |-> IF f \in BundleOf[commit] THEN 0 ELSE edited[f]]
  BY DEF SwapMoveStaging
<1>2. TypeOK'
  <2>1. edited' \in [PersistFiles -> {0} \cup Edited]
    BY <1>1 DEF TypeOK
  <2> QED
    BY <1>1, <2>1, DirTypes, NoDirType DEF TypeOK
<1>3. Holds(staging, commit) /\ commit \in ValidCommits
  BY <1>1 DEF StagingHolds, CommitChosen
<1>4. LiveHolds'
  BY <1>1, <1>3 DEF LiveHolds, Holds
<1>5. (CommitChosen /\ StagingHolds /\ ContainersFollow /\ NoResultYet)'
  BY <1>1 DEF CommitChosen, StagingHolds, ContainersFollow, NoResultYet, Deploying
<1>6. LiveIsDeployable' /\ SuccessIsReal'
  BY <1>1, <1>3 DEF LiveIsDeployable, SuccessIsReal, NoResultYet, Holds
<1> QED
  BY <1>2, <1>4, <1>5, <1>6

LEMMA CleanOldInv == ASSUME Inv, CleanOld PROVE Inv'
<1> USE DEF Inv
<1>1. /\ pc = "cleanold" /\ pc' = "up"
      /\ UNCHANGED <<live, staging, containers, commit, left, result, edited>>
  BY DEF CleanOld
<1>2. old' \in [Files -> Contents] /\ faults' \in 0..MaxFaults
  BY NoDirType, PartlyRemovedType, DirTypes, FaultType DEF CleanOld
<1>3. TypeOK'
  BY <1>1, <1>2, DirTypes DEF TypeOK
<1>4. (CommitChosen /\ StagingHolds /\ LiveHolds /\ ContainersFollow /\ NoResultYet)'
  BY <1>1 DEF CommitChosen, StagingHolds, LiveHolds, ContainersFollow, NoResultYet, Deploying, Holds
<1>5. LiveIsDeployable' /\ SuccessIsReal'
  BY <1>1 DEF LiveIsDeployable, SuccessIsReal, NoResultYet, LiveHolds, CommitChosen, Holds
<1> QED
  BY <1>3, <1>4, <1>5

LEMMA ComposeUpInv == ASSUME Inv, ComposeUp PROVE Inv'
<1> USE DEF Inv
<1>1. /\ pc = "up" /\ pc' = "verify" /\ containers' = commit
      /\ UNCHANGED <<live, staging, old, commit, left, result, edited, faults>>
  BY DEF ComposeUp, Step, dirs
<1>2. TypeOK'
  BY <1>1, DirTypes DEF TypeOK
<1>3. (CommitChosen /\ StagingHolds /\ LiveHolds /\ ContainersFollow /\ NoResultYet)'
  BY <1>1 DEF CommitChosen, StagingHolds, LiveHolds, ContainersFollow, NoResultYet, Deploying, Holds
<1>4. LiveIsDeployable' /\ SuccessIsReal'
  BY <1>1 DEF LiveIsDeployable, SuccessIsReal, NoResultYet, LiveHolds, CommitChosen, Holds
<1> QED
  BY <1>2, <1>3, <1>4

LEMMA PsInv == ASSUME Inv, Ps PROVE Inv'
<1> USE DEF Inv
<1>1. /\ pc = "verify" /\ pc' = "idle" /\ result' \in {"success", "failed"} /\ left' = {}
      /\ UNCHANGED <<live, staging, old, containers, commit, edited>>
  BY DEF Ps, Return, dirs
<1>2. TypeOK'
  <2>1. faults' \in 0..MaxFaults
    BY FaultType DEF Ps
  <2> QED
    BY <1>1, <2>1, DirTypes DEF TypeOK
<1>3. (CommitChosen /\ StagingHolds /\ LiveHolds /\ ContainersFollow /\ NoResultYet)'
  BY <1>1 DEF CommitChosen, StagingHolds, LiveHolds, ContainersFollow, NoResultYet, Deploying
<1>4. LiveIsDeployable' /\ SuccessIsReal'
  BY <1>1 DEF LiveIsDeployable, SuccessIsReal, LiveHolds, CommitChosen, ContainersFollow, Present, Holds
<1> QED
  BY <1>2, <1>3, <1>4

LEMMA DownInv == ASSUME Inv, Down PROVE Inv'
<1> USE DEF Inv
<1>1. /\ pc = "down" /\ pc' = "remove" /\ containers' = 0
      /\ UNCHANGED <<live, staging, old, commit, left, result, edited, faults>>
  BY DEF Down, Step, dirs
<1>2. TypeOK'
  BY <1>1, DirTypes, ComposeAssumption DEF TypeOK
<1>3. (CommitChosen /\ StagingHolds /\ LiveHolds /\ ContainersFollow /\ NoResultYet)'
  BY <1>1 DEF CommitChosen, StagingHolds, LiveHolds, ContainersFollow, NoResultYet, Deploying
<1>4. LiveIsDeployable' /\ SuccessIsReal'
  BY <1>1 DEF LiveIsDeployable, SuccessIsReal, NoResultYet
<1> QED
  BY <1>2, <1>3, <1>4

LEMMA DownFailsInv == ASSUME Inv, DownFails PROVE Inv'
<1> USE DEF Inv
<1>1. CASE Halfway /\ Fault
  BY <1>1, ReturnPreserves DEF DownFails
<1>2. CASE UNCHANGED <<dirs, containers, commit, edited, faults>>
  <2>1. /\ pc = "down" /\ pc' = "idle" /\ result' = "failed" /\ left' = {}
        /\ UNCHANGED <<live, staging, old, containers, commit, edited, faults>>
    BY <1>2 DEF DownFails, Return, dirs
  <2>2. TypeOK'
    BY <2>1, DirTypes DEF TypeOK
  <2>3. (CommitChosen /\ StagingHolds /\ LiveHolds /\ ContainersFollow /\ NoResultYet)'
    BY <2>1 DEF CommitChosen, StagingHolds, LiveHolds, ContainersFollow, NoResultYet, Deploying
  <2>4. LiveIsDeployable' /\ SuccessIsReal'
    BY <2>1 DEF LiveIsDeployable, SuccessIsReal, Present, Holds
  <2> QED
    BY <2>2, <2>3, <2>4
<1> QED
  BY <1>1, <1>2 DEF DownFails

LEMMA RemoveDirInv == ASSUME Inv, RemoveDir PROVE Inv'
BY ReturnPreserves DEF RemoveDir

LEMMA DeployInv == ASSUME Inv, NEW c \in Commits, Deploy(c) PROVE Inv'
<1> USE DEF Inv
<1>1. /\ pc = "idle" /\ pc' = "clean" /\ commit' = c /\ left' = BundleOf[c] /\ result' = "none"
      /\ UNCHANGED <<live, staging, old, containers, edited, faults>>
  BY DEF Deploy, dirs
<1>2. TypeOK'
  <2>1. commit' \in 0..MaxCommit /\ left' \subseteq Files
    BY <1>1, ContentFacts, BundleFacts
  <2> QED
    BY <1>1, <2>1, DirTypes DEF TypeOK
<1>3. (CommitChosen /\ StagingHolds /\ LiveHolds /\ ContainersFollow /\ NoResultYet)'
  BY <1>1 DEF CommitChosen, StagingHolds, LiveHolds, ContainersFollow, NoResultYet, Deploying
<1>4. LiveIsDeployable' /\ SuccessIsReal'
  BY <1>1 DEF LiveIsDeployable, SuccessIsReal, Present, Holds
<1> QED
  BY <1>2, <1>3, <1>4

LEMMA TeardownInv == ASSUME Inv, Teardown PROVE Inv'
<1> USE DEF Inv
<1>1. /\ pc = "idle" /\ pc' = "down" /\ result' = "none"
      /\ UNCHANGED <<live, staging, old, containers, commit, left, edited, faults>>
  BY DEF Teardown, dirs
<1>2. TypeOK'
  BY <1>1, DirTypes DEF TypeOK
<1>3. (CommitChosen /\ StagingHolds /\ LiveHolds /\ ContainersFollow /\ NoResultYet)'
  BY <1>1 DEF CommitChosen, StagingHolds, LiveHolds, ContainersFollow, NoResultYet, Deploying
<1>4. LiveIsDeployable' /\ SuccessIsReal'
  BY <1>1 DEF LiveIsDeployable, SuccessIsReal, Present, Holds
<1> QED
  BY <1>2, <1>3, <1>4

\* The operator's edit is of a file that the bundle in the live directory
\* does not have.
LEMMA OperatorEditInv == ASSUME Inv, OperatorEdit PROVE Inv'
<1> USE DEF Inv
<1>1. PICK f \in PersistFiles, x \in Edited :
        /\ live[f] \notin Commits
        /\ live' = [live EXCEPT ![f] = x] /\ edited' = [edited EXCEPT ![f] = x]
  BY DEF OperatorEdit
<1>2. /\ pc = "idle" /\ result' = "none" /\ Present(live)
      /\ UNCHANGED <<staging, old, containers, pc, commit, left, faults>>
  BY DEF OperatorEdit
<1>3. f \in Files /\ x \in Contents
  BY ComposeAssumption, ContentFacts
<1>4. TypeOK'
  <2>1. live' \in [Files -> Contents]
    BY <1>1, <1>3, DirTypes
  <2>2. edited' \in [PersistFiles -> {0} \cup Edited]
    BY <1>1 DEF TypeOK
  <2> QED
    BY <1>2, <2>1, <2>2, DirTypes DEF TypeOK
<1>5. (CommitChosen /\ StagingHolds /\ LiveHolds /\ ContainersFollow /\ NoResultYet)'
  BY <1>2 DEF CommitChosen, StagingHolds, LiveHolds, ContainersFollow, NoResultYet, Deploying
<1>6. LiveIsDeployable'
  <2>1. ASSUME containers # 0 PROVE \E c \in ValidCommits : Holds(live', c)
    <3>1. PICK c \in ValidCommits : Holds(live, c)
      BY <1>2, <2>1 DEF LiveIsDeployable
    <3>2. c \in Commits
      BY ContentFacts
    <3>3. ASSUME NEW g \in BundleOf[c] PROVE live'[g] = c
      <4>1. g \in Files /\ live[g] = c
        BY <3>1, <3>2, BundleFacts DEF Holds
      <4>2. g # f
        BY <1>1, <3>2, <4>1
      <4> QED
        BY <1>1, <1>3, <4>1, <4>2, DirTypes
    <3> QED
      BY <3>3 DEF Holds
  <2> QED
    BY <1>2, <2>1 DEF LiveIsDeployable, Holds
<1>7. SuccessIsReal'
  BY <1>2 DEF SuccessIsReal
<1> QED
  BY <1>4, <1>5, <1>6, <1>7

LEMMA NextInv == Inv /\ [Next]_vars => Inv'
<1> SUFFICES ASSUME Inv, [Next]_vars PROVE Inv'
  OBVIOUS
<1>1. CASE Running
  <2>1. CASE CleanStaging BY <2>1, CleanStagingInv
  <2>2. CASE Upload BY <2>2, UploadInv
  <2>3. CASE UploadDone BY <2>3, UploadDoneInv
  <2>4. CASE CopyPersist BY <2>4, CopyPersistInv
  <2>5. CASE CopyDone BY <2>5, CopyDoneInv
  <2>6. CASE Preflight BY <2>6, PreflightInv
  <2>7. CASE StagingFails BY <2>7, StagingFailsInv
  <2>8. CASE SwapRemoveOld BY <2>8, SwapRemoveOldInv
  <2>9. CASE SwapMoveLive BY <2>9, SwapMoveLiveInv
  <2>10. CASE SwapMoveStaging BY <2>10, SwapMoveStagingInv
  <2>11. CASE SwapFails BY <2>11, ReturnPreserves DEF SwapFails
  <2>12. CASE CleanOld BY <2>12, CleanOldInv
  <2>13. CASE ComposeUp BY <2>13, ComposeUpInv
  <2>14. CASE ComposeUpFails BY <2>14, ReturnPreserves DEF ComposeUpFails
  <2>15. CASE Ps BY <2>15, PsInv
  <2>16. CASE Down BY <2>16, DownInv
  <2>17. CASE DownFails BY <2>17, DownFailsInv
  <2>18. CASE RemoveDir BY <2>18, RemoveDirInv
  <2> QED
    BY <1>1, <2>1, <2>2, <2>3, <2>4, <2>5, <2>6, <2>7, <2>8, <2>9, <2>10, <2>11, <2>12,
       <2>13, <2>14, <2>15, <2>16, <2>17, <2>18 DEF Running
<1>2. CASE \E c \in Commits : Deploy(c)
  BY <1>2, DeployInv
<1>3. CASE Teardown
  BY <1>3, TeardownInv
<1>4. CASE Crash
  BY <1>4, ReturnPreserves DEF Crash
<1>5. CASE OperatorEdit
  BY <1>5, OperatorEditInv
<1>6. CASE UNCHANGED vars
  BY <1>6 DEF vars, dirs, Inv, TypeOK, CommitChosen, StagingHolds, LiveHolds, ContainersFollow,
     NoResultYet, LiveIsDeployable, SuccessIsReal, Present, Holds
<1> QED
  BY <1>1, <1>2, <1>3, <1>4, <1>5, <1>6 DEF Next

-----------------------------------------------------------------------------
(* Theorems.                                                               *)

\* What the staging and live directories and the containers hold at each
\* remote command of Executor.Deploy and teardown, in every reachable state.
THEOREM ComposeInvariant == Spec => []Inv
BY InitInv, NextInv, PTL DEF Spec

\* Executor.Deploy and teardown, whatever was interrupted before: containers
\* run beside, and come up from, the complete bundle of a validated commit.
THEOREM LiveStaysDeployable == Spec => []LiveIsDeployable
<1>1. Inv => LiveIsDeployable
  BY DEF Inv
<1> QED
  BY <1>1, ComposeInvariant, PTL

\* Executor.Deploy: what it reports as a success is on the host, files and
\* containers, until the next operation begins.
THEOREM SuccessIsTrue == Spec => []SuccessIsReal
<1>1. Inv => SuccessIsReal
  BY DEF Inv
<1> QED
  BY <1>1, ComposeInvariant, PTL
=============================================================================
