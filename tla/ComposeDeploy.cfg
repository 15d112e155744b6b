SPECIFICATION LiveSpec
CONSTANTS
    Files <- MCFiles
    ComposeFiles <- MCComposeFiles
    PersistFiles <- MCPersistFiles
    MaxCommit = 3
    BundleOf <- MCBundleOf
    ValidCommits <- MCValidCommits
    Versions = 2
    MaxFaults = 3
INVARIANTS LiveIsDeployable SuccessIsReal
PROPERTIES DeployRecovers
