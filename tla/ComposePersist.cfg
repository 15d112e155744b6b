SPECIFICATION Spec
CONSTANTS
    Files <- MCFiles
    ComposeFiles <- MCComposeFiles
    PersistFiles <- MCPersistFiles
    MaxCommit = 3
    BundleOf <- MCBundleOf
    ValidCommits <- MCValidCommits
    Versions = 2
    MaxFaults = 1
INVARIANTS PersistCarried
