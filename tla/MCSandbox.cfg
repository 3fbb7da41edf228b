SPECIFICATION FairSpec
CONSTANT OptionSets <- MCOptions
INVARIANT AppConfined
INVARIANT Coordinated
PROPERTY KeepsLifecycle
PROPERTY StartupSettles
PROPERTY SandboxEndsWithParent
