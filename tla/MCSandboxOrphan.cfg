CONSTANT OptionSets <- MCEverything
SPECIFICATION FairSpec
PROPERTY OrphanAlwaysDies
