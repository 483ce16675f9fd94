CONSTANTS
    Proc = {1, 2}
    Port = {1, 2, 3}
    Docs <- MCDocs
    Reach <- MCReach
    Envs <- MCEnvs
SPECIFICATION FairSpec
INVARIANTS TypeOK AnnouncedIsBound NothingForgotten ConfiguredAsDeclared OneLivingOwner
PROPERTIES RefinesPresence Started GhostsGo
CHECK_DEADLOCK FALSE
