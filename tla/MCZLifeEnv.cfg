CONSTANTS
    Proc = {1}
    Port = {1, 2, 3}
    Docs <- MCDocs
    Reach <- MCReach
    Envs <- AllowedEnvs
SPECIFICATION FairSpec
PROPERTY EnvironmentIsTaken
CHECK_DEADLOCK FALSE
