CONSTANTS
    Agents <- MCAgents
    Root = "root"
    Teams <- MCTeams
    Migrations = {"m1", "m2"}
    Channels = {"r1", "r2", "r3", "r4", "r5"}
    Failovers = {"f1"}
    Overseer = "A"
    Aliases = {"g1", "g2"}
    Recruits <- MCRecruits
    Top = "Top"
    InitialParent <- MCParent
    Moves <- MCMoves
    PolicyOf <- MCPolicies
    MaxMigrations = 1
    Pairs <- MCPairs
    ConfigOf <- MCConfigs
    Starts <- MCStarts
SPECIFICATION Spec
CHECK_DEADLOCK FALSE
INVARIANT TypeOK Restorable TopologySound NoneForgotten
PROPERTY DecisionSpec
