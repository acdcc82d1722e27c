SPECIFICATION Spec
CONSTANTS
    DirName <- AllDirs
    NoteName <- Names
    Hidden = {}
    Rank <- NameRank
    Paths <- Universe
    Trees <- AllTrees
    Dests <- Asked
    MaxItems = 2
    Schemed = {}
    Allowed <- Plain
INVARIANTS
    LandsAsDeclared
    NeverFailsMidway
    NoBodyLost
    LinksFollow
PROPERTIES
    PrunesOnlySources
CHECK_DEADLOCK FALSE
