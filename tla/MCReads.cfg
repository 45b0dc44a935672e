SPECIFICATION Spec
CONSTANTS
    Convs = {"c1", "c2", "c3"}
    KeyOf <- MCKeyOf
    SidOf <- MCSidOf
    NoKey = "none"
    Callers = {"k", "s"}
    Msgs = {"m1", "m2", "m3", "m4"}
    Leaves = {"l1", "l2", "l3"}
    Condensed = {"d"}
    ConvOf <- MCConvOf
    Sources <- MCSources
    Links <- MCLinks
    Age <- MCAge
    Dist <- MCDist
    Textual = {"m1", "m2", "l1", "l2", "l3", "d"}
    Raw = {"m1", "m2", "m3", "l1", "l2", "l3", "d"}
    Oversize = {"l3"}
    Entities = {"e"}
    EntityKey <- MCEntityKey
    Mentions <- MCMentions
    Files = {"f"}
    FileConv <- MCFileConv
    Late = {"l3"}
    LateConvs = {"c2"}
    ConvArgs = {"c2"}
    Windows <- MCWindows
    Wide = 2
    MaxOffset = 1
INVARIANTS NothingBuried ScopeHonoured HybridHonest PagesComplete
CHECK_DEADLOCK FALSE
