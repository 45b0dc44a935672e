SPECIFICATION UpkeepSpec
CONSTANTS
    ModelLayers <- MCModelLayers
    NoModel = ""
    DirectKey = {"haiku"}
    Proc = {"gateway", "operator"}
    Leaf = {"s1", "s2"}
    Condensed = {"c1", "c2"}
    Later = {"n1"}
    Home = 1
    Legacies <- MCLegacies
    CallerKeys <- MCCallerKeys
    NumConv = 3
    Fts5 = TRUE
    Trigram = TRUE
    MaxOps = 4
INVARIANTS
    DerivedExact
    KeysFollow
    RepairSound
CHECK_DEADLOCK FALSE
