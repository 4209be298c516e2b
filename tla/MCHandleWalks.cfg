SPECIFICATION Spec
CONSTANTS
    l1 = l1
    l2 = l2
    l3 = l3
    l4 = l4
    NoProcess = NoProcess
    NoTree = NoTree
    Unset = Unset
    Fallback = Fallback
    NoEntry = NoEntry
    Leaf = {l1, l2, l3, l4}
    Key = {"k1", "k2", "k3"}
    Object = {"o1"}
    KeyOf <- KeyOfFour
    ObjectOf <- ObjectOfThree
    Registered = {"k1", "k2"}
    RawError = {"k2"}
    Defaulted = {l2, l3, l4}
    Ttl <- TtlThree
    Refresher = {r1}
    Getter = {}
    Auditor = {}
    TreeId = {t1, t2}
    Flaky = {"o1"}
    Impatient = {r1}
    MaxVersion = 2
    MaxTime = 4
SYMMETRY TreeSymmetry
INVARIANTS
    SameKeyAgree
    PublishedComplete
    NoStaleCarryOver
PROPERTIES
    RefreshNotUndone
