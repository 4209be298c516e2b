SPECIFICATION Spec
CONSTANTS
    l1 = l1
    l2 = l2
    l3 = l3
    l4 = l4
    NoProcess = NoProcess
    NoTree = NoTree
    Unset = Unset
    Fallback = Fallback
    NoEntry = NoEntry
    Leaf = {l1}
    Key = {"k1", "k2"}
    Object = {"o1"}
    KeyOf <- KeyOfOne
    ObjectOf <- ObjectOfSiblings
    Registered = {"k1", "k2"}
    RawError = {}
    Defaulted = {}
    Ttl <- TtlNone
    Refresher = {r1, r2}
    Getter = {}
    Auditor = {}
    TreeId = {t1, t2, t3}
    Flaky = {}
    Impatient = {}
    MaxVersion = 2
    MaxTime = 1
SYMMETRY TreeSymmetry
PROPERTIES
    RefreshNotUndone
