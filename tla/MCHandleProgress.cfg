SPECIFICATION FairSpec
CONSTANTS
    l1 = l1
    l2 = l2
    l3 = l3
    l4 = l4
    NoProcess = NoProcess
    NoTree = NoTree
    Unset = Unset
    Fallback = Fallback
    NoEntry = NoEntry
    Leaf = {l1}
    Key = {"k1"}
    Object = {"o1"}
    KeyOf <- KeyOfOne
    ObjectOf <- ObjectOfOne
    Registered = {"k1"}
    RawError = {}
    Defaulted = {}
    Ttl <- TtlOne
    Refresher = {r1, r2}
    Getter = {g1}
    Auditor = {}
    TreeId = {t1, t2, t3, t4}
    Flaky = {}
    Impatient = {r1}
    MaxVersion = 1
    MaxTime = 1
PROPERTIES
    RefreshReturns
    ReadReturns
