SPECIFICATION Spec
CONSTANTS
    v1 = v1
    v2 = v2
    v3 = v3
    d1 = d1
    d2 = d2
    d3 = d3
    f1 = f1
    custom = custom
    failing = failing
    Base = base
    LocalFile = local
    ProdFile = prod
    Source = {base, local, prod, f1, d1, d2, d3, custom, failing}
    File = {base, local, prod, f1}
    Dict = {d1, d2, d3}
    Templated = {d2}
    Closers = {custom, failing}
    FailingClosers = {failing}
    Missing = Missing
    Denied = Denied
    Malformed = Malformed
    Token = Token
    RefText = RefText
    SecretRef = SecretRef
    Resolved = Resolved
    MaskedPlaceholder = MaskedPlaceholder
    Atom = {v1, v2, v3, Token, RefText, SecretRef, Resolved, MaskedPlaceholder}
    Key = {"a", "b", "password"}
    Absent = Absent
    Nowhere = Nowhere
    Depth = 2
    Text = {v1, v3, Token, RefText, Resolved, MaskedPlaceholder}
    SecretKey = {"password"}
    UnsetVar = UnsetVar
    NoConfig = NoConfig
    SchemeOf <- SchemeOfSecret
    Lists <- AllLists
    Contents <- ListContents
    Variants <- FileVariants
    EnvNames = {"unset"}
    EnvValues = {UnsetVar, v1, RefText, Token}
    SecretSources = {"s1", "s2"}
    MaxEdits = 0
CHECK_DEADLOCK FALSE
INVARIANTS
    LastWriterWins
    SnapshotMasksSecrets
    FileReferencesResolved
    CloseReachesAll
    CloseReports
