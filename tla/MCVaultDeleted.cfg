SPECIFICATION Spec
CONSTANTS
    Client = {c1}
    Object = {"db"}
    Field = {"user", "password"}
    NoField = NoField
    Reference <- RefsOfOne
    Unparsable = Unparsable
    Auth = {"token", "approle", "kubernetes", "unknown"}
    NoReply = NoReply
    Payloads <- PayloadsSome
    MaxVersions = 2
    MaxChanges = 1
CHECK_DEADLOCK FALSE
INVARIANTS
    UnavailableMeansTrouble
