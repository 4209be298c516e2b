SPECIFICATION Spec
CONSTANTS
    Client = {c1}
    Object = {"db"}
    Field = {"user", "password"}
    NoField = NoField
    Reference <- RefsOfOne
    Unparsable = Unparsable
    Auth = {"token", "approle", "kubernetes", "unknown"}
    NoReply = NoReply
    Payloads <- PayloadsAll
    MaxVersions = 2
    MaxChanges = 2
CHECK_DEADLOCK FALSE
INVARIANTS
    TypeOK
    AnswerTruthful
