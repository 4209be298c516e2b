\* One leaf from its text to its value: every text of the alphabets.
SPECIFICATION Spec
CONSTANTS
    None = None
    Mask = Mask
    Unset = Unset
    Name = {"X"}
    Lower = {"vault", "env", "awssm", "secret", "kv", "a", "d", "x", "version", "other"}
    Escapes <- MCEscapes
    Malformed = {"%2"}
    Char = {"$", "{", "}", "secret", ":", "-", "?", "#", "=", "&", "/", "+", "%23", "%26", "%2",
            "vault", "Vault", "env", "awssm", "kv", "version", "other", "a", "d", "v", "x", "X", "3", " "}
    Integer = {"3"}
    Cases <- MCCases
    BodyPieces = 4
    TextPieces = 4
INVARIANTS
    OnePass
    EscapedIsLiteral
    NoReferenceServed
    ReadAsWritten
    VaultReadsAsMeant
    EnvParity
