--------------------------- MODULE MCVaultSource ---------------------------
(* Small instances of VaultSource for TLC.                                 *)
EXTENDS VaultSource, TLC

\* The latest version with and without a field, and each explicit version.
RefsOfOne ==
    {[object |-> "db", version |-> n, field |-> f] :
       n \in {-1, 0, 1, 2}, f \in {"user", NoField}}
PayloadsAll == {{}, {"user"}, {"password"}, {"user", "password"}}
PayloadsSome == {{"user"}, {"user", "password"}}
=============================================================================
