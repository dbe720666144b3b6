---------------------------- MODULE MCTokenStore ----------------------------
(* Small instances of TokenStore for TLC. *)
EXTENDS TokenStore, TLC

CONSTANTS r1, r2, a1

AllKeys == {r1, r2, a1}
AccessTokens == {{a1}}

Interchangeable == Permutations(RefreshKeys) \cup Permutations(Tokens)
                   \cup Permutations(EncryptionKeys)
=============================================================================
