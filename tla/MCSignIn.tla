------------------------------ MODULE MCSignIn ------------------------------
(* Small instances for TLC of the three components that get a user's tokens. *)
(* They share no state: a behaviour exercises one of them.                   *)
EXTENDS DirectProvider, OAuthFlow, JwtMiddleware, TLC

CONSTANTS s1, a, b, c1, c2, q1, q2, na, eu, x, t1, t2

VARIABLE part

partVars == <<directVars, oauthVars, jwtVars, part>>

Init ==
    /\ part \in {"direct", "oauth", "jwt"}
    /\ DirectInit /\ OAuthInit /\ JwtInit
    /\ part # "direct" => ~signedIn /\ ~inSecure /\ \A r \in Regions : stored[r] = NoToken
    /\ part # "oauth" => secure = NoAccount
    /\ part # "jwt" => config = OpenBridgeConfig([enabled |-> "true", refresh |-> "true",
                                                  validation |-> "true"])

Next ==
    \/ part = "direct" /\ DirectNext /\ UNCHANGED <<oauthVars, jwtVars, part>>
    \/ part = "oauth" /\ OAuthNext /\ UNCHANGED <<directVars, jwtVars, part>>
    \/ part = "jwt" /\ JwtNext /\ UNCHANGED <<directVars, oauthVars, part>>

Spec == Init /\ [][Next]_partVars

Interchangeable == Permutations(Accounts)

\* The types of the three components. (direct.py, oauth.py, authentication.py.)
SignInTypesOK == DirectTypeOK /\ OAuthTypeOK /\ JwtTypeOK
=============================================================================
