---------------------------- MODULE MCSessionAuth ----------------------------
(* Small deployments of SessionAuth for TLC: two tenants, each with one      *)
(* identity of its own, in two regions.                                      *)
EXTENDS SessionAuth, TLC

CONSTANTS r1, r2, s1, s2, t1, t2, i1, i2, na, eu

MCVisible  == (t1 :> {i1}) @@ (t2 :> {i2})
MCRegionOf == (i1 :> na) @@ (i2 :> eu)

\* One identity that both tenants may use, and one for the second alone.
SharedVisible == (t1 :> {i1}) @@ (t2 :> {i1, i2})

Interchangeable == Permutations(Requests) \cup Permutations(Sessions)

\* No action reads defaultProfile, and no property of the run with this view.
WithoutProfile == <<stored, fresh, pc, sess, hdr, ctx, host, sent, origin>>

\* Nor does any action read origin. TypeOK speaks of their types only, which no
\* action makes depend on the values of the other variables.
WithoutHistory == <<stored, fresh, pc, sess, hdr, ctx, host, sent>>
=============================================================================
