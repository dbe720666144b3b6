--------------------------- MODULE AtomicCatalog ---------------------------
(* What the packaged report-field catalog promises its readers: they see the *)
(* version committed last, or no catalog at all.                             *)
CONSTANTS CatalogVersions, NoVersion

VARIABLES committed, readable

AtomicInit == committed = NoVersion /\ readable = NoVersion

\* A refresh has begun to replace files.
Withdraw == readable' = NoVersion /\ UNCHANGED committed

\* The files of the committed version are back.
Restore == readable' = committed /\ UNCHANGED committed

CommitVersion == committed' \in CatalogVersions /\ readable' = committed'

AtomicNext == Withdraw \/ Restore \/ CommitVersion

atomicVars == <<committed, readable>>
AtomicSpec == AtomicInit /\ [][AtomicNext]_atomicVars
=============================================================================
