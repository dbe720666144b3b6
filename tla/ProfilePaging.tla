--------------------------- MODULE ProfilePaging ---------------------------
(***************************************************************************)
(* A caller that walks through a list of profiles with page_profiles,       *)
(* going on at the next_offset it is given. The list does not change.       *)
(***************************************************************************)
EXTENDS Integers

CONSTANTS MaxLimit,    \* MAX_PAGE_LIMIT
          MaxProfiles  \* bound on the length of the list

ASSUME PagingAssumption == MaxLimit \in Nat \ {0} /\ MaxProfiles \in Nat

VARIABLES total, limit, offset, pages, walking

pagingVars == <<total, limit, offset, pages, walking>>

PagingInit ==
    /\ total \in 0..MaxProfiles /\ limit \in (0 - 1)..(MaxLimit + 1)
    /\ offset = 0 /\ pages = {} /\ walking = TRUE

\* _apply_limit: no limit, or one that makes no sense, is the largest.
ApplyLimit(l) == IF l <= 0 \/ l > MaxLimit THEN MaxLimit ELSE l

Returned(n, o, l) == IF o >= n THEN 0 ELSE IF n - o < ApplyLimit(l) THEN n - o ELSE ApplyLimit(l)

HasMore(n, o, l) == o + Returned(n, o, l) < n

\* page_profiles, and the caller goes on at next_offset while there is one.
NextPage ==
    /\ walking
    /\ pages' = pages \cup {<<offset, offset + Returned(total, offset, limit)>>}
    /\ walking' = HasMore(total, offset, limit)
    /\ offset' = IF HasMore(total, offset, limit)
                 THEN offset + Returned(total, offset, limit) ELSE offset
    /\ UNCHANGED <<total, limit>>

PagingSpec == PagingInit /\ [][NextPage]_pagingVars

-----------------------------------------------------------------------------
\* Following next_offset visits every profile of an unchanged list once, and ends.
\* (page_profiles.)
PagesCoverList ==
    /\ \A p, q \in pages : p # q => p[2] <= q[1] \/ q[2] <= p[1]
    /\ ~walking => \A i \in 0..(total - 1) : \E p \in pages : p[1] <= i /\ i < p[2]
    /\ walking => \E p \in {<<0, 0>>} \cup pages : offset = p[2] /\ (total > offset \/ total = 0)
=============================================================================
