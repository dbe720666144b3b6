--------------------------- MODULE ProfileListing ---------------------------
(***************************************************************************)
(* The profile lists: a cache by identity and region in front of            *)
(* GET /v2/profiles, its forced refresh, and the interactive selection on   *)
(* top of it. Calls overlap, since the fetch is awaited; the region of an   *)
(* identity may be switched meanwhile.                                      *)
(***************************************************************************)
EXTENDS Integers

CONSTANTS ListCalls, Identities, ListRegions,
          ListTtl,       \* AMAZON_ADS_PROFILE_CACHE_TTL
          MaxClock       \* bound on time

ASSUME ListingAssumption ==
    ListTtl \in Nat /\ MaxClock \in Nat

Keys == Identities \X ListRegions

\* Lists are told apart by whose they are and when they were read.
NoList == [of |-> <<>>, read |-> 0, stamp |-> 0]

VARIABLES
    clock,
    listRegion, \* identity -> its region: the direct provider can switch it
    entries,    \* _cache: key -> list and timestamp, or NoList
    caller,     \* call -> the identity of its request
    stage,      \* call -> where it is suspended
    begun,      \* call -> now, the time it began
    key,        \* call -> the key it looked up
    backup,     \* call -> entry, the cached list it saw
    url,        \* call -> the region it asks
    got,        \* call -> the list it was given or is choosing from
    flagged,    \* call -> stale
    chosen,     \* call -> owner of the profile its user selected, or <<>>
    switched    \* history: a region was switched while it was being fetched

listVars == <<clock, listRegion, entries, caller, stage, begun, key, backup, url,
              got, flagged, chosen, switched>>

Stages == {"new", "credentials", "request", "response", "returned", "choosing", "over"}

Times == 0..MaxClock
Places == Keys \cup {NoList.of}
Lists == [of : Places, read : Times, stamp : Times]

\* Types; a list is never stamped with a time to come.
ListingTypeOK ==
    /\ clock \in Times
    /\ listRegion \in [Identities -> ListRegions]
    /\ entries \in [Keys -> Lists]
    /\ \A k \in Keys : entries[k].stamp <= clock /\ entries[k].read <= clock
    /\ caller \in [ListCalls -> Identities] /\ stage \in [ListCalls -> Stages]
    /\ begun \in [ListCalls -> Times] /\ \A c \in ListCalls : begun[c] <= clock
    /\ key \in [ListCalls -> Places] /\ chosen \in [ListCalls -> Places]
    /\ backup \in [ListCalls -> Lists] /\ got \in [ListCalls -> Lists]
    /\ url \in [ListCalls -> ListRegions] /\ flagged \in [ListCalls -> BOOLEAN]
    /\ switched \in BOOLEAN

ListInit ==
    /\ clock = 0
    /\ \E r \in ListRegions : listRegion = [i \in Identities |-> r]
    /\ entries = [k \in Keys |-> NoList]
    /\ caller \in [ListCalls -> Identities]
    /\ stage = [c \in ListCalls |-> "new"]
    /\ begun = [c \in ListCalls |-> 0]
    /\ key = [c \in ListCalls |-> <<>>]
    /\ backup = [c \in ListCalls |-> NoList]
    /\ url = [c \in ListCalls |-> listRegion[caller[c]]]
    /\ got = [c \in ListCalls |-> NoList]
    /\ flagged = [c \in ListCalls |-> FALSE]
    /\ chosen = [c \in ListCalls |-> <<>>]
    /\ switched = FALSE

-----------------------------------------------------------------------------
(* Fetching.                                                               *)

\* _get_cache_key
CacheKey(c) == <<caller[c], listRegion[caller[c]]>>

Expired(entry) == clock - entry.stamp > ListTtl

\* ProfileCache.get_profiles up to its await: a fresh list is returned at once,
\* unless a refresh is forced.
Lookup(c, force) ==
    /\ stage[c] = "new"
    /\ LET entry == entries[CacheKey(c)]
           hit == entry # NoList /\ ~force /\ ~Expired(entry) IN
       /\ stage' = [stage EXCEPT ![c] = IF hit THEN "returned" ELSE "credentials"]
       /\ got' = [got EXCEPT ![c] = IF hit THEN entry ELSE @]
       /\ backup' = [backup EXCEPT ![c] = IF hit THEN NoList ELSE entry]
    /\ begun' = [begun EXCEPT ![c] = clock]
    /\ key' = [key EXCEPT ![c] = CacheKey(c)]
    /\ UNCHANGED <<clock, listRegion, entries, caller, url, flagged, chosen, switched>>

\* The credentials say which region is asked, and may not be had.
Ask(c) ==
    /\ stage[c] = "credentials"
    /\ stage' = [stage EXCEPT ![c] = "request"]
    /\ url' = [url EXCEPT ![c] = listRegion[caller[c]]]
    /\ UNCHANGED <<clock, listRegion, entries, caller, begun, key, backup, got,
                   flagged, chosen, switched>>

\* External: the service reads the list of that identity and region.
Serve(c) ==
    /\ stage[c] = "request"
    /\ stage' = [stage EXCEPT ![c] = "response"]
    /\ got' = [got EXCEPT ![c] = [of |-> <<caller[c], url[c]>>, read |-> clock, stamp |-> 0]]
    /\ UNCHANGED <<clock, listRegion, entries, caller, begun, key, backup, url,
                   flagged, chosen, switched>>

\* Fault: the entry is stamped when the answer is in.
StampLate(c) == clock

\* The time the call began, before anything was awaited.
Stamp(c) == begun[c]

\* The answer is cached under the key of the beginning, over whatever is there.
Keep(c) ==
    /\ stage[c] = "response"
    /\ LET entry == [got[c] EXCEPT !.stamp = Stamp(c)] IN
       /\ entries' = [entries EXCEPT ![key[c]] = entry]
       /\ got' = [got EXCEPT ![c] = entry]
    /\ stage' = [stage EXCEPT ![c] = "returned"]
    /\ UNCHANGED <<clock, listRegion, caller, begun, key, backup, url, flagged,
                   chosen, switched>>

\* Anything that goes wrong in the fetch: the list seen before is returned, and
\* flagged, or there is none.
FailFetch(c) ==
    /\ stage[c] \in {"credentials", "request", "response"}
    /\ stage' = [stage EXCEPT ![c] = IF backup[c] # NoList THEN "returned" ELSE "over"]
    /\ got' = [got EXCEPT ![c] = backup[c]]
    /\ flagged' = [flagged EXCEPT ![c] = backup[c] # NoList]
    /\ UNCHANGED <<clock, listRegion, entries, caller, begun, key, backup, url,
                   chosen, switched>>

\* select_profile: a list of up to 50 profiles is put to the user, who names one.
Elicit(c) ==
    /\ stage[c] = "returned"
    /\ stage' = [stage EXCEPT ![c] = "choosing"]
    /\ UNCHANGED <<clock, listRegion, entries, caller, begun, key, backup, url, got,
                   flagged, chosen, switched>>

\* Only a profile of the list becomes the active one; the user may decline.
Select(c) ==
    /\ stage[c] = "choosing"
    /\ stage' = [stage EXCEPT ![c] = "over"]
    /\ chosen' \in {chosen, [chosen EXCEPT ![c] = got[c].of]}
    /\ got' = [got EXCEPT ![c] = NoList]
    /\ UNCHANGED <<clock, listRegion, entries, caller, begun, key, backup, url,
                   flagged, switched>>

\* The region tool, called by another request.
Switch(i, r) ==
    /\ listRegion[i] # r
    /\ listRegion' = [listRegion EXCEPT ![i] = r]
    /\ switched' = (switched \/ \E c \in ListCalls :
                        caller[c] = i /\ stage[c] \in {"credentials", "request", "response"})
    /\ UNCHANGED <<clock, entries, caller, stage, begun, key, backup, url, got,
                   flagged, chosen>>

Tick ==
    /\ clock < MaxClock /\ clock' = clock + 1
    /\ UNCHANGED <<listRegion, entries, caller, stage, begun, key, backup, url, got,
                   flagged, chosen, switched>>

ListNext ==
    \/ \E c \in ListCalls :
        \/ \E force \in BOOLEAN : Lookup(c, force)
        \/ Ask(c) \/ Serve(c) \/ Keep(c) \/ FailFetch(c) \/ Elicit(c) \/ Select(c)
    \/ \E i \in Identities, r \in ListRegions : Switch(i, r)
    \/ Tick

ListSpec == ListInit /\ [][ListNext]_listVars

-----------------------------------------------------------------------------
\* A list that is not flagged was read at most the TTL before its call began, also
\* when the answer took its time and when slower calls overwrite faster ones.
\* (ProfileCache.get_profiles takes the timestamp before it awaits the fetch.)
UnflaggedIsRecent == \A c \in ListCalls :
    stage[c] = "returned" /\ ~flagged[c] => got[c].read >= begun[c] - ListTtl

\* The entry of a key is the list of that identity and, unless the region was
\* switched while it was fetched, of that region. (The key is computed before the
\* credentials are awaited.)
FiledWhereRead == \A k \in Keys : entries[k] # NoList =>
    /\ entries[k].of[1] = k[1]
    /\ ~switched => entries[k].of = k

\* Nobody selects a profile of another identity. (select_profile.)
SelectedIsOwn == \A c \in ListCalls : chosen[c] # <<>> => chosen[c][1] = caller[c]

\* What a listing returns, and where it keeps it, is the caller's own and recent.
ListingCorrect == UnflaggedIsRecent /\ FiledWhereRead /\ SelectedIsOwn
=============================================================================
