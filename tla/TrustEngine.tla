----------------------------- MODULE TrustEngine -----------------------------
(***************************************************************************)
(* The native trust-list engine (trust/engine.rs): a host-driven refresh    *)
(* that fetches and ingests the configured lists one by one into a new      *)
(* cache, the reachability policy when one of them fails, and the pure      *)
(* resolve on the cache at a clock the host sets.  The engine is borrowed   *)
(* for the whole refresh, so nothing but fetching happens in between.       *)
(***************************************************************************)
EXTENDS Integers, Sequences

CONSTANTS
  Keys,       \* (role, format) pairs
  Roots,      \* anchor certificates
  Times,      \* clock values and NextUpdate instants
  None,       \* no LOTL bound
  MaxLists    \* bound: configured lists

ASSUME TimesAssumption == Times \subseteq Int
ASSUME NoBoundAssumption == None \notin Int

Anchors == Keys \X Roots
Lotl(fmt) == [kind |-> "Lotl", format |-> fmt]
\* The with_* builders offer no national XML list.
ConfiguredLists == {Lotl("JsonManifest"), Lotl("Xml"), [kind |-> "National", format |-> "JsonManifest"]}
Editions == [anchors : SUBSET Anchors, next : Times]   \* a list that parses

VARIABLES
  reachability,   \* the policy given to new
  now,            \* the engine's clock, now_unix
  lists,          \* configured lists
  cache,
  at,             \* the list a refresh is at, 0 if there is none
  building,       \* the cache this refresh builds
  pending,        \* history: what this refresh has ingested
  good,           \* history: what the last successful refresh ingested, and when
  verdict         \* history: how the last refresh ended

vars == <<reachability, now, lists, cache, at, building, pending, good, verdict>>

DefaultCache == [anchors |-> {}, bound |-> None, warnings |-> {}, populated |-> FALSE]

Init ==
  /\ reachability \in {"FailClosed", "BestEffort"}
  /\ now \in Times /\ lists = <<>>
  /\ cache = DefaultCache /\ at = 0 /\ building = DefaultCache /\ pending = <<>>
  /\ good = [editions |-> <<>>, at |-> now] /\ verdict = "none"

Idle == at = 0

\* A list may also be added to an engine whose cache is populated.
PushList ==
  /\ Idle /\ Len(lists) < MaxLists
  /\ \E l \in ConfiguredLists : lists' = Append(lists, l)
  /\ UNCHANGED <<reachability, now, cache, at, building, pending, good, verdict>>

\* The host's clock: nothing keeps it from going back.
SetNow ==
  /\ Idle /\ now' \in Times
  /\ UNCHANGED <<reachability, lists, cache, at, building, pending, good, verdict>>

\* Mutant: builds on the old cache.
RefreshOnTop ==
  /\ Idle
  /\ at' = 1 /\ building' = cache /\ pending' = <<>>
  /\ UNCHANGED <<reachability, now, lists, cache, good, verdict>>

RefreshWith ==
  /\ Idle
  /\ at' = 1 /\ building' = DefaultCache /\ pending' = <<>>
  /\ UNCHANGED <<reachability, now, lists, cache, good, verdict>>

\* Mutant: best effort tolerates a forged list.
ToleratesAll(err) == reachability = "BestEffort"

Tolerates(err) == reachability = "BestEffort" /\ err \in {"Unreachable", "Stale"}

\* Mutant: the lists before the failing one are kept.
CachePartial(err) ==
  IF Tolerates(err) THEN [building EXCEPT !.populated = TRUE] ELSE DefaultCache

CacheAfter(err) == IF Tolerates(err) THEN cache ELSE DefaultCache

Fail(err) ==
  /\ cache' = CacheAfter(err)
  /\ verdict' = err
  /\ at' = 0 /\ building' = DefaultCache /\ pending' = <<>>
  /\ UNCHANGED <<reachability, now, lists, good>>

Unreachable == at \in DOMAIN lists /\ Fail("Unreachable")

\* It does not parse, or it is XML: authenticate always ends in an error.
Unauthentic == at \in DOMAIN lists /\ Fail("Authentication")

IsStale(e) == now >= e.next

\* A LOTL past its NextUpdate voids the whole refresh.
StaleLotl ==
  /\ at \in DOMAIN lists /\ lists[at] = Lotl("JsonManifest")
  /\ \E e \in Editions : IsStale(e)
  /\ Fail("Stale")

\* Mutant: the last LOTL's NextUpdate bounds the cache.
LatestBound(e) == IF lists[at].kind = "Lotl" THEN e.next ELSE building.bound

\* The earliest NextUpdate of the LOTLs.
EarliestBound(e) ==
  IF lists[at].kind = "National" \/ (building.bound # None /\ building.bound < e.next)
  THEN building.bound
  ELSE e.next

\* Mutant: numbers the lists from zero.
WarningsFromZero(e) == building.warnings \cup (IF IsStale(e) THEN {at - 1} ELSE {})

Warnings(e) == building.warnings \cup (IF IsStale(e) THEN {at} ELSE {})

Ingest(e) ==
  /\ at \in DOMAIN lists /\ lists[at].format = "JsonManifest"
  /\ lists[at].kind = "Lotl" => ~IsStale(e)
  /\ building' = [building EXCEPT !.anchors = @ \cup e.anchors,
                                  !.bound = EarliestBound(e), !.warnings = Warnings(e)]
  /\ pending' = Append(pending, [kind |-> lists[at].kind, anchors |-> e.anchors, next |-> e.next])
  /\ at' = at + 1
  /\ UNCHANGED <<reachability, now, lists, cache, good, verdict>>

RefreshOk ==
  /\ at = Len(lists) + 1
  /\ cache' = [building EXCEPT !.populated = TRUE]
  /\ good' = [editions |-> pending, at |-> now] /\ verdict' = "Ok"
  /\ at' = 0 /\ building' = DefaultCache /\ pending' = <<>>
  /\ UNCHANGED <<reachability, now, lists>>

Next ==
  \/ PushList \/ SetNow \/ RefreshWith
  \/ Unreachable \/ Unauthentic \/ StaleLotl \/ (\E e \in Editions : Ingest(e))
  \/ RefreshOk

Spec == Init /\ [][Next]_vars

CacheIsFresh == cache.populated /\ (cache.bound = None \/ now < cache.bound)

\* resolve and resolve_status_signer, for a path that validates up to root r.
Resolve(k, r) == CacheIsFresh /\ <<k, r>> \in cache.anchors

ListCaches ==
  [anchors : SUBSET Anchors, bound : Times \cup {None},
   warnings : SUBSET DOMAIN lists, populated : BOOLEAN]

Ingested == [kind : {"Lotl", "National"}, anchors : SUBSET Anchors, next : Times]

\* The engine's fields and the histories are well formed.
TypeOK ==
  /\ reachability \in {"FailClosed", "BestEffort"}
  /\ now \in Times /\ lists \in Seq(ConfiguredLists)
  /\ cache \in ListCaches /\ building \in ListCaches
  /\ at \in 0 .. Len(lists) + 1
  /\ pending \in Seq(Ingested) /\ good \in [editions : Seq(Ingested), at : Times]
  /\ verdict \in {"none", "Ok", "Unreachable", "Stale", "Authentication"}

LotlsOf(eds) == {i \in DOMAIN eds : eds[i].kind = "Lotl"}

\* What a cache must hold that was built from eds at time t.
BuiltFrom(c, eds, t) ==
  /\ c.anchors = UNION {eds[i].anchors : i \in DOMAIN eds}
  /\ c.warnings = {i \in DOMAIN eds : eds[i].kind = "National" /\ t >= eds[i].next}
  /\ \A i \in LotlsOf(eds) : t < eds[i].next /\ c.bound # None /\ c.bound <= eds[i].next
  /\ c.bound # None => \E i \in LotlsOf(eds) : c.bound = eds[i].next

\* The cache never mixes refreshes: it is exactly what the lists of the last
\* successful one held, or empty (refresh_into_cache builds aside, refresh_with swaps).
CacheIsOneRefresh ==
  IF cache.populated THEN BuiltFrom(cache, good.editions, good.at) ELSE cache = DefaultCache

\* Whatever resolve trusts, at whatever clock, is an anchor of a list accepted
\* by the last successful refresh for that very key, and no LOTL of that refresh
\* has passed its NextUpdate.
TrustIsBacked ==
  \A k \in Keys, r \in Roots : Resolve(k, r) =>
    /\ \E i \in DOMAIN good.editions : <<k, r>> \in good.editions[i].anchors
    /\ \A i \in LotlsOf(good.editions) : now < good.editions[i].next

\* After a refresh that met a forged list, or any failed refresh under FailClosed,
\* nothing resolves until one succeeds.
FailedRefreshStops ==
  (Idle /\ (verdict = "Authentication"
            \/ (reachability = "FailClosed" /\ verdict \in {"Unreachable", "Stale"})))
  => \A k \in Keys, r \in Roots : ~Resolve(k, r)

\* Trust is gained by a successful refresh, or by setting the clock back; never by
\* a failing refresh, by time or by configuring a list.
TrustIsGained ==
  [][(\E k \in Keys, r \in Roots : ~Resolve(k, r) /\ Resolve(k, r)')
     => (at = Len(lists) + 1 /\ verdict' = "Ok") \/ now' < now]_vars
==============================================================================
