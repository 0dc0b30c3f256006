------------------------------- MODULE MCCache -------------------------------
(***************************************************************************)
(* The snapshot of the sheet, in two machines: the cache by itself, with   *)
(* its clock, its callers and its loads; and the cache as its health is    *)
(* watched, with the sweep of the photos and the monitor's mail.           *)
(* They share no state, so a behaviour runs one of them, and leaves the    *)
(* other as it starts.                                                     *)
(***************************************************************************)
EXTENDS CatalogueCache, HealthWatch

VARIABLE machine

cacheRunVars == <<machine, cacheVars, watchVars>>

BothInit == machine \in {"cache", "watch"} /\ CacheInit /\ WatchInit

BothNext ==
    \/ machine = "cache" /\ CacheNext /\ UNCHANGED <<machine, watchVars>>
    \/ machine = "watch" /\ WatchNext /\ UNCHANGED <<machine, cacheVars>>

\* What is promised of a machine is promised where it runs.
CacheRuns == machine = "cache" /\ CacheFairness
WatchRuns == machine = "watch" /\ WatchFairness

CacheRunSpec == BothInit /\ [][BothNext]_cacheRunVars /\ (CacheRuns \/ WatchRuns)
=============================================================================
