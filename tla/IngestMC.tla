------------------------------ MODULE IngestMC ------------------------------
(***************************************************************************)
(* The chain and the cache side by side: nothing in src/ joins them, so a  *)
(* behaviour is one of the chain or one of the cache.  The sources have    *)
(* the three shapes of the adapters and overlap in what they publish, as   *)
(* the fallback chains of DEPLOYMENT.md do.                                *)
(***************************************************************************)
EXTENDS IngestChain, CadenceCache

VARIABLE part

ingestVars == <<chainVars, cacheVars, part>>

IngestInit == part \in {"chain", "cache"} /\ ChainInit /\ CacheInit

IngestNext ==
    \/ part = "chain" /\ ChainNext /\ UNCHANGED <<cacheVars, part>>
    \/ part = "cache" /\ CacheNext /\ UNCHANGED <<chainVars, part>>

IngestSpec ==
    /\ IngestInit /\ [][IngestNext]_ingestVars
    /\ \A t \in Task : WF_ingestVars(part = "chain" /\ FetchStep(t) /\ UNCHANGED <<cacheVars, part>>)

Sources == {"erddap", "imd", "meteo"}
ByAuthority == <<"erddap", "imd", "meteo">>
Shapes == [erddap |-> "grid", imd |-> "locked", meteo |-> "point"]
Catalogue == [erddap |-> <<"sst", "chl">>, imd |-> <<"sst">>, meteo |-> <<"sst", "chl">>]
Deadlines == [erddap |-> 1, imd |-> 2, meteo |-> 1]

Ask1(vars, where, over) == [variables |-> vars, covering |-> where, ended |-> over]

Asked == {Ask1({"sst", "chl"}, Sources, {}), Ask1({"sst"}, Sources, {}),
          Ask1({"chl"}, Sources, {"erddap"}), Ask1({"sst", "chl"}, {"imd", "meteo"}, {})}
=============================================================================
