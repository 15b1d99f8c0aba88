------------------------------ MODULE EvidenceMC ------------------------------
(***************************************************************************)
(* The three stores evidence is read from, side by side: they share no     *)
(* state, so a behaviour is one of a single store.                         *)
(***************************************************************************)
EXTENDS ObservationStore, EvidenceCorpus, DatasetRegistry

VARIABLE store

evidenceVars == <<storeVars, corpusVars, registryVars, store>>

EvidenceInit ==
    /\ store \in {"observations", "corpus", "registry"}
    /\ StoreInit /\ CorpusInit
    /\ IF store = "registry" THEN RegistryInit
       ELSE registry = Capabilities /\ question = CHOOSE q \in Questions : TRUE

EvidenceNext ==
    \/ store = "observations" /\ StoreNext /\ UNCHANGED <<corpusVars, registryVars, store>>
    \/ store = "corpus" /\ CorpusNext /\ UNCHANGED <<storeVars, registryVars, store>>
    \/ store = "registry" /\ RegistryNext /\ UNCHANGED <<storeVars, corpusVars, store>>

EvidenceSpec == EvidenceInit /\ [][EvidenceNext]_evidenceVars

\* Regions and datasets are only compared with themselves.
Alike == Permutations(Region) \cup Permutations(Dataset)

SplitsInto == [brief |-> 1, full |-> 2]

Asks == [variable : {"significant_wave_height", "sea_surface_temperature"},
         at : {2012, 2026}, box : {{"bengal"}, {"bengal", "atlantic"}},
         maxCost : {0, 1, Unlimited}, allowAuth : BOOLEAN,
         credentials : {{}, {"cmems"}, {"cmems", "niot_omni"}}]

\* Two that a deployment may add, one of them under a name that is taken.
LaterSources ==
    {Capability("leased_waveglider", "glider", Waves, {"bengal"}, 1, 95, 2, FALSE, 0, Ongoing),
     Capability("niot_omni_buoys", "niot_omni", Waves, {"arabian"}, 1, 95, 1, FALSE, 0, Ongoing)}

-----------------------------------------------------------------------------
\* What is read as evidence was written, is current, was asked for and is in
\* the order that both rankings agree on, after any history of ingests.
EvidenceIsSound ==
    /\ StoreTypeOK /\ RowsWereWritten
    /\ NoStaleChunks /\ EveryPassageIsAdmissible /\ FusionKeepsAgreement
=============================================================================
