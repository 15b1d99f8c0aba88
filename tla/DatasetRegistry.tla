--------------------------- MODULE DatasetRegistry ---------------------------
(***************************************************************************)
(* DatasetRegistry: created with some capabilities, by default those the   *)
(* repository declares, extended by register() and asked by select().      *)
(* Years stand for instants and a named sea for a box; reliability is in   *)
(* hundredths.                                                             *)
(***************************************************************************)
EXTENDS Integers, Sequences, SequencesExt, FiniteSets

CONSTANTS Questions, Unlimited,   \* what select() is asked; max_cost None
          Capabilities,           \* what the registry is created with
          Registrable             \* what may be registered later

ASSUME RegistryAssumption ==
    /\ \A q \in Questions : q.maxCost \in Nat \cup {Unlimited}
    /\ \A c \in Capabilities \cup Registrable : c.cost \in Nat
    /\ \A c, d \in Capabilities : c.dataset = d.dataset => c = d

VARIABLES registry, question

registryVars == <<registry, question>>

RejectionReason ==
    {"variable_not_served", "outside_coverage", "outside_temporal_coverage",
     "over_budget", "requires_auth"}

Everywhere == {"arabian", "bengal", "atlantic"}
IndianOcean == {"arabian", "bengal"}
Waves == {"significant_wave_height", "peak_wave_period", "mean_wave_direction", "swell_height"}
Wind == {"wind_speed", "wind_direction"}
Ongoing == 9999

Capability(id, source, vars, box, rank, reliability, cost, auth, from, to) ==
    [dataset |-> id, source |-> source, variables |-> vars, coverage |-> box,
     rank |-> rank, reliability |-> reliability, cost |-> cost, auth |-> auth,
     from |-> from, to |-> to]

DefaultCapabilities ==
    {Capability("open_meteo_marine", "open_meteo_marine", Waves, Everywhere, 4, 60, 0, FALSE, 0, Ongoing),
     Capability("cmems_mod_glo_wav_anfc", "cmems", Waves, Everywhere, 2, 80, 1, TRUE, 0, Ongoing),
     Capability("incois_tmi_3day_datasets", "incois_erddap", {"sea_surface_temperature"},
                Everywhere, 1, 85, 0, FALSE, 1997, 2014),
     Capability("incois_oceansat2_datasets", "incois_erddap", {"chlorophyll"},
                Everywhere, 1, 75, 0, FALSE, 2011, 2020),
     Capability("imd_marine_bulletins", "imd", Wind, IndianOcean, 1, 90, 1, TRUE, 0, Ongoing),
     Capability("niot_omni_buoys", "niot_omni",
                {"significant_wave_height", "sea_surface_temperature"} \cup Wind,
                IndianOcean, 1, 95, 1, TRUE, 0, Ongoing)}

\* coverage_bbox.intersects(bbox).
Covers(c, box) == c.coverage \cap box # {}

CoversTime(c, at) == c.from <= at /\ at <= c.to

\* `if max_cost and ...`, by which nothing is taken for no limit.
MutZeroIsNoBudget(c, q) == q.maxCost \in {0, Unlimited} \/ c.cost <= q.maxCost

WithinBudget(c, q) == q.maxCost = Unlimited \/ c.cost <= q.maxCost

\* The first reason that applies; "selected" when none does.
Verdict(c, q) ==
    IF q.variable \notin c.variables THEN "variable_not_served"
    ELSE IF ~Covers(c, q.box) THEN "outside_coverage"
    ELSE IF ~CoversTime(c, q.at) THEN "outside_temporal_coverage"
    ELSE IF ~WithinBudget(c, q) THEN "over_budget"
    ELSE IF c.auth /\ (~q.allowAuth \/ c.source \notin q.credentials) THEN "requires_auth"
    ELSE "selected"

Prefer(c, d) ==
    \/ c.rank < d.rank
    \/ c.rank = d.rank /\ c.reliability > d.reliability
    \/ c.rank = d.rank /\ c.reliability = d.reliability /\ c.cost < d.cost

Selected(q) == {c \in registry : Verdict(c, q) = "selected"}
Select(q) == SetToSortSeq(Selected(q), Prefer)
Rejected(q) == {[dataset |-> c.dataset, reason |-> Verdict(c, q)] : c \in registry \ Selected(q)}

RegistryInit == registry = Capabilities /\ question \in Questions

Register(c) ==
    /\ \A d \in registry : d.dataset # c.dataset
    /\ registry' = registry \cup {c}
    /\ UNCHANGED question

AskAgain == question' \in Questions /\ UNCHANGED registry

RegistryNext == AskAgain \/ \E c \in Registrable : Register(c)

RegistrySpec == RegistryInit /\ [][RegistryNext]_registryVars

-----------------------------------------------------------------------------
Narrower(p, q) ==
    /\ p.variable = q.variable /\ p.at = q.at /\ p.box \subseteq q.box
    /\ q.maxCost = Unlimited \/ (p.maxCost # Unlimited /\ p.maxCost <= q.maxCost)
    /\ p.allowAuth => q.allowAuth
    /\ p.credentials \subseteq q.credentials

\* A budget, a credential, a wider box or a registration more never loses a
\* dataset (registry.py:10, "filtered on hard constraints"), down to a budget
\* of nothing, which is not the absence of one.
MoreIsAnsweredByMore ==
    [][Narrower(question, question') => Selected(question) \subseteq Selected(question)']_registryVars
=============================================================================
