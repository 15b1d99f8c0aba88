------------------------------ MODULE ShoreDesk ------------------------------
(***************************************************************************)
(* The authority's desk (orca_alerts/workflows.py): boat recalls and       *)
(* broadcasts, addressed by what the boats last reported, and harbour      *)
(* advisories, all carried as CAP documents that stand until they expire.  *)
(* Boats move whether or not they report.                                  *)
(***************************************************************************)
EXTENDS Integers, FiniteSets, Absent

CONSTANTS Users, Zones,
          Members,      \* the users of the one fleet that can be addressed
          Harbour,      \* the zone the boats sail from
          Validity,     \* how long a document stands
          MaxDocuments, MaxClock

ASSUME DeskAssumption ==
    /\ Harbour \in Zones /\ None \notin Zones
    /\ None \notin [zone : Zones, atSea : BOOLEAN]

VARIABLES where,      \* where each boat is, None when it is ashore
          state,      \* what it last reported: [zone, atSea], None before any report
          documents,  \* the CAP documents on the wire
          deskClock

deskVars == <<where, state, documents, deskClock>>

DeskAreas == {{z} : z \in Zones} \cup {None}
Statuses == {"open", "restricted", "closed"}

DeskInit ==
    /\ where \in [Users -> {None, Harbour}]
    /\ state = [u \in Users |-> None]
    /\ documents = {} /\ deskClock = 0

\* The world: a boat puts out, moves, or lands, and its handset may report.
Move(u, zone) ==
    /\ where[u] # zone
    /\ where' = [where EXCEPT ![u] = zone]
    /\ UNCHANGED <<state, documents, deskClock>>

Fix(u) == [zone |-> IF where[u] = None THEN Harbour ELSE where[u], atSea |-> where[u] # None]

ReportPosition(u) ==
    /\ state[u] # Fix(u)
    /\ state' = [state EXCEPT ![u] = Fix(u)]
    /\ UNCHANGED <<where, documents, deskClock>>

DeskTick == /\ deskClock < MaxClock
        /\ deskClock' = deskClock + 1
        /\ documents' = {d \in documents : deskClock + 1 < d.expires}
        /\ UNCHANGED <<where, state>>

\* Subscriber.is_at_sea
IsAtSea(u) == state[u] # None /\ state[u].atSea

MutInAreaKnownOnly(u, area) == state[u] # None /\ state[u].zone \in area

InArea(u, area) == state[u] = None \/ state[u].zone \in area

\* dispatch_recall: the boats at sea, then those of them the area concerns.
Addressed(area) ==
    LET atSea == {u \in Users : IsAtSea(u)} IN
    IF area = None THEN atSea ELSE {u \in atSea : InArea(u, area)}

\* AuthorityBroadcast.recipients
Recipients(area, fleet) ==
    IF fleet THEN Members
    ELSE IF area = None THEN Users
    ELSE {u \in Users : InArea(u, area)}

Within(zone, area) == zone # None /\ (area = None \/ zone \in area)

\* recall_to_cap, harbour_advisory_to_cap and broadcast_to_cap: each renders
\* a new Alert that refers to no earlier document.
Document(workflow, about, says, recipients) ==
    [type |-> "Alert", references |-> None, workflow |-> workflow, about |-> about,
     says |-> says, recipients |-> recipients, sent |-> deskClock, expires |-> deskClock + Validity,
     \* for the properties: who was there, of whom the desk knew it, of whom nothing
     inside |-> {u \in Users : Within(where[u], about)},
     reported |-> {u \in Users : state[u] = Fix(u)},
     unknown |-> {u \in Users : state[u] = None}]

Publish(d) ==
    /\ Cardinality(documents) < MaxDocuments
    /\ documents' = documents \cup {d}
    /\ UNCHANGED <<where, state, deskClock>>

DispatchRecall(area) ==
    Publish(Document("boat_recall", area, "return", Addressed(area)))

\* HarbourAdvisory.response_type
ResponseType(status) == IF status = "open" THEN "AllClear" ELSE "Avoid"

\* An advisory is put on the wire; nobody is addressed by name.
AdviseHarbour(status) ==
    Publish(Document("harbour_advisory", {Harbour}, ResponseType(status), {}))

Broadcast(area, fleet) ==
    Publish(Document("authority_broadcast", area, IF fleet THEN "fleet" ELSE "area",
                     Recipients(area, fleet)))

DeskNext ==
    \/ \E u \in Users : ReportPosition(u)
    \/ \E u \in Users, z \in Zones \cup {None} : Move(u, z)
    \/ \E area \in DeskAreas : DispatchRecall(area)
    \/ \E status \in Statuses : AdviseHarbour(status)
    \/ \E area \in DeskAreas, fleet \in BOOLEAN : Broadcast(area, fleet)
    \/ DeskTick

DeskSpec == DeskInit /\ [][DeskNext]_deskVars

-----------------------------------------------------------------------------
Recalls == {d \in documents : d.workflow = "boat_recall"}

\* A boat that is in the area and whose last report still describes it is
\* recalled, and nobody who reported being ashore or elsewhere is.
ReportedBoatsAreRecalled ==
    \A d \in Recalls : \A u \in d.reported : u \in d.recipients <=> u \in d.inside

\* A broadcast to an area leaves out no boat that is there unless the boat has
\* said it is somewhere else, and so reaches all that a recall would.
BroadcastsErrWide ==
    \A d \in documents :
        d.says = "area" => (d.inside \ d.recipients) \cap (d.reported \cup d.unknown) = {}

\* "Vessels with no position ARE included when the recall has an area ... an
\* unknown position is not evidence of safety" (workflows.py:428).
UnknownBoatsAreRecalled ==
    \A d \in Recalls : d.about # None => d.unknown \subseteq d.recipients

\* Without a reference to what it supersedes an update is "a second,
\* contradictory warning" (cap.py:298): a reopened harbour's closure does not
\* stand beside its all-clear.
HarbourSaysOneThing ==
    \A c, d \in documents :
        (c.workflow = "harbour_advisory" /\ d.workflow = "harbour_advisory" /\ c.sent < d.sent)
        => c.says = d.says \/ d.references # None
=============================================================================
