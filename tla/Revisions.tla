------------------------------ MODULE Revisions ------------------------------
(***************************************************************************)
(* The revision tables as collectors and imports fill them while others    *)
(* read: a row's system_known_at is the database clock at its insert, but  *)
(* readers see the row only when its transaction commits.                  *)
(***************************************************************************)
EXTENDS RevisionRows

CONSTANTS
    Arrival,        \* rows providers may deliver, without system
    Earlier,        \* sets of ids that may be there from the start
    MaxArrivals,    \* bound on rows inserted after the start
    MaxClock        \* bound on the database clock

\* Ids are primary keys, times are integers, and tables are finite.
ASSUME RevisionsAssumption ==
    /\ \A a \in Arrival : a.id \in Int /\ a.obs \in Int /\ a.source \in Int
    /\ \A a, b \in Arrival : a.id = b.id => a = b
    /\ \A S \in Earlier : IsFiniteSet(S)

VARIABLES
    revisions,      \* rows of the three tables
    unsettled,      \* ids of rows whose transaction is open
    clock           \* the database clock

revisionVars == <<revisions, unsettled, clock>>

Stamped(a, t) ==
    [id |-> a.id, kind |-> a.kind, of |-> a.of, in |-> a.in, obs |-> a.obs,
     value |-> a.value, source |-> a.source, system |-> t, raw |-> a.raw]

RevisionInit ==
    /\ \E S \in Earlier : revisions = {Stamped(a, 0) : a \in {b \in Arrival : b.id \in S}}
    /\ unsettled = {}
    /\ clock = 1

Visible == {r \in revisions : r.id \notin unsettled}

Late == {r \in revisions : r.system > 0}

\* INSERT ... ON CONFLICT DO NOTHING in a collector's or import's transaction.
InsertRevision(a) ==
    /\ Cardinality(Late) < MaxArrivals
    /\ \A r \in revisions : r.id # a.id
    /\ revisions' = revisions \cup {Stamped(a, clock)}
    /\ unsettled' = unsettled \cup {a.id}
    /\ UNCHANGED clock

CommitRevision(a) ==
    /\ a.id \in unsettled
    /\ unsettled' = unsettled \ {a.id}
    /\ UNCHANGED <<revisions, clock>>

RollbackRevision(a) ==
    /\ a.id \in unsettled
    /\ unsettled' = unsettled \ {a.id}
    /\ revisions' = {r \in revisions : r.id # a.id}
    /\ UNCHANGED clock

Tick == clock < MaxClock /\ clock' = clock + 1 /\ UNCHANGED <<revisions, unsettled>>

RevisionNext(A) ==
    \/ \E a \in A : InsertRevision(a) \/ CommitRevision(a) \/ RollbackRevision(a)
    \/ Tick

\* Nothing that is still to commit, or to be inserted, can be known by t.
SettledBy(t) == t < clock /\ \A r \in revisions : r.id \in unsettled => r.system > t
=============================================================================
