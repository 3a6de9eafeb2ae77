---------------------------- MODULE RevisionRows ----------------------------
(***************************************************************************)
(* Rows of price_revisions, fx_quote_revisions and observation_revisions,  *)
(* and the order in which queries choose among them.  Rows are immutable:  *)
(* a correction is a new row for the same observation time.                *)
(*                                                                         *)
(* A row has an id, its kind ("price", "fx" or "observation"), what it is  *)
(* about (of: instrument, base currency or series; in: quote currency),    *)
(* its observation time, a value, the time the source published it or      *)
(* NoTime, the database clock when it was inserted, and the raw object it  *)
(* was parsed from.  Times and ids are integers, ids in the order of the   *)
(* UUIDs; prices, rates and quantities are integers.                       *)
(***************************************************************************)
EXTENDS Integers, FiniteSets, Sequences, FiniteSetsExt, SequencesExt

CONSTANTS
    DayLength,      \* instants in a day
    Digits          \* parts of a unit that a stored decimal keeps

NoTime == -1

Day(t) == t \div DayLength

\* ORDER BY over a list of ascending keys; a descending key is negated.
Before(x, y) ==
    \E i \in DOMAIN x : x[i] < y[i] /\ \A j \in 1..(i - 1) : x[j] = y[j]

\* The rows of a query in the order of their keys: the n-th has n - 1 before it.
InOrder(key) ==
    [n \in 1..Cardinality(DOMAIN key) |->
        CHOOSE x \in DOMAIN key : Cardinality({y \in DOMAIN key : Before(key[y], key[x])}) = n - 1]

\* Half away from zero of n/d to the stored digits, counted in 1/Digits.
RoundAway(n, d) ==
    LET a == IF n < 0 THEN -n ELSE n
        q == (2 * a * Digits + d) \div (2 * d) IN
    IF n < 0 THEN -q ELSE q

\* The knowledge clause of the queries: one clock or the other, never both.
Known(r, q) ==
    IF q.mode = "source_as_of"
    THEN r.source # NoTime /\ r.source <= q.knownAt
    ELSE r.system <= q.knownAt

EligibleRevision(r, q, maxAge) ==
    r.obs <= q.cutoff /\ q.cutoff - r.obs <= maxAge /\ Known(r, q)

\* The order clause: newest observation, then newest knowledge, then id.
SelectionKey(r, q) ==
    IF q.mode = "source_as_of"
    THEN <<-r.obs, -r.source, -r.system, r.id>>
    ELSE <<-r.obs, -r.system, r.id>>

FirstRow(S, q) ==
    CHOOSE r \in S : \A s \in S : s = r \/ Before(SelectionKey(r, q), SelectionKey(s, q))

Pair(r) == <<r.of, r.in>>

\* The comparison with which Go code sorts quotes of one conversion.
Preferred(x, y) ==
    IF x.obs # y.obs THEN x.obs > y.obs
    ELSE IF x.source # NoTime /\ y.source # NoTime /\ x.source # y.source
         THEN x.source > y.source
    ELSE IF x.system # y.system THEN x.system > y.system
    ELSE x.id < y.id
=============================================================================
