----------------------------- MODULE MCScenarios -----------------------------
(* Instances of Scenarios for TLC: three requests of one account about two *)
(* scenarios of one name, of which the third key lets two add versions to  *)
(* the scenario that the first has created.                                *)
EXTENDS Scenarios, TLC

CONSTANTS s1, s2, k1, k2, k3, b1, b2, b3, w1, w2

\* The third body belongs to another account.
MCAccountOf == [b \in Body |-> IF b = b3 THEN "a2" ELSE "a1"]

\* Requests of the first account for a new scenario, for the first one and, under
\* one key, for the second; one whose valuation is not usable; one of another
\* account, which may come upon a scenario that is not its own.
MCSent ==
    {r \in [key : Key, scenario : Scenario \cup {Fresh}, name : Name, body : Body] :
        \/ r.body = b1 /\ (r.scenario = s2 => r.key = k1)
        \/ r.body = b2 /\ r.key = k1 /\ r.scenario = Fresh
        \/ r.body = b3 /\ r.key = k1 /\ r.scenario = s1}
==============================================================================
