------------------------------ MODULE Scenarios ------------------------------
(***************************************************************************)
(* Submission of a scenario run: CreateVersionAndRun of                    *)
(* internal/application/scenarios/service.go, as risk.Service.Submit calls *)
(* it, on scenarios, scenario_versions, risk_jobs and scenario_runs.       *)
(*                                                                         *)
(* The transaction is READ COMMITTED and its statements are steps; lock    *)
(* names the transaction that holds an advisory lock, a row or an entry of *)
(* a unique index.  A request also holds one of the MaxConns connections   *)
(* of the pool from Begin until it returns.                                *)
(*                                                                         *)
(* A Body is all that the fingerprint of a request covers but scenario_id: *)
(* account, snapshot, valuation, template and shocks.  The name is not     *)
(* part of it.  The run, its job and its version are inserted together.    *)
(***************************************************************************)
EXTENDS Naturals, FiniteSets

CONSTANTS
    Scenario,       \* ids of rows of scenarios
    Fresh,          \* a request without a scenario_id
    Key,            \* idempotency keys
    Name,
    Body,
    AccountOf,      \* the account a body names
    Sealable,       \* bodies whose valuation is valid and belongs to the snapshot
    Client,
    Sent,           \* the requests that clients send
    Nobody,
    MaxConns        \* the size of the connection pool

ASSUME ScenarioAssumption ==
    /\ Fresh \notin Scenario
    /\ Nobody \notin Client
    /\ Sealable \subseteq Body
    /\ AccountOf \in [Body -> {AccountOf[b] : b \in Body}]
    /\ MaxConns \in Nat \ {0}
    /\ Sent # {}
    /\ Sent \subseteq [key : Key, scenario : Scenario \cup {Fresh}, name : Name, body : Body]

VARIABLES
    scenario,       \* the committed rows of scenarios, NoRow where there is none
    runs,           \* the committed runs with their versions and jobs
    lock,           \* who holds each lockable thing
    phase,          \* the next statement of each request
    request,        \* what each client has sent
    target,         \* input.ScenarioID of each request, once it is known
    version,        \* the version it was given by UPDATE ... RETURNING
    answer          \* what it was told

scenarioVars == <<scenario, runs, lock, phase, request, target, version, answer>>

Account == {AccountOf[b] : b \in Body}
NoRow   == [account |-> "none", name |-> "none", version |-> 0]
Row     == [account : Account, name : Name, version : Nat]
Request == [key : Key, scenario : Scenario \cup {Fresh}, name : Name, body : Body]
Run     == [key : Key, scenario : Scenario, version : Nat, body : Body,
            asked : Scenario \cup {Fresh}]

Lockable == ({"key"} \X Key) \cup ({"row"} \X Scenario)
                \cup ({"name"} \X (Account \X Name))

Phase  == {"idle", "begin", "key", "lookup", "scenario", "version", "commit",
           "conflict"}
Answer == {"none", "created", "replayed", "invalid", "conflict", "error"}

Exists(s) == scenario[s] # NoRow

ScenarioInit ==
    /\ scenario = [s \in Scenario |-> NoRow]
    /\ runs = {}
    /\ lock = [l \in Lockable |-> Nobody]
    /\ phase = [w \in Client |-> "idle"]
    /\ request \in [Client -> {CHOOSE r \in Sent : TRUE}]
    /\ target = [w \in Client |-> Fresh]
    /\ version = [w \in Client |-> 0]
    /\ answer = [w \in Client |-> "none"]

-----------------------------------------------------------------------------
(* Connections and locks.                                                  *)

\* Requests that hold a connection.
Connected == {w \in Client : phase[w] \notin {"idle", "begin"}}

Free(l, w) == lock[l] \in {Nobody, w}
Take(l, w) == lock' = [lock EXCEPT ![l] = w]

\* Variant of Release for a transaction that is neither committed nor rolled back.
ReleaseNothing(w) == UNCHANGED lock

Release(w) == lock' = [l \in Lockable |-> IF lock[l] = w THEN Nobody ELSE lock[l]]

AccountNamed(w) == AccountOf[request[w].body]
NameEntry(w) == <<"name", <<AccountNamed(w), request[w].name>>>>

Goto(w, ph) ==
    /\ phase' = [phase EXCEPT ![w] = ph]
    /\ UNCHANGED <<request, answer>>

\* The method returns: commit or deferred rollback, and the connection goes back.
Reply(w, a) ==
    /\ phase' = [phase EXCEPT ![w] = "idle"]
    /\ answer' = [answer EXCEPT ![w] = a]
    /\ target' = [target EXCEPT ![w] = Fresh]
    /\ version' = [version EXCEPT ![w] = 0]
    /\ Release(w)
    /\ UNCHANGED request

-----------------------------------------------------------------------------
(* The statements of CreateVersionAndRun.                                  *)

Submit(w, r) ==
    /\ phase[w] = "idle"
    /\ phase' = [phase EXCEPT ![w] = "begin"]
    /\ request' = [request EXCEPT ![w] = r]
    /\ target' = [target EXCEPT ![w] = r.scenario]
    /\ answer' = [answer EXCEPT ![w] = "none"]
    /\ UNCHANGED <<scenario, runs, lock, version>>

Begin(w) ==
    /\ phase[w] = "begin"
    /\ Cardinality(Connected) < MaxConns
    /\ Goto(w, "key")
    /\ UNCHANGED <<scenario, runs, lock, target, version>>

\* Variant of LockKey without pg_advisory_xact_lock.
SkipLockKey(w) ==
    /\ phase[w] = "key"
    /\ Goto(w, "lookup")
    /\ UNCHANGED <<scenario, runs, lock, target, version>>

\* pg_advisory_xact_lock of the idempotency key.
LockKey(w) ==
    /\ phase[w] = "key"
    /\ Free(<<"key", request[w].key>>, w)
    /\ Take(<<"key", request[w].key>>, w)
    /\ Goto(w, "lookup")
    /\ UNCHANGED <<scenario, runs, target, version>>

RunsOf(k) == {r \in runs : r.key = k}

\* Variant of SameRequest that compares only account and content.
SameRequestAnyScenario(r, q) == r.body = q.body

\* The stored run against the request: account, snapshot, content and fingerprint.
SameRequest(r, q) == r.body = q.body /\ r.asked = q.scenario

\* loadSealedValuation: only reads, of rows that never change.
Sealed(w) == request[w].body \in Sealable

\* The run of the key, if there is one; else the valuation is loaded.
Lookup(w) ==
    /\ phase[w] = "lookup"
    /\ IF RunsOf(request[w].key) = {} /\ Sealed(w)
       THEN Goto(w, "scenario") /\ UNCHANGED <<lock, target, version>>
       ELSE Reply(w, IF \E r \in RunsOf(request[w].key) : SameRequest(r, request[w])
                     THEN "replayed" ELSE "invalid")
    /\ UNCHANGED <<scenario, runs>>

\* Another request has a row with the name, committed or about to be.
NameTaken(w) ==
    \E s \in Scenario : /\ scenario[s].account = AccountNamed(w)
                        /\ scenario[s].name = request[w].name

\* INSERT INTO scenarios; a duplicate aborts the transaction, which drops its
\* locks but keeps its connection.
CreateScenario(w) ==
    /\ phase[w] = "scenario" /\ target[w] = Fresh
    /\ Free(NameEntry(w), w)
    /\ IF NameTaken(w)
       THEN Release(w) /\ Goto(w, "conflict") /\ UNCHANGED target
       ELSE \E s \in Scenario :
               /\ ~ Exists(s)
               /\ \A v \in Client : target[v] = s => phase[v] \notin {"version", "commit"}
               /\ target' = [target EXCEPT ![w] = s]
               /\ Take(NameEntry(w), w)
               /\ Goto(w, "version")
    /\ UNCHANGED <<scenario, runs, version>>

\* Variant of RowFree for statements that wait for no other transaction's row:
\* the version is read and counted up without a lock.
AnyRowFree(w) == TRUE

\* No other transaction has the row of the scenario; SELECT ... FOR UPDATE and
\* UPDATE both wait for it.
RowFree(w) == Exists(target[w]) => Free(<<"row", target[w]>>, w)

\* SELECT ... FOR UPDATE of the named scenario.
LockScenario(w) ==
    /\ phase[w] = "scenario" /\ target[w] # Fresh
    /\ RowFree(w)
    /\ IF Exists(target[w]) /\ scenario[target[w]].account = AccountNamed(w)
       THEN Take(<<"row", target[w]>>, w) /\ Goto(w, "version") /\ UNCHANGED <<target, version>>
       ELSE Reply(w, "invalid")
    /\ UNCHANGED <<scenario, runs>>

\* UPDATE scenarios SET current_version = current_version + 1 RETURNING, then
\* the inserts of the version, the job and the run.  The check of the snapshot's
\* account in between cannot fail: a sealed valuation has lines of the account.
InsertRun(w) ==
    /\ phase[w] = "version"
    /\ RowFree(w)
    /\ IF Exists(target[w]) THEN Take(<<"row", target[w]>>, w) ELSE UNCHANGED lock
    /\ version' = [version EXCEPT ![w] = scenario[target[w]].version + 1]
    /\ Goto(w, "commit")
    /\ UNCHANGED <<scenario, runs, target>>

\* COMMIT; its acknowledgement, or the read of the run after it, may fail.
CommitRun(w) ==
    LET s == target[w] IN
    /\ phase[w] = "commit"
    /\ scenario' = [scenario EXCEPT ![s] =
           [account |-> AccountNamed(w), version |-> version[w],
            name |-> IF Exists(s) THEN @.name ELSE request[w].name]]
    /\ runs' = runs \cup
           {[key |-> request[w].key, scenario |-> s, version |-> version[w],
             body |-> request[w].body, asked |-> request[w].scenario]}
    /\ \E a \in {"created", "error"} : Reply(w, a)

\* Variant of NameConflict that tries the whole submission again instead.
NameConflictRetried(w) ==
    /\ phase[w] = "conflict"
    /\ Goto(w, "key")
    /\ UNCHANGED <<scenario, runs, lock, target, version>>

\* The id of the conflicting scenario is read on another connection of the pool
\* while the aborted transaction still has its own.
NameConflict(w) ==
    /\ phase[w] = "conflict"
    /\ Cardinality(Connected) < MaxConns
    /\ Reply(w, "conflict")
    /\ UNCHANGED <<scenario, runs>>

\* A statement fails or the client goes away.
AbortSubmit(w) ==
    /\ phase[w] # "idle"
    /\ Reply(w, "error")
    /\ UNCHANGED <<scenario, runs>>

SubmitStep(w) ==
    \/ Begin(w) \/ LockKey(w) \/ Lookup(w) \/ CreateScenario(w)
    \/ LockScenario(w) \/ InsertRun(w) \/ CommitRun(w) \/ NameConflict(w)

ScenarioNext ==
    \E w \in Client :
        (\E r \in Sent : Submit(w, r)) \/ SubmitStep(w) \/ AbortSubmit(w)

ScenarioSpec == ScenarioInit /\ [][ScenarioNext]_scenarioVars

\* Statements that wait for a lock or a connection are served in turn.
FairScenarioSpec ==
    ScenarioSpec /\ \A w \in Client : SF_scenarioVars(SubmitStep(w))

-----------------------------------------------------------------------------
(* Properties.                                                             *)

\* Every variable holds a value of its type, and only transactions hold locks.
ScenarioTypeOK ==
    /\ scenario \in [Scenario -> Row \cup {NoRow}]
    /\ runs \subseteq Run
    /\ lock \in [Lockable -> Client \cup {Nobody}]
    /\ phase \in [Client -> Phase]
    /\ request \in [Client -> Request]
    /\ target \in [Client -> Scenario \cup {Fresh}]
    /\ version \in [Client -> Nat]
    /\ answer \in [Client -> Answer]
    /\ \A l \in Lockable : lock[l] # Nobody => lock[l] \in Connected

\* Each scenario's versions count up from one without gaps to current_version,
\* and each has exactly one run, whoever submits at the same time.
VersionsAreSerial ==
    \A s \in Scenario :
        /\ {r.version : r \in {q \in runs : q.scenario = s}} = 1 .. scenario[s].version
        /\ \A q, r \in runs :
              q.scenario = s /\ r.scenario = s /\ q.version = r.version => q = r

\* What a transaction has found out about its key stays true until it ends: no
\* other creates a run under it, so the insert of the job never collides and a
\* key never gets two runs.
KeyStaysFree ==
    \A w \in Client : phase[w] \in {"scenario", "version", "commit"}
        => RunsOf(request[w].key) = {}

\* A client that was told of a run finds, under its key, the run it asked for:
\* with its content, and as a version of the scenario it named.
RunIsTheOneAskedFor ==
    \A w \in Client : answer[w] \in {"created", "replayed"} =>
        \E r \in RunsOf(request[w].key) :
            /\ r.body = request[w].body
            /\ request[w].scenario \in {Fresh, r.scenario}
            /\ scenario[r.scenario].account = AccountNamed(w)

\* Name conflicts hold every connection of the pool, and each waits for another.
PoolExhausted ==
    /\ Cardinality(Connected) = MaxConns
    /\ \A w \in Connected : phase[w] = "conflict"

\* A submission is answered unless name conflicts come to hold the whole pool:
\* nobody waits in a circle for keys, names and rows, and for connections only
\* the requests do that report a name conflict, and those kept out by them.
OnlyConflictsWait ==
    \A w \in Client : phase[w] # "idle" ~> phase[w] = "idle" \/ PoolExhausted

\* A submission whose name is taken is told so: "NameConflictError names the
\* existing scenario so a caller can reuse it" (scenarios/service.go).  The id is
\* read on a second connection while the first is held, so as many conflicts as
\* the pool has connections wait for each other.
ConflictsAreAnswered ==
    \A w \in Client : phase[w] = "conflict" ~> answer[w] # "none"
=============================================================================
