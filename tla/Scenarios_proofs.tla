-------------------------- MODULE Scenarios_proofs --------------------------
(***************************************************************************)
(* Proofs about Scenarios, for any clients, keys, scenarios, bodies and    *)
(* pool size.                                                              *)
(*                                                                         *)
(* None of the properties is inductive.  That versions are serial rests on *)
(* who holds which lock from the statement that reads until the one that   *)
(* commits: the key from LockKey on, the row of an existing scenario, or   *)
(* the name of one that is being created.  ScenarioInv says so, client by  *)
(* client: a step changes one client and takes no lock from another.       *)
(***************************************************************************)
EXTENDS Scenarios, TLAPS

Writing(w) == phase[w] \in {"version", "commit"}

\* From the advisory lock on, the key belongs to the transaction.
KeyIsHeld(w) ==
    phase[w] \in {"lookup", "scenario", "version", "commit"}
        => lock[<<"key", request[w].key>>] = w

\* The scenario that is written is the one asked for, or a new one.
TargetIsAskedFor(w) ==
    /\ phase[w] \in {"begin", "key", "lookup", "scenario"}
          => target[w] = request[w].scenario
    /\ Writing(w) => target[w] \in Scenario /\ request[w].scenario \in {Fresh, target[w]}

\* A writer owns the row it adds a version to, or the name of the row it creates.
TargetIsHeld(w) ==
    Writing(w) =>
        /\ Exists(target[w]) => /\ lock[<<"row", target[w]>>] = w
                                /\ scenario[target[w]].account = AccountNamed(w)
        /\ ~ Exists(target[w]) => lock[NameEntry(w)] = w /\ ~ NameTaken(w)

\* The version returned by UPDATE is still the next one at COMMIT.
VersionIsNext(w) ==
    phase[w] = "commit" => version[w] = scenario[target[w]].version + 1

\* What a client has found out about its key, and what it was told.
KeyIsFree(w) ==
    phase[w] \in {"scenario", "version", "commit"} => RunsOf(request[w].key) = {}

WasToldTheTruth(w) ==
    answer[w] \in {"created", "replayed"} =>
        \E r \in RunsOf(request[w].key) :
            /\ r.body = request[w].body
            /\ request[w].scenario \in {Fresh, r.scenario}
            /\ scenario[r.scenario].account = AccountNamed(w)

ClientInv(w) ==
    /\ KeyIsHeld(w)
    /\ TargetIsAskedFor(w)
    /\ TargetIsHeld(w)
    /\ VersionIsNext(w)
    /\ KeyIsFree(w)
    /\ WasToldTheTruth(w)

\* No two writers are at the same scenario.
TargetsDiffer ==
    \A v, w \in Client : Writing(v) /\ Writing(w) /\ target[v] = target[w] => v = w

\* A committed row has a version, and no other has its account and name: the
\* unique index of scenarios is never violated.
NamesAreUnique ==
    \A s \in Scenario : Exists(s) =>
        /\ scenario[s].version > 0
        /\ \A t \in Scenario : /\ Exists(t)
                               /\ scenario[t].account = scenario[s].account
                               /\ scenario[t].name = scenario[s].name
                               => s = t

\* A run is a version of a scenario of its account, the one it asked for.
RunsStand ==
    \A r \in runs : /\ Exists(r.scenario)
                    /\ scenario[r.scenario].account = AccountOf[r.body]
                    /\ r.asked \in {Fresh, r.scenario}

\* An idempotency key has at most one run.
OneRunPerKey == \A q, r \in runs : q.key = r.key => q = r

TableInv == NamesAreUnique /\ RunsStand /\ OneRunPerKey /\ VersionsAreSerial

ScenarioInv ==
    /\ ScenarioTypeOK
    /\ TableInv
    /\ TargetsDiffer
    /\ \A w \in Client : ClientInv(w)

-----------------------------------------------------------------------------
(* Facts about the operators.                                              *)

\* What can be locked: keys, rows and names.
LEMMA LockableFacts ==
  /\ \A k \in Key : <<"key", k>> \in Lockable
  /\ \A s \in Scenario : <<"row", s>> \in Lockable
  /\ \A a \in Account, n \in Name : <<"name", <<a, n>>>> \in Lockable
  BY DEF Lockable

\* A request has the parts of a request, and names an account.
LEMMA RequestFacts ==
  ASSUME ScenarioTypeOK, NEW w \in Client
  PROVE  /\ request[w].key \in Key
         /\ request[w].scenario \in Scenario \cup {Fresh}
         /\ request[w].name \in Name
         /\ request[w].body \in Body
         /\ AccountNamed(w) \in Account
         /\ NameEntry(w) \in Lockable
         /\ <<"key", request[w].key>> \in Lockable
  <1>1. /\ request[w].key \in Key
        /\ request[w].scenario \in Scenario \cup {Fresh}
        /\ request[w].name \in Name
        /\ request[w].body \in Body
    BY DEF ScenarioTypeOK, Request
  <1>2. AccountNamed(w) \in Account
    BY <1>1 DEF AccountNamed, Account
  <1> QED BY <1>1, <1>2, LockableFacts DEF NameEntry

\* A row has a version, which is 0 where there is no row.
LEMMA RowFacts ==
  ASSUME ScenarioTypeOK, NEW s \in Scenario
  PROVE  /\ scenario[s].version \in Nat
         /\ Exists(s) => scenario[s] \in Row
         /\ ~ Exists(s) => scenario[s].version = 0
  BY DEF ScenarioTypeOK, Row, NoRow, Exists

\* Taking a free lock takes it from nobody.
LEMMA TakeFacts ==
  ASSUME ScenarioTypeOK, NEW l \in Lockable, NEW w \in Client, Free(l, w), Take(l, w)
  PROVE  /\ lock'[l] = w
         /\ \A m \in Lockable, v \in Client : lock[m] = v => lock'[m] = v
         /\ \A m \in Lockable : lock'[m] \in {w, lock[m]}
         /\ lock' \in [Lockable -> Client \cup {Nobody}]
  BY ScenarioAssumption DEF ScenarioTypeOK, Free, Take

\* A transaction that ends gives up its own locks and no others.
LEMMA ReleaseFacts ==
  ASSUME ScenarioTypeOK, NEW w \in Client, Release(w)
  PROVE  /\ \A m \in Lockable, v \in Client \ {w} : lock[m] = v => lock'[m] = v
         /\ \A m \in Lockable : lock'[m] # w /\ lock'[m] \in {Nobody, lock[m]}
         /\ lock' \in [Lockable -> Client \cup {Nobody}]
  BY ScenarioAssumption DEF ScenarioTypeOK, Release

-----------------------------------------------------------------------------
(* The invariant holds initially.                                          *)

\* No request has been sent and no table has a row.
LEMMA InitEstablishes == ScenarioInit => ScenarioInv
  <1> SUFFICES ASSUME ScenarioInit PROVE ScenarioInv
    OBVIOUS
  <1>1. (CHOOSE r \in Sent : TRUE) \in Request
    BY ScenarioAssumption DEF Request
  <1>2. ScenarioTypeOK
    BY <1>1 DEF ScenarioInit, ScenarioTypeOK, Phase, Answer
  <1>3. TargetsDiffer /\ \A w \in Client : ClientInv(w)
    BY DEF ScenarioInit, ClientInv, KeyIsHeld, TargetIsAskedFor, TargetIsHeld, TargetsDiffer,
           VersionIsNext, KeyIsFree, WasToldTheTruth, Writing
  <1>4. TableInv
    <2>1. \A s \in Scenario : {r.version : r \in {q \in runs : q.scenario = s}} = {}
      BY DEF ScenarioInit
    <2>2. \A s \in Scenario : 1 .. scenario[s].version = {}
      BY DEF ScenarioInit, NoRow
    <2>3. VersionsAreSerial
      BY <2>1, <2>2 DEF ScenarioInit, VersionsAreSerial
    <2> QED BY <2>3 DEF ScenarioInit, TableInv, NamesAreUnique, RunsStand, OneRunPerKey, Exists
  <1> QED BY <1>2, <1>3, <1>4 DEF ScenarioInv

-----------------------------------------------------------------------------
(* Steps that write neither table.                                         *)

\* Rows and runs that do not change keep all that is said of them.
LEMMA TablesStay ==
  ASSUME TableInv, UNCHANGED <<scenario, runs>>
  PROVE  TableInv'
  BY DEF TableInv, NamesAreUnique, RunsStand, OneRunPerKey, VersionsAreSerial, Exists

\* A client that does not take the step, and keeps its locks.
Untouched(v) ==
    /\ phase'[v] = phase[v] /\ request'[v] = request[v] /\ target'[v] = target[v]
    /\ version'[v] = version[v] /\ answer'[v] = answer[v]
    /\ \A m \in Lockable : lock[m] = v => lock'[m] = v

\* What is known of a client stays known while another one reads.
LEMMA UntouchedKeeps ==
  ASSUME ScenarioTypeOK, NEW v \in Client, ClientInv(v), Untouched(v),
         UNCHANGED <<scenario, runs>>
  PROVE  ClientInv(v)'
  <1>1. NameEntry(v)' = NameEntry(v) /\ AccountNamed(v)' = AccountNamed(v)
    BY DEF NameEntry, AccountNamed, Untouched
  <1>2. NameTaken(v)' <=> NameTaken(v)
    BY <1>1 DEF NameTaken, Untouched
  <1>3. Writing(v)' <=> Writing(v)
    BY DEF Writing, Untouched
  <1>4. KeyIsHeld(v)'
    BY RequestFacts DEF ClientInv, KeyIsHeld, Untouched
  <1>5. TargetIsAskedFor(v)'
    BY <1>3 DEF ClientInv, TargetIsAskedFor, Untouched
  <1>6. TargetIsHeld(v)'
    BY <1>1, <1>2, <1>3, RequestFacts, LockableFacts
       DEF ClientInv, TargetIsAskedFor, TargetIsHeld, Untouched, Exists
  <1>7. VersionIsNext(v)'
    BY DEF ClientInv, VersionIsNext, Untouched
  <1>8. KeyIsFree(v)' /\ WasToldTheTruth(v)'
    BY <1>1 DEF ClientInv, KeyIsFree, WasToldTheTruth, RunsOf, Untouched
  <1> QED BY <1>4, <1>5, <1>6, <1>7, <1>8 DEF ClientInv

\* A step of w that writes neither table: it is enough to look at w itself.
LEMMA OneClientMoves ==
  ASSUME ScenarioInv, NEW w \in Client, UNCHANGED <<scenario, runs>>,
         ScenarioTypeOK', \A v \in Client \ {w} : Untouched(v), ClientInv(w)',
         \A v \in Client \ {w} : Writing(v) /\ Writing(w)' => target[v] # target'[w]
  PROVE  ScenarioInv'
  <1>1. TableInv'
    BY TablesStay DEF ScenarioInv
  <1>2. \A v \in Client : ClientInv(v)'
    BY UntouchedKeeps DEF ScenarioInv
  <1>3. TargetsDiffer'
    BY DEF ScenarioInv, TargetsDiffer, Writing, Untouched
  <1> QED BY <1>1, <1>2, <1>3 DEF ScenarioInv

\* The end of a transaction that wrote nothing, whatever it is told, as long as
\* that is true.
LEMMA ReplyPreserves ==
  ASSUME ScenarioInv, NEW w \in Client, NEW a \in Answer, Reply(w, a),
         UNCHANGED <<scenario, runs>>,
         a \in {"created", "replayed"} =>
             \E r \in RunsOf(request[w].key) : SameRequest(r, request[w])
  PROVE  ScenarioInv'
  <1>0. ScenarioTypeOK /\ RunsStand
    BY DEF ScenarioInv, TableInv
  <1>1. /\ \A m \in Lockable, v \in Client \ {w} : lock[m] = v => lock'[m] = v
        /\ \A m \in Lockable : lock'[m] # w /\ lock'[m] \in {Nobody, lock[m]}
        /\ lock' \in [Lockable -> Client \cup {Nobody}]
    BY <1>0, ReleaseFacts DEF Reply
  <1>2. ScenarioTypeOK'
    BY <1>0, <1>1 DEF ScenarioTypeOK, Reply, Phase, Connected
  <1>3. phase'[w] = "idle" /\ answer'[w] = a /\ request' = request
    BY <1>0 DEF ScenarioTypeOK, Reply
  <1>4. \A v \in Client \ {w} : Untouched(v)
    BY <1>0, <1>1 DEF ScenarioTypeOK, Reply, Untouched
  <1>5. WasToldTheTruth(w)'
    BY <1>0, <1>3 DEF WasToldTheTruth, RunsOf, SameRequest, RunsStand, AccountNamed
  <1>6. ClientInv(w)'
    BY <1>3, <1>5 DEF ClientInv, KeyIsHeld, TargetIsAskedFor, TargetIsHeld, VersionIsNext,
                      KeyIsFree, Writing
  <1> QED BY <1>2, <1>3, <1>4, <1>6, OneClientMoves DEF Writing

\* A request is sent.
LEMMA SubmitPreserves ==
  ASSUME ScenarioInv, NEW w \in Client, NEW r \in Sent, Submit(w, r)
  PROVE  ScenarioInv'
  <1>0. ScenarioTypeOK /\ r \in Request
    BY ScenarioAssumption DEF ScenarioInv, Request
  <1>1. ScenarioTypeOK'
    BY <1>0 DEF ScenarioTypeOK, Submit, Phase, Answer, Request, Connected
  <1>2. \A v \in Client \ {w} : Untouched(v)
    BY <1>0 DEF ScenarioTypeOK, Submit, Untouched
  <1>3. /\ phase'[w] = "begin" /\ request'[w] = r /\ target'[w] = r.scenario
        /\ answer'[w] = "none"
    BY <1>0 DEF ScenarioTypeOK, Submit
  <1>4. ClientInv(w)'
    BY <1>3 DEF ClientInv, KeyIsHeld, TargetIsAskedFor, TargetIsHeld, VersionIsNext,
                KeyIsFree, WasToldTheTruth, Writing
  <1> QED BY <1>1, <1>2, <1>3, <1>4, OneClientMoves DEF Submit, Writing

\* A connection is taken from the pool.
LEMMA BeginPreserves ==
  ASSUME ScenarioInv, NEW w \in Client, Begin(w)
  PROVE  ScenarioInv'
  <1>0. ScenarioTypeOK /\ ClientInv(w)
    BY DEF ScenarioInv
  <1>1. ScenarioTypeOK'
    BY <1>0 DEF ScenarioTypeOK, Begin, Goto, Phase, Connected
  <1>2. \A v \in Client \ {w} : Untouched(v)
    BY <1>0 DEF ScenarioTypeOK, Begin, Goto, Untouched
  <1>3. phase'[w] = "key" /\ phase[w] = "begin"
    BY <1>0 DEF ScenarioTypeOK, Begin, Goto
  <1>4. WasToldTheTruth(w)'
    BY <1>0 DEF ClientInv, WasToldTheTruth, Begin, Goto, RunsOf, AccountNamed
  <1>5. ClientInv(w)'
    BY <1>0, <1>3, <1>4 DEF Begin, Goto, ClientInv, KeyIsHeld, TargetIsAskedFor,
                           TargetIsHeld, VersionIsNext, KeyIsFree, Writing
  <1> QED BY <1>1, <1>2, <1>3, <1>5, OneClientMoves DEF Begin, Writing

\* The key is locked.
LEMMA LockKeyPreserves ==
  ASSUME ScenarioInv, NEW w \in Client, LockKey(w)
  PROVE  ScenarioInv'
  <1>0. ScenarioTypeOK /\ ClientInv(w)
    BY DEF ScenarioInv
  <1> DEFINE l == <<"key", request[w].key>>
  <1>1. /\ lock'[l] = w
        /\ \A m \in Lockable, v \in Client : lock[m] = v => lock'[m] = v
        /\ \A m \in Lockable : lock'[m] \in {w, lock[m]}
        /\ lock' \in [Lockable -> Client \cup {Nobody}]
    <2> HIDE DEF l
    <2>1. l \in Lockable /\ Free(l, w) /\ Take(l, w)
      BY <1>0, RequestFacts DEF LockKey, l
    <2> QED BY <1>0, <2>1, TakeFacts
  <1>2. phase'[w] = "lookup" /\ phase[w] = "key" /\ request' = request
    BY <1>0 DEF ScenarioTypeOK, LockKey, Goto
  <1>3. ScenarioTypeOK'
    BY <1>0, <1>1, <1>2 DEF ScenarioTypeOK, LockKey, Goto, Phase, Connected
  <1>4. \A v \in Client \ {w} : Untouched(v)
    BY <1>0, <1>1 DEF ScenarioTypeOK, LockKey, Goto, Untouched
  <1>5. WasToldTheTruth(w)'
    BY <1>0 DEF ClientInv, WasToldTheTruth, LockKey, Goto, RunsOf, AccountNamed
  <1>6. ClientInv(w)'
    BY <1>0, <1>1, <1>2, <1>5 DEF LockKey, Goto, ClientInv, KeyIsHeld, TargetIsAskedFor,
                           TargetIsHeld, VersionIsNext, KeyIsFree, Writing
  <1> QED BY <1>2, <1>3, <1>4, <1>6, OneClientMoves DEF LockKey, Writing

\* The key is looked up: its run is replayed or refused, or there is none.
LEMMA LookupPreserves ==
  ASSUME ScenarioInv, NEW w \in Client, Lookup(w)
  PROVE  ScenarioInv'
  <1>0. ScenarioTypeOK /\ ClientInv(w)
    BY DEF ScenarioInv
  <1>1. CASE RunsOf(request[w].key) = {} /\ Sealed(w)
    <2>1. phase'[w] = "scenario" /\ phase[w] = "lookup" /\ request' = request
      BY <1>0, <1>1 DEF ScenarioTypeOK, Lookup, Goto
    <2>2. ScenarioTypeOK'
      BY <1>0, <1>1 DEF ScenarioTypeOK, Lookup, Goto, Phase, Connected
    <2>3. \A v \in Client \ {w} : Untouched(v)
      BY <1>0, <1>1 DEF ScenarioTypeOK, Lookup, Goto, Untouched
    <2>4. WasToldTheTruth(w)' /\ KeyIsFree(w)'
      BY <1>0, <1>1 DEF ClientInv, WasToldTheTruth, KeyIsFree, Lookup, Goto, RunsOf, AccountNamed
    <2>5. ClientInv(w)'
      BY <1>0, <1>1, <2>1, <2>4 DEF Lookup, Goto, ClientInv, KeyIsHeld, TargetIsAskedFor,
                                    TargetIsHeld, VersionIsNext, Writing
    <2> QED BY <2>1, <2>2, <2>3, <2>5, OneClientMoves DEF Lookup, Writing
  <1>2. CASE ~ (RunsOf(request[w].key) = {} /\ Sealed(w))
    <2> DEFINE a == IF \E r \in RunsOf(request[w].key) : SameRequest(r, request[w])
                    THEN "replayed" ELSE "invalid"
    <2>1. /\ a \in Answer
          /\ a \in {"created", "replayed"} =>
                \E r \in RunsOf(request[w].key) : SameRequest(r, request[w])
      BY DEF Answer
    <2>2. Reply(w, a) /\ UNCHANGED <<scenario, runs>>
      BY <1>2 DEF Lookup
    <2> QED BY <2>1, <2>2, ReplyPreserves
  <1> QED BY <1>1, <1>2

\* A new scenario is inserted, or its name turns out to be taken.
LEMMA CreateScenarioPreserves ==
  ASSUME ScenarioInv, NEW w \in Client, CreateScenario(w)
  PROVE  ScenarioInv'
  <1>0. ScenarioTypeOK /\ ClientInv(w) /\ UNCHANGED <<scenario, runs, version>>
    BY DEF ScenarioInv, CreateScenario
  <1>1. CASE NameTaken(w)
    <2>1. Release(w) /\ Goto(w, "conflict") /\ UNCHANGED target
      BY <1>1 DEF CreateScenario
    <2>2. /\ \A m \in Lockable, v \in Client \ {w} : lock[m] = v => lock'[m] = v
          /\ \A m \in Lockable : lock'[m] # w /\ lock'[m] \in {Nobody, lock[m]}
          /\ lock' \in [Lockable -> Client \cup {Nobody}]
      BY <1>0, <2>1, ReleaseFacts
    <2>3. phase'[w] = "conflict" /\ UNCHANGED <<request, answer>>
      BY <1>0, <2>1 DEF ScenarioTypeOK, Goto
    <2>4. ScenarioTypeOK'
      BY <1>0, <2>1, <2>2, <2>3 DEF ScenarioTypeOK, Goto, Phase, Connected
    <2>5. \A v \in Client \ {w} : Untouched(v)
      BY <1>0, <2>1, <2>2 DEF ScenarioTypeOK, Goto, Untouched
    <2>6. WasToldTheTruth(w)'
      BY <1>0, <2>3 DEF ClientInv, WasToldTheTruth, RunsOf, AccountNamed
    <2>7. ClientInv(w)'
      BY <2>3, <2>6 DEF ClientInv, KeyIsHeld, TargetIsAskedFor, TargetIsHeld, VersionIsNext,
                        KeyIsFree, Writing
    <2> QED BY <1>0, <2>3, <2>4, <2>5, <2>7, OneClientMoves DEF Writing
  <1>2. CASE ~ NameTaken(w)
    <2>1. PICK s \in Scenario :
             /\ ~ Exists(s)
             /\ \A v \in Client : target[v] = s => phase[v] \notin {"version", "commit"}
             /\ target' = [target EXCEPT ![w] = s]
             /\ Take(NameEntry(w), w)
             /\ Goto(w, "version")
      BY <1>2 DEF CreateScenario
    <2>2. /\ lock'[NameEntry(w)] = w
          /\ \A m \in Lockable, v \in Client : lock[m] = v => lock'[m] = v
          /\ \A m \in Lockable : lock'[m] \in {w, lock[m]}
          /\ lock' \in [Lockable -> Client \cup {Nobody}]
      <3>1. NameEntry(w) \in Lockable /\ Free(NameEntry(w), w) /\ Take(NameEntry(w), w)
        BY <1>0, <2>1, RequestFacts DEF CreateScenario
      <3> QED BY <1>0, <3>1, TakeFacts
    <2>3. /\ phase'[w] = "version" /\ phase[w] = "scenario" /\ target'[w] = s
          /\ target[w] = Fresh /\ UNCHANGED <<request, answer>>
      BY <1>0, <2>1 DEF ScenarioTypeOK, Goto, CreateScenario
    <2>4. ScenarioTypeOK'
      BY <1>0, <2>1, <2>2, <2>3 DEF ScenarioTypeOK, Goto, Phase, Connected
    <2>5. \A v \in Client \ {w} : Untouched(v)
      BY <1>0, <2>1, <2>2 DEF ScenarioTypeOK, Goto, Untouched
    <2>6. WasToldTheTruth(w)' /\ KeyIsFree(w)'
      BY <1>0, <2>3 DEF ClientInv, WasToldTheTruth, KeyIsFree, RunsOf, AccountNamed
    <2>7. KeyIsHeld(w)'
      BY <1>0, <2>2, <2>3, RequestFacts DEF ClientInv, KeyIsHeld
    <2>8. TargetIsAskedFor(w)' /\ VersionIsNext(w)'
      BY <1>0, <2>3 DEF ClientInv, TargetIsAskedFor, VersionIsNext, Writing
    <2>9. TargetIsHeld(w)'
      <3>1. NameEntry(w)' = NameEntry(w) /\ AccountNamed(w)' = AccountNamed(w)
        BY <2>3 DEF NameEntry, AccountNamed
      <3>2. ~ NameTaken(w)'
        BY <1>0, <1>2, <2>3, <3>1 DEF NameTaken
      <3> QED BY <1>0, <2>1, <2>2, <2>3, <3>1, <3>2 DEF TargetIsHeld, Exists
    <2>10. ClientInv(w)'
      BY <2>6, <2>7, <2>8, <2>9 DEF ClientInv
    <2> QED BY <1>0, <2>1, <2>3, <2>4, <2>5, <2>10, OneClientMoves DEF Writing
  <1> QED BY <1>1, <1>2

\* The row of the named scenario is locked, if it is one of the account's.
LEMMA LockScenarioPreserves ==
  ASSUME ScenarioInv, NEW w \in Client, LockScenario(w)
  PROVE  ScenarioInv'
  <1>0. ScenarioTypeOK /\ ClientInv(w) /\ UNCHANGED <<scenario, runs>>
    BY DEF ScenarioInv, LockScenario
  <1>1. CASE Exists(target[w]) /\ scenario[target[w]].account = AccountNamed(w)
    <2> DEFINE row == <<"row", target[w]>>
    <2>1. /\ Take(row, w) /\ Free(row, w) /\ Goto(w, "version")
          /\ UNCHANGED <<target, version>> /\ target[w] \in Scenario
      BY <1>0, <1>1 DEF LockScenario, RowFree, ScenarioTypeOK
    <2>2. /\ lock'[row] = w
          /\ \A m \in Lockable, v \in Client : lock[m] = v => lock'[m] = v
          /\ \A m \in Lockable : lock'[m] \in {w, lock[m]}
          /\ lock' \in [Lockable -> Client \cup {Nobody}]
      <3>1. row \in Lockable
        BY <2>1, LockableFacts
      <3> HIDE DEF row
      <3> QED BY <1>0, <2>1, <3>1, TakeFacts
    <2>3. phase'[w] = "version" /\ phase[w] = "scenario" /\ UNCHANGED <<request, answer>>
      BY <1>0, <2>1 DEF ScenarioTypeOK, Goto, LockScenario
    <2>4. ScenarioTypeOK'
      BY <1>0, <2>1, <2>2, <2>3 DEF ScenarioTypeOK, Goto, Phase, Connected
    <2>5. \A v \in Client \ {w} : Untouched(v)
      BY <1>0, <2>1, <2>2 DEF ScenarioTypeOK, Goto, Untouched
    <2>6. WasToldTheTruth(w)' /\ KeyIsFree(w)'
      BY <1>0, <2>3 DEF ClientInv, WasToldTheTruth, KeyIsFree, RunsOf, AccountNamed
    <2>7. KeyIsHeld(w)'
      BY <1>0, <2>2, <2>3, RequestFacts DEF ClientInv, KeyIsHeld
    <2>8. TargetIsAskedFor(w)' /\ VersionIsNext(w)'
      BY <1>0, <2>1, <2>3 DEF ClientInv, TargetIsAskedFor, VersionIsNext, Writing
    <2>9. TargetIsHeld(w)'
      BY <1>0, <1>1, <2>1, <2>2, <2>3 DEF TargetIsHeld, Exists, AccountNamed
    <2>10. ClientInv(w)'
      BY <2>6, <2>7, <2>8, <2>9 DEF ClientInv
    <2>11. ASSUME NEW v \in Client \ {w}, Writing(v) PROVE target[v] # target'[w]
      <3> SUFFICES ASSUME target[v] = target[w] PROVE FALSE
        BY <2>1
      <3>1. lock[row] = v
        BY <1>1, <2>11 DEF ScenarioInv, ClientInv, TargetIsHeld
      <3> QED BY <2>1, <3>1, ScenarioAssumption DEF Free
    <2> QED BY <1>0, <2>3, <2>4, <2>5, <2>10, <2>11, OneClientMoves
  <1>2. CASE ~ (Exists(target[w]) /\ scenario[target[w]].account = AccountNamed(w))
    <2>1. Reply(w, "invalid")
      BY <1>2 DEF LockScenario
    <2> QED BY <1>0, <2>1, ReplyPreserves DEF Answer
  <1> QED BY <1>1, <1>2

\* The next version is reserved in the transaction.
LEMMA InsertRunPreserves ==
  ASSUME ScenarioInv, NEW w \in Client, InsertRun(w)
  PROVE  ScenarioInv'
  <1>0. ScenarioTypeOK /\ ClientInv(w) /\ TargetsDiffer
    BY DEF ScenarioInv
  <1>1. phase[w] = "version"
    BY DEF InsertRun
  <1>2. target[w] \in Scenario
    BY <1>0, <1>1 DEF ClientInv, TargetIsAskedFor, Writing
  <1>3. UNCHANGED lock
    <2>1. CASE Exists(target[w])
      <3>1. lock[<<"row", target[w]>>] = w
        BY <1>0, <1>1, <2>1 DEF ClientInv, TargetIsHeld, Writing
      <3>2. lock' = [lock EXCEPT ![<<"row", target[w]>>] = w]
        BY <2>1 DEF InsertRun, Take
      <3>3. lock \in [Lockable -> Client \cup {Nobody}]
        BY <1>0 DEF ScenarioTypeOK
      <3> DEFINE row == <<"row", target[w]>>
      <3> HIDE DEF row
      <3>4. lock[row] = w /\ lock' = [lock EXCEPT ![row] = w]
        BY <3>1, <3>2 DEF row
      <3> QED BY <3>3, <3>4
    <2> QED BY <2>1 DEF InsertRun
  <1>4. /\ phase'[w] = "commit" /\ phase[w] = "version"
        /\ version'[w] = scenario[target[w]].version + 1
        /\ UNCHANGED <<scenario, runs, lock, target, request, answer>>
    BY <1>0, <1>1, <1>3 DEF ScenarioTypeOK, InsertRun, Goto
  <1>5. ScenarioTypeOK'
    <2>1. scenario[target[w]].version \in Nat
      BY <1>0, <1>2, RowFacts
    <2>2. version' \in [Client -> Nat]
      BY <1>0, <2>1 DEF ScenarioTypeOK, InsertRun
    <2> QED BY <1>0, <1>4, <2>2 DEF ScenarioTypeOK, InsertRun, Goto, Phase, Connected
  <1>6. \A v \in Client \ {w} : Untouched(v)
    BY <1>0, <1>3 DEF ScenarioTypeOK, InsertRun, Goto, Untouched
  <1>7. WasToldTheTruth(w)' /\ KeyIsFree(w)'
    BY <1>0, <1>4 DEF ClientInv, WasToldTheTruth, KeyIsFree, RunsOf, AccountNamed
  <1>8. TargetIsHeld(w)'
    BY <1>0, <1>4 DEF ClientInv, TargetIsHeld, Writing, Exists, NameEntry, AccountNamed, NameTaken
  <1>9. ClientInv(w)'
    BY <1>0, <1>2, <1>4, <1>7, <1>8 DEF ClientInv, KeyIsHeld, TargetIsAskedFor, VersionIsNext, Writing
  <1>10. \A v \in Client \ {w} : Writing(v) => target[v] # target'[w]
    BY <1>0, <1>4 DEF TargetsDiffer, Writing
  <1> QED BY <1>4, <1>5, <1>6, <1>9, <1>10, OneClientMoves

-----------------------------------------------------------------------------
(* COMMIT, the only step that writes the tables.                           *)

\* The row and the run that w commits.
RowOf(w) ==
    [account |-> AccountNamed(w), version |-> version[w],
     name |-> IF Exists(target[w]) THEN scenario[target[w]].name ELSE request[w].name]

RunCommitted(w) ==
    [key |-> request[w].key, scenario |-> target[w], version |-> version[w],
     body |-> request[w].body, asked |-> request[w].scenario]

\* What COMMIT does to the tables: the next version of one scenario, which keeps
\* its account and its name, and one run of a key that had none.
LEMMA CommitFacts ==
  ASSUME ScenarioInv, NEW w \in Client, CommitRun(w)
  PROVE  /\ target[w] \in Scenario /\ Writing(w) /\ phase[w] = "commit"
         /\ RowOf(w) \in Row /\ RowOf(w) # NoRow
         /\ RowOf(w).account = AccountNamed(w)
         /\ RowOf(w).version = scenario[target[w]].version + 1
         /\ RowOf(w).version \in Nat \ {0}
         /\ Exists(target[w]) => /\ scenario[target[w]].account = AccountNamed(w)
                                 /\ RowOf(w).name = scenario[target[w]].name
         /\ ~ Exists(target[w]) => RowOf(w).name = request[w].name
         /\ RunCommitted(w) \in Run
         /\ RunsOf(request[w].key) = {}
         /\ scenario' = [scenario EXCEPT ![target[w]] = RowOf(w)]
         /\ runs' = runs \cup {RunCommitted(w)}
         /\ \E a \in {"created", "error"} : Reply(w, a)
  <1>1. ScenarioTypeOK /\ ClientInv(w) /\ phase[w] = "commit"
    BY DEF ScenarioInv, CommitRun
  <1>2. /\ target[w] \in Scenario /\ RunsOf(request[w].key) = {}
        /\ version[w] = scenario[target[w]].version + 1
        /\ Exists(target[w]) => scenario[target[w]].account = AccountNamed(w)
    BY <1>1 DEF ClientInv, TargetIsAskedFor, TargetIsHeld, VersionIsNext, KeyIsFree, Writing
  <1>3. /\ scenario[target[w]].version \in Nat
        /\ Exists(target[w]) => scenario[target[w]] \in Row
    BY <1>1, <1>2, RowFacts
  <1>4. RowOf(w) \in Row /\ RowOf(w) # NoRow
    <2>1. AccountNamed(w) \in Account /\ request[w].name \in Name
      BY <1>1, RequestFacts
    <2>2. version[w] \in Nat /\ version[w] # 0
      BY <1>2, <1>3
    <2>3. RowOf(w).name \in Name
      BY <1>3, <2>1 DEF RowOf, Row
    <2> QED BY <2>1, <2>2, <2>3 DEF RowOf, Row, NoRow
  <1>5. RunCommitted(w) \in Run
    <2>1. /\ request[w].key \in Key /\ request[w].body \in Body
          /\ request[w].scenario \in Scenario \cup {Fresh}
      BY <1>1, RequestFacts
    <2>2. version[w] \in Nat
      BY <1>2, <1>3
    <2> QED BY <1>2, <2>1, <2>2 DEF RunCommitted, Run
  <1>6. scenario' = [scenario EXCEPT ![target[w]] = RowOf(w)]
    BY DEF CommitRun, RowOf
  <1>7. runs' = runs \cup {RunCommitted(w)} /\ \E a \in {"created", "error"} : Reply(w, a)
    BY DEF CommitRun, RunCommitted
  <1> QED BY <1>1, <1>2, <1>3, <1>4, <1>5, <1>6, <1>7 DEF RowOf, Writing

\* The tables after COMMIT.
LEMMA CommitTables ==
  ASSUME ScenarioInv, NEW w \in Client, CommitRun(w)
  PROVE  TableInv'
  <1> PICK s, new : s = target[w] /\ new = RunCommitted(w)
    OBVIOUS
  <1>0. ScenarioTypeOK /\ TableInv /\ TargetsDiffer /\ ClientInv(w)
    BY DEF ScenarioInv
  <1>1. /\ s \in Scenario /\ Writing(w)
        /\ RowOf(w) \in Row /\ RowOf(w) # NoRow
        /\ RowOf(w).account = AccountNamed(w)
        /\ RowOf(w).version = scenario[s].version + 1
        /\ RowOf(w).version \in Nat \ {0}
        /\ Exists(s) => scenario[s].account = AccountNamed(w) /\ RowOf(w).name = scenario[s].name
        /\ ~ Exists(s) => RowOf(w).name = request[w].name
        /\ RunsOf(request[w].key) = {}
        /\ runs' = runs \cup {new}
    BY CommitFacts
  <1>2. /\ scenario'[s] = RowOf(w)
        /\ \A t \in Scenario \ {s} : scenario'[t] = scenario[t]
    BY <1>0, <1>1, CommitFacts DEF ScenarioTypeOK
  <1>3. /\ Exists(s)'
        /\ \A t \in Scenario \ {s} : Exists(t)' <=> Exists(t)
    BY <1>1, <1>2 DEF Exists
  <1>4. /\ new.key = request[w].key /\ new.scenario = s /\ new.version = RowOf(w).version
        /\ new.body = request[w].body /\ new.asked = request[w].scenario
    BY DEF RunCommitted, RowOf
  <1>5. ~ Exists(s) => ~ NameTaken(w)
    BY <1>0, <1>1 DEF ClientInv, TargetIsHeld
  <1>6. NamesAreUnique'
    <2> SUFFICES ASSUME NEW t \in Scenario \ {s}, Exists(t),
                        scenario[t].account = AccountNamed(w), scenario[t].name = RowOf(w).name
                 PROVE  FALSE
      BY <1>0, <1>1, <1>2, <1>3 DEF NamesAreUnique, TableInv
    <2>1. CASE Exists(s)
      BY <1>0, <1>1, <2>1 DEF TableInv, NamesAreUnique
    <2>2. CASE ~ Exists(s)
      BY <1>1, <1>5, <2>2 DEF NameTaken
    <2> QED BY <2>1, <2>2
  <1>7. RunsStand'
    <2>1. new.asked \in {Fresh, new.scenario}
      BY <1>0, <1>1, <1>4 DEF ClientInv, TargetIsAskedFor
    <2>2. RunsStand!(new)'
      BY <1>1, <1>2, <1>3, <1>4, <2>1 DEF AccountNamed
    <2>3. ASSUME NEW r \in runs PROVE RunsStand!(r)'
      <3>1. /\ r.scenario \in Scenario /\ Exists(r.scenario)
            /\ scenario[r.scenario].account = AccountOf[r.body]
            /\ r.asked \in {Fresh, r.scenario}
        BY <1>0 DEF TableInv, RunsStand, ScenarioTypeOK, Run
      <3> QED BY <1>1, <1>2, <1>3, <3>1
    <2> QED BY <1>1, <2>2, <2>3 DEF RunsStand
  <1>8. OneRunPerKey'
    BY <1>0, <1>1, <1>4 DEF TableInv, OneRunPerKey, RunsOf
  <1>9. VersionsAreSerial'
    <2> SUFFICES ASSUME NEW t \in Scenario
                 PROVE  /\ {r.version : r \in {q \in runs' : q.scenario = t}}
                              = 1 .. scenario'[t].version
                        /\ \A q, r \in runs' :
                              q.scenario = t /\ r.scenario = t /\ q.version = r.version => q = r
      BY DEF VersionsAreSerial
    <2>1. /\ {r.version : r \in {q \in runs : q.scenario = t}} = 1 .. scenario[t].version
          /\ \A q, r \in runs :
                q.scenario = t /\ r.scenario = t /\ q.version = r.version => q = r
      BY <1>0 DEF TableInv, VersionsAreSerial
    <2>2. scenario[t].version \in Nat
      BY <1>0, RowFacts
    <2>3. CASE t = s
      <3>1. {q \in runs' : q.scenario = t} = {q \in runs : q.scenario = t} \cup {new}
        BY <1>1, <1>4, <2>3
      <3>2. 1 .. scenario'[t].version = (1 .. scenario[t].version) \cup {scenario[t].version + 1}
        BY <1>1, <1>2, <2>2, <2>3
      <3>3. \A r \in runs : r.scenario = t => r.version \in 1 .. scenario[t].version
        BY <2>1
      <3>4. \A r \in runs : r.scenario = t => r.version # new.version
        BY <1>1, <1>4, <2>2, <2>3, <3>3
      <3>5. {r.version : r \in {q \in runs' : q.scenario = t}}
               = (1 .. scenario[t].version) \cup {scenario[t].version + 1}
        BY <1>1, <1>4, <2>1, <2>3, <3>1
      <3> QED BY <1>1, <2>1, <3>2, <3>4, <3>5
    <2>4. CASE t # s
      <3>1. {q \in runs' : q.scenario = t} = {q \in runs : q.scenario = t}
        BY <1>1, <1>4, <2>4
      <3> QED BY <1>1, <1>2, <1>4, <2>1, <2>4, <3>1
    <2> QED BY <2>3, <2>4
  <1> QED BY <1>6, <1>7, <1>8, <1>9 DEF TableInv

\* Another client's knowledge survives COMMIT: its locks differ from those of w,
\* so its row, its name and its key are other ones.
LEMMA CommitLeavesOthers ==
  ASSUME ScenarioInv, NEW w \in Client, CommitRun(w), NEW v \in Client \ {w}
  PROVE  ClientInv(v)'
  <1> DEFINE s == target[w]
             new == RunCommitted(w)
  <1>0. /\ ScenarioTypeOK /\ TableInv /\ TargetsDiffer /\ ClientInv(w) /\ ClientInv(v)
    BY DEF ScenarioInv
  <1>1. /\ s \in Scenario /\ Writing(w) /\ phase[w] = "commit"
        /\ RowOf(w).account = AccountNamed(w)
        /\ Exists(s) => scenario[s].account = AccountNamed(w) /\ RowOf(w).name = scenario[s].name
        /\ ~ Exists(s) => RowOf(w).name = request[w].name
        /\ runs' = runs \cup {new}
        /\ new.key = request[w].key
        /\ \E a \in {"created", "error"} : Reply(w, a)
    BY CommitFacts DEF RunCommitted
  <1>2. /\ scenario'[s] = RowOf(w)
        /\ \A t \in Scenario \ {s} : scenario'[t] = scenario[t]
    BY <1>0, <1>1, CommitFacts DEF ScenarioTypeOK
  <1>3. Untouched(v)
    <2>1. \A m \in Lockable, u \in Client \ {w} : lock[m] = u => lock'[m] = u
      BY <1>0, <1>1, ReleaseFacts DEF Reply
    <2> QED BY <1>0, <1>1, <2>1 DEF ScenarioTypeOK, Reply, Untouched
  <1>4. NameEntry(v)' = NameEntry(v) /\ AccountNamed(v)' = AccountNamed(v)
    BY <1>3 DEF NameEntry, AccountNamed, Untouched
  <1>5. Writing(v)' <=> Writing(v)
    BY <1>3 DEF Writing, Untouched
  <1>6. KeyIsHeld(v)' /\ TargetIsAskedFor(v)'
    BY <1>0, <1>3, <1>5, RequestFacts DEF ClientInv, KeyIsHeld, TargetIsAskedFor, Untouched
  <1>7. Writing(v) => target[v] \in Scenario \ {s}
    BY <1>0, <1>1 DEF ClientInv, TargetIsAskedFor, TargetsDiffer
  <1>8. VersionIsNext(v)'
    BY <1>0, <1>2, <1>3, <1>7 DEF ClientInv, VersionIsNext, Untouched, Writing
  <1>9. TargetIsHeld(v)'
    <2> SUFFICES ASSUME Writing(v)
                 PROVE  /\ Exists(target[v]) => /\ lock'[<<"row", target[v]>>] = v
                                                /\ scenario[target[v]].account = AccountNamed(v)
                        /\ ~ Exists(target[v]) => lock'[NameEntry(v)] = v /\ ~ NameTaken(v)'
      BY <1>2, <1>3, <1>4, <1>5, <1>7 DEF TargetIsHeld, Exists, Untouched
    <2>1. CASE Exists(target[v])
      BY <1>0, <1>3, <1>7, <2>1, LockableFacts DEF ClientInv, TargetIsHeld, Untouched
    <2>2. CASE ~ Exists(target[v])
      <3>1. lock[NameEntry(v)] = v /\ ~ NameTaken(v) /\ lock'[NameEntry(v)] = v
        BY <1>0, <1>3, <2>2, RequestFacts DEF ClientInv, TargetIsHeld, Untouched
      <3>2. ~ (/\ RowOf(w).account = AccountNamed(v)
               /\ RowOf(w).name = request[v].name)
        <4>1. CASE Exists(s)
          BY <1>1, <3>1, <4>1 DEF NameTaken
        <4>2. CASE ~ Exists(s)
          <5>1. lock[NameEntry(w)] = w
            BY <1>0, <1>1, <4>2 DEF ClientInv, TargetIsHeld
          <5>2. NameEntry(w) # NameEntry(v)
            BY <3>1, <5>1
          <5> QED BY <1>1, <4>2, <5>2 DEF NameEntry
        <4> QED BY <4>1, <4>2
      <3>3. ~ NameTaken(v)'
        BY <1>1, <1>2, <1>3, <1>4, <3>1, <3>2 DEF NameTaken, Untouched
      <3> QED BY <2>2, <3>1, <3>3
    <2> QED BY <2>1, <2>2
  <1>10. KeyIsFree(v)'
    <2> SUFFICES ASSUME phase[v] \in {"scenario", "version", "commit"}
                 PROVE  \A r \in runs' : r.key # request[v].key
      BY <1>3 DEF KeyIsFree, RunsOf, Untouched
    <2>1. lock[<<"key", request[v].key>>] = v /\ RunsOf(request[v].key) = {}
      BY <1>0 DEF ClientInv, KeyIsHeld, KeyIsFree
    <2>2. lock[<<"key", request[w].key>>] = w
      BY <1>0, <1>1 DEF ClientInv, KeyIsHeld
    <2> QED BY <1>1, <2>1, <2>2 DEF RunsOf
  <1>11. WasToldTheTruth(v)'
    <2> SUFFICES ASSUME answer[v] \in {"created", "replayed"}
                 PROVE  \E r \in runs' : /\ r.key = request[v].key
                                         /\ r.body = request[v].body
                                         /\ request[v].scenario \in {Fresh, r.scenario}
                                         /\ scenario'[r.scenario].account = AccountNamed(v)
      BY <1>3, <1>4 DEF WasToldTheTruth, RunsOf, Untouched
    <2>1. PICK r \in runs : /\ r.key = request[v].key
                            /\ r.body = request[v].body
                            /\ request[v].scenario \in {Fresh, r.scenario}
                            /\ scenario[r.scenario].account = AccountNamed(v)
      BY <1>0 DEF ClientInv, WasToldTheTruth, RunsOf
    <2>2. r.scenario \in Scenario /\ Exists(r.scenario)
      BY <1>0 DEF TableInv, RunsStand, ScenarioTypeOK, Run
    <2>3. scenario'[r.scenario].account = scenario[r.scenario].account
      BY <1>1, <1>2, <2>2
    <2> QED BY <1>1, <2>1, <2>3
  <1> QED BY <1>6, <1>8, <1>9, <1>10, <1>11 DEF ClientInv

\* The run is committed with its version and its job.
LEMMA CommitRunPreserves ==
  ASSUME ScenarioInv, NEW w \in Client, CommitRun(w)
  PROVE  ScenarioInv'
  <1> DEFINE new == RunCommitted(w)
  <1>0. ScenarioTypeOK /\ TargetsDiffer /\ ClientInv(w)
    BY DEF ScenarioInv
  <1>1. PICK a \in {"created", "error"} : Reply(w, a)
    BY CommitFacts
  <1>2. /\ \A m \in Lockable, v \in Client \ {w} : lock[m] = v => lock'[m] = v
        /\ \A m \in Lockable : lock'[m] # w /\ lock'[m] \in {Nobody, lock[m]}
        /\ lock' \in [Lockable -> Client \cup {Nobody}]
    BY <1>0, <1>1, ReleaseFacts DEF Reply
  <1>3. ScenarioTypeOK'
    <2>1. scenario' \in [Scenario -> Row \cup {NoRow}]
      BY <1>0, CommitFacts DEF ScenarioTypeOK
    <2>2. runs' \subseteq Run
      BY <1>0, CommitFacts DEF ScenarioTypeOK
    <2> QED BY <1>0, <1>1, <1>2, <2>1, <2>2 DEF ScenarioTypeOK, Reply, Phase, Answer, Connected
  <1>4. phase'[w] = "idle" /\ answer'[w] = a /\ request' = request
    BY <1>0, <1>1 DEF ScenarioTypeOK, Reply
  <1>5. WasToldTheTruth(w)'
    <2>1. /\ new \in runs' /\ new.key = request[w].key /\ new.body = request[w].body
          /\ new.scenario = target[w]
          /\ target[w] \in Scenario /\ Writing(w)
      BY CommitFacts DEF RunCommitted
    <2>2. request[w].scenario \in {Fresh, new.scenario}
      BY <1>0, <2>1 DEF ClientInv, TargetIsAskedFor
    <2>3. scenario'[new.scenario].account = AccountNamed(w)
      BY <1>0, <2>1, CommitFacts DEF ScenarioTypeOK
    <2>4. AccountNamed(w)' = AccountNamed(w)
      BY <1>4 DEF AccountNamed
    <2> QED BY <1>4, <2>1, <2>2, <2>3, <2>4 DEF WasToldTheTruth, RunsOf
  <1>6. ClientInv(w)'
    BY <1>4, <1>5 DEF ClientInv, KeyIsHeld, TargetIsAskedFor, TargetIsHeld, VersionIsNext,
                      KeyIsFree, Writing
  <1>7. \A v \in Client : ClientInv(v)'
    BY <1>6, CommitLeavesOthers
  <1>8. TargetsDiffer'
    BY <1>0, <1>1, <1>4 DEF TargetsDiffer, Writing, Reply, ScenarioTypeOK
  <1> QED BY <1>3, <1>7, <1>8, CommitTables DEF ScenarioInv

-----------------------------------------------------------------------------
(* The theorems.                                                           *)

\* Every step preserves the invariant.
LEMMA NextPreserves == ScenarioInv /\ [ScenarioNext]_scenarioVars => ScenarioInv'
  <1> SUFFICES ASSUME ScenarioInv, [ScenarioNext]_scenarioVars PROVE ScenarioInv'
    OBVIOUS
  <1>1. CASE UNCHANGED scenarioVars
    <2>1. ScenarioTypeOK'
      BY <1>1 DEF scenarioVars, ScenarioInv, ScenarioTypeOK, Connected
    <2>2. \A v \in Client : Untouched(v)
      BY <1>1 DEF scenarioVars, Untouched
    <2>3. \A v \in Client : ClientInv(v)'
      BY <1>1, <2>2, UntouchedKeeps DEF scenarioVars, ScenarioInv
    <2>4. TableInv' /\ TargetsDiffer'
      BY <1>1, TablesStay DEF scenarioVars, ScenarioInv, TargetsDiffer, Writing
    <2> QED BY <2>1, <2>3, <2>4 DEF ScenarioInv
  <1>2. ASSUME NEW w \in Client, NEW r \in Sent, Submit(w, r) PROVE ScenarioInv'
    BY <1>2, SubmitPreserves
  <1>3. ASSUME NEW w \in Client, SubmitStep(w) PROVE ScenarioInv'
    <2>1. CASE NameConflict(w)
      BY <2>1, ReplyPreserves DEF NameConflict, Answer
    <2> QED BY <1>3, <2>1, BeginPreserves, LockKeyPreserves, LookupPreserves,
               CreateScenarioPreserves, LockScenarioPreserves, InsertRunPreserves,
               CommitRunPreserves DEF SubmitStep
  <1>4. ASSUME NEW w \in Client, AbortSubmit(w) PROVE ScenarioInv'
    BY <1>4, ReplyPreserves DEF AbortSubmit, Answer
  <1> QED BY <1>1, <1>2, <1>3, <1>4 DEF ScenarioNext

\* The locks, the tables and what clients know agree in every state.
THEOREM Invariance == ScenarioSpec => []ScenarioInv
  BY InitEstablishes, NextPreserves, PTL DEF ScenarioSpec

\* Type correctness, and no lock outlives the transaction that took it.
THEOREM TypeCorrect == ScenarioSpec => []ScenarioTypeOK
  <1>1. ScenarioInv => ScenarioTypeOK
    BY DEF ScenarioInv
  <1> QED BY Invariance, <1>1, PTL

\* However many requests of however many clients interleave, the versions of a
\* scenario count up without a gap, a duplicate or a lost update.
THEOREM VersionsHold == ScenarioSpec => []VersionsAreSerial
  <1>1. ScenarioInv => VersionsAreSerial
    BY DEF ScenarioInv, TableInv
  <1> QED BY Invariance, <1>1, PTL

\* Between the lookup of a key and COMMIT no other transaction uses the key.
THEOREM KeysHold == ScenarioSpec => []KeyStaysFree
  <1>1. ScenarioInv => KeyStaysFree
    BY DEF ScenarioInv, ClientInv, KeyIsFree, KeyStaysFree
  <1> QED BY Invariance, <1>1, PTL

\* A client that was told of a run has the run it asked for.
THEOREM AnswersHold == ScenarioSpec => []RunIsTheOneAskedFor
  <1>1. ScenarioInv => RunIsTheOneAskedFor
    BY DEF ScenarioInv, ClientInv, WasToldTheTruth, RunIsTheOneAskedFor
  <1> QED BY Invariance, <1>1, PTL

\* The two unique indexes the code relies on are never violated by a COMMIT: one
\* run for a key, and one scenario for an account and a name.
THEOREM IndexesHold == ScenarioSpec => [](OneRunPerKey /\ NamesAreUnique)
  <1>1. ScenarioInv => OneRunPerKey /\ NamesAreUnique
    BY DEF ScenarioInv, TableInv
  <1> QED BY Invariance, <1>1, PTL
=============================================================================
