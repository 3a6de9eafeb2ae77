--------------------------- MODULE Imports_proofs ---------------------------
(***************************************************************************)
(* Proofs about Imports, for any tokens, keys, files, instants and         *)
(* requests.                                                               *)
(*                                                                         *)
(* What a commit checks in one statement it relies on in a later one: the  *)
(* token it found usable, the archived bytes, the raw object it registered *)
(* and the result it inserted.  ImportInv says which lock keeps each of    *)
(* them true until COMMIT, or that nothing ever takes it back.             *)
(***************************************************************************)
EXTENDS Imports, FiniteSetTheorems, TLAPS

\* A request is known once it was sent.
RequestIsSent(w) == phase[w] # "idle" \/ answer[w] # "none" => request[w] \in Request

\* The token stays locked, unused and the one of this file's preview.
TokenIsHeld(w) ==
    phase[w] \in {"archive", "raw", "write", "result", "commit"} =>
        /\ request[w].token \in Token
        /\ lock[<<"token", request[w].token>>] = w
        /\ request[w].token \notin consumed
        /\ SameRequest(preview[request[w].token], request[w])

FileIsArchived(w) ==
    phase[w] \in {"raw", "write", "result", "commit"} => request[w].content \in archived

\* The raw object is committed, or about to be by this transaction alone.
RawIsHeld(w) ==
    phase[w] \in {"write", "result", "commit"} =>
        request[w].content \in rawObject \/ lock[<<"raw", request[w].content>>] = w

\* The revisions of a price file are not there yet.
RowsAreNew(w) ==
    phase[w] \in {"result", "commit"} /\ request[w].content \in Prices
        => applied[request[w].content] = 0

\* The result inserted is the first of its key.
ResultIsHeld(w) ==
    phase[w] = "commit" => lock[<<"result", RKey(w)>>] = w /\ result[RKey(w)] = NoResult

WasToldTheTruth(w) ==
    answer[w] \in {"created", "replayed"} =>
        result[RKey(w)] # NoResult /\ SameRequest(result[RKey(w)], request[w])

ClientInv(w) ==
    /\ RequestIsSent(w)
    /\ TokenIsHeld(w)
    /\ FileIsArchived(w)
    /\ RawIsHeld(w)
    /\ RowsAreNew(w)
    /\ ResultIsHeld(w)
    /\ WasToldTheTruth(w)

\* There are finitely many results of a file, and applied counts them.
ResultsAreCounted ==
    \A c \in Content : IsFiniteSet(ResultsOf(c)) /\ applied[c] = Cardinality(ResultsOf(c))

\* A raw object is registered by the commit that first uses it, and by no other.
RawIsApplied == \A c \in Content : c \in rawObject <=> applied[c] > 0

\* The revisions of a price file are inserted once, whatever keys and tokens it
\* is sent with.
PricesAreAppliedOnce == \A c \in Prices : applied[c] <= 1

TableInv ==
    /\ ResultsAreCounted
    /\ TokenCommitsItsPreview
    /\ CommittedIsArchived
    /\ RawIsApplied
    /\ PricesAreAppliedOnce

ImportInv ==
    /\ ImportTypeOK
    /\ TableInv
    /\ \A w \in Client : ClientInv(w)

-----------------------------------------------------------------------------
(* Facts about the operators.                                              *)

\* PostgreSQL keeps a captured_at that it has already cut.
LEMMA StoredTwice ==
  ASSUME NEW t \in Nat
  PROVE  Stored(t) \in Nat /\ Stored(Stored(t)) = Stored(t)
  <1>1. Unit \in Nat /\ Unit > 0
    BY ImportAssumption
  <1>2. t % Unit \in 0 .. (Unit - 1) /\ t = Unit * (t \div Unit) + (t % Unit) /\ t \div Unit \in Int
    BY <1>1
  <1>3. t - (t % Unit) \in Nat
    BY <1>1, <1>2
  <1>4. (t - (t % Unit)) % Unit = 0
    BY <1>1, <1>2
  <1> QED BY <1>3, <1>4 DEF Stored

\* A request that compares equal to a stored row is stored as it is.
LEMMA SameIsStored ==
  ASSUME NEW row, NEW r, row.captured \in Nat, SameRequest(row, r)
  PROVE  Stored(r.captured) = r.captured
  BY StoredTwice DEF SameRequest

\* What can be locked: tokens, raw objects and results.
LEMMA RowFacts ==
  /\ \A t \in Token : <<"token", t>> \in Row
  /\ \A c \in Content : <<"raw", c>> \in Row
  /\ \A rk \in ResultKey : <<"result", rk>> \in Row
  BY DEF Row

\* A request that was sent has the parts of a request, and a key of its kind.
LEMMA RequestFacts ==
  ASSUME NEW w \in Client, request[w] \in Request
  PROVE  /\ request[w].content \in Content
         /\ request[w].token \in Token \cup {NoToken}
         /\ request[w].captured \in Instant \cup {0}
         /\ RKey(w) \in ResultKey
  BY DEF Request, RKey, ResultKey, Kind

\* No preview and no result is one of a file.
LEMMA NoneFacts ==
  /\ NoPreview.content \notin Content /\ NoPreview \notin Preview
  /\ NoResult.content \notin Content /\ NoResult \notin Result
  /\ NoResult.token \notin Token /\ NoResult \notin Request
  BY ImportAssumption DEF NoPreview, NoResult, Preview, Result, Request, Content

\* Taking a free row takes it from nobody.
LEMMA TakeFacts ==
  ASSUME ImportTypeOK, NEW r \in Row, NEW w \in Client, Free(r, w), Take(r, w)
  PROVE  /\ lock'[r] = w
         /\ \A m \in Row, v \in Client : lock[m] = v => lock'[m] = v
         /\ \A m \in Row : lock'[m] \in {w, lock[m]}
         /\ lock' \in [Row -> Client \cup {Nobody}]
  BY ImportAssumption DEF ImportTypeOK, Free, Take

\* A transaction that ends gives up its own rows and no others.
LEMMA ReleaseFacts ==
  ASSUME ImportTypeOK, NEW w \in Client, Release(w)
  PROVE  /\ \A m \in Row, v \in Client \ {w} : lock[m] = v => lock'[m] = v
         /\ \A m \in Row : lock'[m] # w /\ lock'[m] \in {Nobody, lock[m]}
         /\ lock' \in [Row -> Client \cup {Nobody}]
  BY ImportAssumption DEF ImportTypeOK, Release

-----------------------------------------------------------------------------
(* The invariant holds initially.                                          *)

\* No token has been issued and nothing was imported.
LEMMA InitEstablishes == ImportInit => ImportInv
  <1> SUFFICES ASSUME ImportInit PROVE ImportInv
    OBVIOUS
  <1>1. ImportTypeOK
    BY DEF ImportInit, ImportTypeOK, Phase, Answer
  <1>2. \A c \in Content : ResultsOf(c) = {}
    BY NoneFacts DEF ImportInit, ResultsOf
  <1>3. ResultsAreCounted
    BY <1>2, FS_EmptySet DEF ImportInit, ResultsAreCounted
  <1>4. TableInv
    BY <1>3 DEF ImportInit, TableInv, TokenCommitsItsPreview, CommittedIsArchived, RawIsApplied,
                PricesAreAppliedOnce, Content
  <1>5. \A w \in Client : ClientInv(w)
    BY DEF ImportInit, ClientInv, RequestIsSent, TokenIsHeld, FileIsArchived, RawIsHeld,
           RowsAreNew, ResultIsHeld, WasToldTheTruth
  <1> QED BY <1>1, <1>4, <1>5 DEF ImportInv

-----------------------------------------------------------------------------
(* Steps that commit nothing.                                              *)

\* A client that does not take the step, and keeps its rows.
Untouched(v) ==
    /\ phase'[v] = phase[v] /\ request'[v] = request[v] /\ answer'[v] = answer[v]
    /\ \A m \in Row : lock[m] = v => lock'[m] = v

\* Nothing is imported; previews are only added, and so are archived files.
NothingCommitted ==
    /\ UNCHANGED <<consumed, result, applied, rawObject>>
    /\ archived \subseteq archived'
    /\ \A t \in Token : preview[t] # NoPreview => preview'[t] = preview[t]

\* The tables stay consistent: a token that was used keeps its preview.
LEMMA TablesStay ==
  ASSUME ImportTypeOK, TableInv, NothingCommitted
  PROVE  TableInv'
  <1>1. \A c \in Content : ResultsOf(c)' = ResultsOf(c)
    BY DEF NothingCommitted, ResultsOf
  <1>2. ResultsAreCounted' /\ RawIsApplied' /\ PricesAreAppliedOnce' /\ CommittedIsArchived'
    BY <1>1 DEF TableInv, NothingCommitted, ResultsAreCounted, RawIsApplied,
                PricesAreAppliedOnce, CommittedIsArchived
  <1>3. ASSUME NEW rk \in ResultKey, result[rk] # NoResult
        PROVE  preview'[result[rk].token] = preview[result[rk].token]
    <2>1. /\ result[rk] \in Result
          /\ result[rk].content = preview[result[rk].token].content
      BY <1>3 DEF ImportTypeOK, TableInv, TokenCommitsItsPreview
    <2>2. result[rk].token \in Token /\ result[rk].content \in Content
      BY <2>1 DEF Result
    <2> QED BY <2>1, <2>2, NoneFacts DEF NothingCommitted
  <1>4. TokenCommitsItsPreview'
    BY <1>3 DEF TableInv, TokenCommitsItsPreview, NothingCommitted
  <1> QED BY <1>2, <1>4 DEF TableInv

\* What a commit relies on stays true while others do not commit.
LEMMA UntouchedKeeps ==
  ASSUME ImportTypeOK, NothingCommitted, NEW v \in Client, ClientInv(v), Untouched(v)
  PROVE  ClientInv(v)'
  <1>1. RKey(v)' = RKey(v)
    BY DEF RKey, Untouched
  <1>2. RequestIsSent(v)'
    BY DEF ClientInv, RequestIsSent, Untouched
  <1>3. ASSUME phase[v] # "idle"
        PROVE  /\ request[v] \in Request /\ request[v].content \in Content
               /\ RKey(v) \in ResultKey
    BY <1>3, RequestFacts DEF ClientInv, RequestIsSent
  <1>4. TokenIsHeld(v)'
    <2> SUFFICES ASSUME phase[v] \in {"archive", "raw", "write", "result", "commit"}
                 PROVE  /\ request[v].token \in Token
                        /\ lock'[<<"token", request[v].token>>] = v
                        /\ request[v].token \notin consumed
                        /\ SameRequest(preview'[request[v].token], request[v])
      BY DEF TokenIsHeld, Untouched, NothingCommitted, SameRequest
    <2>1. /\ request[v].token \in Token
          /\ lock[<<"token", request[v].token>>] = v
          /\ request[v].token \notin consumed
          /\ SameRequest(preview[request[v].token], request[v])
      BY DEF ClientInv, TokenIsHeld
    <2>2. preview[request[v].token] # NoPreview
      BY <1>3, <2>1, NoneFacts DEF SameRequest
    <2> QED BY <2>1, <2>2, RowFacts DEF Untouched, NothingCommitted
  <1>5. FileIsArchived(v)' /\ RowsAreNew(v)'
    BY DEF ClientInv, FileIsArchived, RowsAreNew, Untouched, NothingCommitted
  <1>6. RawIsHeld(v)'
    BY <1>3, RowFacts DEF ClientInv, RawIsHeld, Untouched, NothingCommitted
  <1>7. ResultIsHeld(v)'
    BY <1>1, <1>3, RowFacts DEF ClientInv, ResultIsHeld, Untouched, NothingCommitted
  <1>8. WasToldTheTruth(v)'
    BY <1>1 DEF ClientInv, WasToldTheTruth, SameRequest, Untouched, NothingCommitted
  <1> QED BY <1>2, <1>4, <1>5, <1>6, <1>7, <1>8 DEF ClientInv

\* A step of w that commits nothing: it is enough to look at w itself.
LEMMA OneClientMoves ==
  ASSUME ImportInv, NEW w \in Client, NothingCommitted, ImportTypeOK',
         \A v \in Client \ {w} : Untouched(v), ClientInv(w)'
  PROVE  ImportInv'
  BY TablesStay, UntouchedKeeps DEF ImportInv

\* A preview or an expiry changes no request.
LEMMA NoClientMoves ==
  ASSUME ImportInv, NothingCommitted, ImportTypeOK', UNCHANGED <<lock, clientVars>>
  PROVE  ImportInv'
  <1>1. \A v \in Client : Untouched(v)
    BY DEF Untouched, clientVars
  <1> QED BY <1>1, TablesStay, UntouchedKeeps DEF ImportInv

\* A token is issued.
LEMMA IssueTokenPreserves ==
  ASSUME ImportInv, NEW t \in Token, NEW c \in Content, NEW at \in Instant, IssueToken(t, c, at)
  PROVE  ImportInv'
  <1>0. ImportTypeOK
    BY DEF ImportInv
  <1>1. NothingCommitted
    BY <1>0 DEF IssueToken, NothingCommitted, ImportTypeOK
  <1>2. ImportTypeOK'
    <2>1. [content |-> c, captured |-> CapturedAt(c, at)] \in Preview
      BY DEF Preview, CapturedAt
    <2>2. preview' \in [Token -> Preview \cup {NoPreview}]
      BY <1>0, <2>1 DEF IssueToken, ImportTypeOK
    <2> QED BY <1>0, <2>2 DEF IssueToken, ImportTypeOK, clientVars
  <1> QED BY <1>1, <1>2, NoClientMoves DEF IssueToken

\* A token expires, perhaps in the middle of its commit.
LEMMA ExpirePreserves ==
  ASSUME ImportInv, NEW t \in Token, Expire(t)
  PROVE  ImportInv'
  <1>1. NothingCommitted /\ ImportTypeOK'
    BY DEF ImportInv, ImportTypeOK, Expire, NothingCommitted, clientVars
  <1> QED BY <1>1, NoClientMoves DEF Expire

\* Commit returns without having committed, whatever it says, as long as it is
\* true.
LEMMA ReplyPreserves ==
  ASSUME ImportInv, NEW w \in Client, phase[w] # "idle", NEW a \in Answer, Reply(w, a),
         UNCHANGED tableVars,
         a \in {"created", "replayed"} =>
             result[RKey(w)] # NoResult /\ SameRequest(result[RKey(w)], request[w])
  PROVE  ImportInv'
  <1>0. ImportTypeOK /\ ClientInv(w) /\ request[w] \in Request
    BY DEF ImportInv, ClientInv, RequestIsSent
  <1>1. /\ \A m \in Row, v \in Client \ {w} : lock[m] = v => lock'[m] = v
        /\ \A m \in Row : lock'[m] # w /\ lock'[m] \in {Nobody, lock[m]}
        /\ lock' \in [Row -> Client \cup {Nobody}]
    BY <1>0, ReleaseFacts DEF Reply
  <1>2. ImportTypeOK'
    BY <1>0, <1>1 DEF ImportTypeOK, Reply, Phase, tableVars
  <1>3. phase'[w] = "idle" /\ answer'[w] = a /\ request' = request
    BY <1>0 DEF ImportTypeOK, Reply
  <1>4. \A v \in Client \ {w} : Untouched(v)
    BY <1>0, <1>1 DEF ImportTypeOK, Reply, Untouched
  <1>5. WasToldTheTruth(w)'
    BY <1>3 DEF WasToldTheTruth, RKey, SameRequest, tableVars
  <1>6. ClientInv(w)'
    BY <1>0, <1>3, <1>5 DEF ClientInv, RequestIsSent, TokenIsHeld, FileIsArchived, RawIsHeld,
                           RowsAreNew, ResultIsHeld
  <1> QED BY <1>2, <1>4, <1>6, OneClientMoves DEF NothingCommitted, tableVars

\* The answer to a request whose key is used tells the truth.
LEMMA ExistingPreserves ==
  ASSUME ImportInv, NEW w \in Client, phase[w] # "idle", result[RKey(w)] # NoResult,
         Reply(w, Existing(w)), UNCHANGED tableVars
  PROVE  ImportInv'
  <1>1. /\ Existing(w) \in Answer
        /\ Existing(w) \in {"created", "replayed"} => SameRequest(result[RKey(w)], request[w])
    BY DEF Existing, Answer
  <1> QED BY <1>1, ReplyPreserves

\* A request is sent.
LEMMA BeginCommitPreserves ==
  ASSUME ImportInv, NEW w \in Client, NEW r \in Request, BeginCommit(w, r)
  PROVE  ImportInv'
  <1>0. ImportTypeOK
    BY DEF ImportInv
  <1>1. ImportTypeOK'
    BY <1>0 DEF ImportTypeOK, BeginCommit, Phase, Answer, tableVars
  <1>2. \A v \in Client \ {w} : Untouched(v)
    BY <1>0 DEF ImportTypeOK, BeginCommit, Untouched
  <1>3. phase'[w] = "lookup" /\ request'[w] = r /\ answer'[w] = "none"
    BY <1>0 DEF ImportTypeOK, BeginCommit
  <1>4. ClientInv(w)'
    BY <1>3 DEF ClientInv, RequestIsSent, TokenIsHeld, FileIsArchived, RawIsHeld, RowsAreNew,
                ResultIsHeld, WasToldTheTruth
  <1>5. NothingCommitted
    BY DEF BeginCommit, NothingCommitted, tableVars
  <1> QED BY <1>1, <1>2, <1>4, <1>5, OneClientMoves

\* A statement that reads: the request goes on and nothing else changes, but for
\* the rows it takes.
LEMMA GotoFacts ==
  ASSUME ImportInv, NEW w \in Client, phase[w] # "idle", NEW ph \in Phase \ {"idle"}, Goto(w, ph),
         UNCHANGED <<preview, expired, consumed, result, applied, rawObject>>,
         archived' \subseteq Content, archived \subseteq archived',
         lock' \in [Row -> Client \cup {Nobody}],
         \A m \in Row : lock'[m] \in {w, lock[m]},
         \A m \in Row, v \in Client : lock[m] = v => lock'[m] = v
  PROVE  /\ NothingCommitted
         /\ ImportTypeOK'
         /\ \A v \in Client \ {w} : Untouched(v)
         /\ phase'[w] = ph /\ request' = request /\ answer' = answer
         /\ RKey(w)' = RKey(w)
         /\ RequestIsSent(w)' /\ WasToldTheTruth(w)'
         /\ request[w] \in Request
  <1>0. ImportTypeOK /\ ClientInv(w)
    BY DEF ImportInv
  <1>1. NothingCommitted
    BY DEF NothingCommitted
  <1>2. phase'[w] = ph /\ request' = request /\ answer' = answer
    BY <1>0 DEF ImportTypeOK, Goto
  <1>3. request[w] \in Request
    BY <1>0 DEF ImportTypeOK
  <1>4. ImportTypeOK'
    BY <1>0, <1>2 DEF ImportTypeOK, Goto
  <1>5. \A v \in Client \ {w} : Untouched(v)
    BY <1>0 DEF ImportTypeOK, Goto, Untouched
  <1>6. RKey(w)' = RKey(w)
    BY <1>2 DEF RKey
  <1>7. RequestIsSent(w)' /\ WasToldTheTruth(w)'
    BY <1>0, <1>2, <1>3, <1>6 DEF ClientInv, RequestIsSent, WasToldTheTruth, SameRequest
  <1> QED BY <1>1, <1>2, <1>3, <1>4, <1>5, <1>6, <1>7

\* Locks that do not change are kept.
LEMMA LocksStay ==
  ASSUME ImportTypeOK, NEW w \in Client, UNCHANGED lock
  PROVE  /\ lock' \in [Row -> Client \cup {Nobody}]
         /\ \A m \in Row : lock'[m] \in {w, lock[m]}
         /\ \A m \in Row, v \in Client : lock[m] = v => lock'[m] = v
  BY DEF ImportTypeOK

\* The key is looked up.
LEMMA LookupResultPreserves ==
  ASSUME ImportInv, NEW w \in Client, LookupResult(w)
  PROVE  ImportInv'
  <1>0. ImportTypeOK /\ phase[w] = "lookup" /\ UNCHANGED tableVars
    BY DEF ImportInv, LookupResult
  <1>1. CASE result[RKey(w)] # NoResult
    BY <1>0, <1>1, ExistingPreserves DEF LookupResult
  <1>2. CASE result[RKey(w)] = NoResult
    <2>1. Goto(w, "token") /\ UNCHANGED lock /\ "token" \in Phase \ {"idle"}
      BY <1>2 DEF LookupResult, Phase
    <2>2. /\ NothingCommitted /\ ImportTypeOK' /\ \A v \in Client \ {w} : Untouched(v)
          /\ phase'[w] = "token" /\ RequestIsSent(w)' /\ WasToldTheTruth(w)'
      BY <1>0, <2>1, LocksStay, GotoFacts DEF tableVars, ImportTypeOK
    <2>3. ClientInv(w)'
      BY <2>2 DEF ClientInv, TokenIsHeld, FileIsArchived, RawIsHeld, RowsAreNew, ResultIsHeld
    <2> QED BY <2>2, <2>3, OneClientMoves
  <1> QED BY <1>1, <1>2

\* The token is locked and checked.
LEMMA LockTokenPreserves ==
  ASSUME ImportInv, NEW w \in Client, LockToken(w)
  PROVE  ImportInv'
  <1>0. ImportTypeOK /\ phase[w] = "token" /\ UNCHANGED tableVars
    BY DEF ImportInv, LockToken
  <1>1. CASE TokenFits(w)
    <2> PICK row : row = <<"token", request[w].token>>
      OBVIOUS
    <2>1. /\ row \in Row /\ Free(row, w) /\ Take(row, w) /\ Goto(w, "archive")
          /\ "archive" \in Phase \ {"idle"}
      BY <1>1, RowFacts DEF LockToken, TokenFits, Phase
    <2>2. /\ lock'[row] = w
          /\ \A m \in Row, v \in Client : lock[m] = v => lock'[m] = v
          /\ \A m \in Row : lock'[m] \in {w, lock[m]}
          /\ lock' \in [Row -> Client \cup {Nobody}]
      BY <1>0, <2>1, TakeFacts
    <2>3. /\ NothingCommitted /\ ImportTypeOK' /\ \A v \in Client \ {w} : Untouched(v)
          /\ phase'[w] = "archive" /\ request' = request
          /\ RequestIsSent(w)' /\ WasToldTheTruth(w)'
      BY <1>0, <2>1, <2>2, GotoFacts DEF tableVars, ImportTypeOK
    <2>4. TokenIsHeld(w)'
      BY <1>0, <1>1, <2>2, <2>3 DEF TokenIsHeld, TokenFits, tableVars, SameRequest
    <2>5. ClientInv(w)'
      BY <2>3, <2>4 DEF ClientInv, FileIsArchived, RawIsHeld, RowsAreNew, ResultIsHeld
    <2> QED BY <2>3, <2>5, OneClientMoves
  <1>2. CASE ~ TokenFits(w)
    <2>1. Reply(w, "conflict") /\ "conflict" \in Answer
      BY <1>2 DEF LockToken, Answer
    <2> QED BY <1>0, <2>1, ReplyPreserves
  <1> QED BY <1>1, <1>2

\* A transaction that goes on keeps what it holds.
LEMMA TokenStays ==
  ASSUME ImportTypeOK, NEW w \in Client, ClientInv(w), request' = request,
         UNCHANGED <<preview, consumed>>,
         \A m \in Row, v \in Client : lock[m] = v => lock'[m] = v,
         phase[w] \in {"archive", "raw", "write", "result", "commit"}
  PROVE  TokenIsHeld(w)'
  BY RowFacts DEF ClientInv, TokenIsHeld, SameRequest

\* The file is archived.
LEMMA ArchiveFilePreserves ==
  ASSUME ImportInv, NEW w \in Client, ArchiveFile(w)
  PROVE  ImportInv'
  <1>0. /\ ImportTypeOK /\ ClientInv(w) /\ phase[w] = "archive"
        /\ archived' = archived \cup {request[w].content} /\ Goto(w, "raw") /\ UNCHANGED lock
        /\ UNCHANGED <<preview, expired, consumed, result, applied, rawObject>>
        /\ "raw" \in Phase \ {"idle"}
    BY DEF ImportInv, ArchiveFile, Phase
  <1>1. archived' \subseteq Content
    BY <1>0, RequestFacts DEF ImportTypeOK
  <1>2. /\ NothingCommitted /\ ImportTypeOK' /\ \A v \in Client \ {w} : Untouched(v)
        /\ phase'[w] = "raw" /\ request' = request
        /\ RequestIsSent(w)' /\ WasToldTheTruth(w)'
    BY <1>0, <1>1, LocksStay, GotoFacts
  <1>3. TokenIsHeld(w)'
    BY <1>0, <1>2, TokenStays
  <1>4. ClientInv(w)'
    BY <1>0, <1>2, <1>3 DEF ClientInv, FileIsArchived, RawIsHeld, RowsAreNew, ResultIsHeld
  <1> QED BY <1>2, <1>4, OneClientMoves

\* The raw object is registered, or found.
LEMMA RegisterRawPreserves ==
  ASSUME ImportInv, NEW w \in Client, RegisterRaw(w)
  PROVE  ImportInv'
  <1> PICK row : row = <<"raw", request[w].content>>
    OBVIOUS
  <1>0. /\ ImportTypeOK /\ ClientInv(w) /\ phase[w] = "raw" /\ UNCHANGED tableVars
        /\ Goto(w, "write") /\ Free(row, w) /\ "write" \in Phase \ {"idle"}
    BY DEF ImportInv, RegisterRaw, Phase
  <1>1. request[w].content \in Content /\ row \in Row
    BY <1>0, RequestFacts, RowFacts DEF ImportTypeOK
  <1>2. /\ \A m \in Row, v \in Client : lock[m] = v => lock'[m] = v
        /\ \A m \in Row : lock'[m] \in {w, lock[m]}
        /\ lock' \in [Row -> Client \cup {Nobody}]
        /\ request[w].content \in rawObject \/ lock'[row] = w
    <2>1. CASE request[w].content \in rawObject
      BY <1>0, <2>1, LocksStay DEF RegisterRaw
    <2>2. CASE request[w].content \notin rawObject
      <3>1. Take(row, w)
        BY <2>2 DEF RegisterRaw
      <3> QED BY <1>0, <1>1, <3>1, TakeFacts
    <2> QED BY <2>1, <2>2
  <1>3. /\ NothingCommitted /\ ImportTypeOK' /\ \A v \in Client \ {w} : Untouched(v)
        /\ phase'[w] = "write" /\ request' = request
        /\ RequestIsSent(w)' /\ WasToldTheTruth(w)'
    BY <1>0, <1>2, GotoFacts DEF tableVars, ImportTypeOK
  <1>4. TokenIsHeld(w)'
    BY <1>0, <1>2, <1>3, TokenStays DEF tableVars
  <1>5. FileIsArchived(w)' /\ RawIsHeld(w)'
    BY <1>0, <1>2, <1>3 DEF ClientInv, FileIsArchived, RawIsHeld, tableVars
  <1>6. ClientInv(w)'
    BY <1>3, <1>4, <1>5 DEF ClientInv, RowsAreNew, ResultIsHeld
  <1> QED BY <1>3, <1>6, OneClientMoves

\* The rows are written in the transaction, or found there already.
LEMMA WriteRowsPreserves ==
  ASSUME ImportInv, NEW w \in Client, WriteRows(w)
  PROVE  ImportInv'
  <1>0. ImportTypeOK /\ ClientInv(w) /\ phase[w] = "write" /\ UNCHANGED tableVars
    BY DEF ImportInv, WriteRows
  <1>1. CASE request[w].content \in Prices /\ applied[request[w].content] > 0
    <2>1. Reply(w, "invalid") /\ "invalid" \in Answer
      BY <1>1 DEF WriteRows, Answer
    <2> QED BY <1>0, <2>1, ReplyPreserves
  <1>2. CASE ~ (request[w].content \in Prices /\ applied[request[w].content] > 0)
    <2>1. Goto(w, "result") /\ UNCHANGED lock /\ "result" \in Phase \ {"idle"}
      BY <1>2 DEF WriteRows, Phase
    <2>2. /\ NothingCommitted /\ ImportTypeOK' /\ \A v \in Client \ {w} : Untouched(v)
          /\ phase'[w] = "result" /\ request' = request
          /\ RequestIsSent(w)' /\ WasToldTheTruth(w)' /\ request[w] \in Request
      BY <1>0, <2>1, LocksStay, GotoFacts DEF tableVars, ImportTypeOK
    <2>3. TokenIsHeld(w)'
      BY <1>0, <2>1, <2>2, TokenStays DEF tableVars
    <2>4. FileIsArchived(w)' /\ RawIsHeld(w)'
      BY <1>0, <2>1, <2>2 DEF ClientInv, FileIsArchived, RawIsHeld, tableVars
    <2>5. RowsAreNew(w)'
      <3>1. applied[request[w].content] \in Nat
        BY <1>0, <2>2, RequestFacts DEF ImportTypeOK
      <3> QED BY <1>0, <1>2, <2>2, <3>1 DEF RowsAreNew, tableVars
    <2>6. ClientInv(w)'
      BY <2>2, <2>3, <2>4, <2>5 DEF ClientInv, ResultIsHeld
    <2> QED BY <2>2, <2>6, OneClientMoves
  <1> QED BY <1>1, <1>2

\* The result is inserted, or found to be there.
LEMMA InsertResultPreserves ==
  ASSUME ImportInv, NEW w \in Client, InsertResult(w)
  PROVE  ImportInv'
  <1>0. ImportTypeOK /\ ClientInv(w) /\ phase[w] = "result" /\ UNCHANGED tableVars
    BY DEF ImportInv, InsertResult
  <1>1. CASE result[RKey(w)] # NoResult
    BY <1>0, <1>1, ExistingPreserves DEF InsertResult
  <1>2. CASE result[RKey(w)] = NoResult
    <2> PICK row : row = <<"result", RKey(w)>>
      OBVIOUS
    <2>1. /\ Free(row, w) /\ Take(row, w) /\ Goto(w, "commit") /\ "commit" \in Phase \ {"idle"}
      BY <1>2 DEF InsertResult, Phase
    <2>2. row \in Row
      BY <1>0, RequestFacts, RowFacts DEF ImportTypeOK
    <2>3. /\ lock'[row] = w
          /\ \A m \in Row, v \in Client : lock[m] = v => lock'[m] = v
          /\ \A m \in Row : lock'[m] \in {w, lock[m]}
          /\ lock' \in [Row -> Client \cup {Nobody}]
      BY <1>0, <2>1, <2>2, TakeFacts
    <2>4. /\ NothingCommitted /\ ImportTypeOK' /\ \A v \in Client \ {w} : Untouched(v)
          /\ phase'[w] = "commit" /\ request' = request /\ RKey(w)' = RKey(w)
          /\ RequestIsSent(w)' /\ WasToldTheTruth(w)' /\ request[w] \in Request
      BY <1>0, <2>1, <2>3, GotoFacts DEF tableVars, ImportTypeOK
    <2>5. TokenIsHeld(w)'
      BY <1>0, <2>3, <2>4, TokenStays DEF tableVars
    <2>6. FileIsArchived(w)' /\ RowsAreNew(w)'
      BY <1>0, <2>4 DEF ClientInv, FileIsArchived, RowsAreNew, tableVars
    <2>7. RawIsHeld(w)'
      <3>1. <<"raw", request[w].content>> \in Row
        BY <2>4, RequestFacts, RowFacts
      <3> QED BY <1>0, <2>3, <2>4, <3>1 DEF ClientInv, RawIsHeld, tableVars
    <2>8. ResultIsHeld(w)'
      BY <1>0, <1>2, <2>3, <2>4 DEF ResultIsHeld, tableVars
    <2>9. ClientInv(w)'
      BY <2>4, <2>5, <2>6, <2>7, <2>8 DEF ClientInv
    <2> QED BY <2>4, <2>9, OneClientMoves
  <1> QED BY <1>1, <1>2

-----------------------------------------------------------------------------
(* COMMIT, the only step that imports.                                     *)

\* What w has to commit: the first result of its key, with an unused token.
LEMMA CommitFacts ==
  ASSUME ImportInv, NEW w \in Client, CommitAll(w)
  PROVE  /\ phase[w] = "commit" /\ request[w] \in Request
         /\ request[w].content \in Content /\ request[w].content \in archived
         /\ request[w].token \in Token /\ request[w].token \notin consumed
         /\ SameRequest(preview[request[w].token], request[w])
         /\ Stored(request[w].captured) = request[w].captured
         /\ RKey(w) \in ResultKey /\ result[RKey(w)] = NoResult
         /\ request[w].content \in Prices => applied[request[w].content] = 0
         /\ \E a \in {"created", "error"} : Reply(w, a)
  <1>1. ImportTypeOK /\ ClientInv(w) /\ phase[w] = "commit" /\ request[w] \in Request
    BY DEF ImportInv, CommitAll, ImportTypeOK
  <1>2. /\ request[w].token \in Token /\ request[w].token \notin consumed
        /\ SameRequest(preview[request[w].token], request[w])
    BY <1>1 DEF ClientInv, TokenIsHeld
  <1>3. /\ request[w].content \in archived /\ result[RKey(w)] = NoResult
        /\ request[w].content \in Prices => applied[request[w].content] = 0
    BY <1>1 DEF ClientInv, FileIsArchived, ResultIsHeld, RowsAreNew
  <1>4. request[w].content \in Content /\ RKey(w) \in ResultKey
    BY <1>1, RequestFacts
  <1>5. preview[request[w].token].captured \in Nat
    <2>1. preview[request[w].token] \in Preview
      BY <1>1, <1>2, <1>4, NoneFacts DEF ImportTypeOK, SameRequest
    <2>2. preview[request[w].token].captured \in Instant \cup {0}
      BY <2>1 DEF Preview
    <2>3. Instant \cup {0} \subseteq Nat
      BY ImportAssumption
    <2> QED BY <2>2, <2>3
  <1>6. Stored(request[w].captured) = request[w].captured
    BY <1>2, <1>5, SameIsStored
  <1> QED BY <1>1, <1>2, <1>3, <1>4, <1>6 DEF CommitAll

\* The tables after COMMIT.
LEMMA CommitTables ==
  ASSUME ImportInv, NEW w \in Client, CommitAll(w)
  PROVE  TableInv'
  <1> PICK rk, c, t, new : /\ rk = RKey(w) /\ c = request[w].content /\ t = request[w].token
                           /\ new = [content |-> c, captured |-> request[w].captured, token |-> t]
    OBVIOUS
  <1>0. ImportTypeOK /\ TableInv
    BY DEF ImportInv
  <1>1. /\ c \in Content /\ c \in archived /\ t \in Token /\ t \notin consumed
        /\ preview[t].content = c /\ rk \in ResultKey /\ result[rk] = NoResult
        /\ c \in Prices => applied[c] = 0
    BY CommitFacts DEF SameRequest
  <1>2. /\ result'[rk] = new
        /\ \A o \in ResultKey \ {rk} : result'[o] = result[o]
        /\ applied'[c] = applied[c] + 1
        /\ \A d \in Content \ {c} : applied'[d] = applied[d]
        /\ rawObject' = rawObject \cup {c} /\ consumed' = consumed \cup {t}
        /\ UNCHANGED <<preview, archived>>
    BY <1>0, <1>1 DEF CommitAll, ImportTypeOK
  <1>3. new.content = c /\ new.token = t
    OBVIOUS
  <1>4. ResultsAreCounted'
    <2> SUFFICES ASSUME NEW d \in Content
                 PROVE  IsFiniteSet(ResultsOf(d)') /\ applied'[d] = Cardinality(ResultsOf(d)')
      BY DEF ResultsAreCounted
    <2>1. /\ IsFiniteSet(ResultsOf(d)) /\ applied[d] = Cardinality(ResultsOf(d))
      BY <1>0 DEF TableInv, ResultsAreCounted
    <2>2. rk \notin ResultsOf(d)
      BY <1>1, NoneFacts DEF ResultsOf
    <2>3. CASE d = c
      <3>1. ResultsOf(d)' = ResultsOf(d) \cup {rk}
        BY <1>1, <1>2, <1>3, <2>3 DEF ResultsOf
      <3>2. /\ IsFiniteSet(ResultsOf(d) \cup {rk})
            /\ Cardinality(ResultsOf(d) \cup {rk}) = Cardinality(ResultsOf(d)) + 1
        BY <2>1, <2>2, FS_AddElement
      <3> QED BY <1>2, <2>1, <2>3, <3>1, <3>2
    <2>4. CASE d # c
      <3>1. ResultsOf(d)' = ResultsOf(d)
        BY <1>1, <1>2, <1>3, <2>2, <2>4 DEF ResultsOf
      <3> QED BY <1>2, <2>1, <2>4, <3>1
    <2> QED BY <2>3, <2>4
  <1>5. TokenCommitsItsPreview'
    <2>1. ASSUME NEW o \in ResultKey, result'[o] # NoResult
          PROVE  /\ result'[o].token \in consumed'
                 /\ result'[o].content = preview'[result'[o].token].content
      <3>1. CASE o = rk
        BY <1>1, <1>2, <1>3, <3>1
      <3>2. CASE o # rk
        BY <1>0, <1>2, <2>1, <3>2 DEF TableInv, TokenCommitsItsPreview
      <3> QED BY <3>1, <3>2
    <2>2. ASSUME NEW u \in consumed'
          PROVE  \E o \in ResultKey : /\ result'[o].token = u
                                      /\ \A other \in ResultKey : result'[other].token = u => other = o
      <3>1. CASE u = t
        <4>1. \A other \in ResultKey \ {rk} : result[other].token # t
          BY <1>0, <1>1, ImportAssumption DEF TableInv, TokenCommitsItsPreview, NoResult
        <4> QED BY <1>1, <1>2, <1>3, <3>1, <4>1
      <3>2. CASE u # t
        <4>1. u \in consumed /\ u \in Token
          BY <1>0, <1>2, <3>2 DEF ImportTypeOK
        <4>2. PICK o \in ResultKey :
                 /\ result[o].token = u
                 /\ \A other \in ResultKey : result[other].token = u => other = o
          BY <1>0, <4>1 DEF TableInv, TokenCommitsItsPreview
        <4>3. o # rk
          BY <1>1, <4>1, <4>2, NoneFacts
        <4> QED BY <1>2, <1>3, <3>2, <4>2, <4>3
      <3> QED BY <3>1, <3>2
    <2> QED BY <2>1, <2>2 DEF TokenCommitsItsPreview
  <1>6. CommittedIsArchived'
    BY <1>0, <1>1, <1>2 DEF TableInv, CommittedIsArchived
  <1>7. RawIsApplied'
    BY <1>0, <1>1, <1>2 DEF TableInv, RawIsApplied, ImportTypeOK
  <1>8. PricesAreAppliedOnce'
    BY <1>0, <1>1, <1>2 DEF TableInv, PricesAreAppliedOnce, Content
  <1> QED BY <1>4, <1>5, <1>6, <1>7, <1>8 DEF TableInv

\* Another commit in progress survives: its token, its result and the raw object
\* of its price file are locked by it, so they are not those of w.
LEMMA CommitLeavesOthers ==
  ASSUME ImportInv, NEW w \in Client, CommitAll(w), NEW v \in Client \ {w}
  PROVE  ClientInv(v)'
  <1> PICK rk, c, t : rk = RKey(w) /\ c = request[w].content /\ t = request[w].token
    OBVIOUS
  <1>0. ImportTypeOK /\ TableInv /\ ClientInv(v) /\ ClientInv(w)
    BY DEF ImportInv
  <1>1. /\ c \in Content /\ t \in Token /\ rk \in ResultKey /\ result[rk] = NoResult
        /\ phase[w] = "commit" /\ \E a \in {"created", "error"} : Reply(w, a)
    BY CommitFacts
  <1>2. /\ \A o \in ResultKey \ {rk} : result'[o] = result[o]
        /\ \A d \in Content \ {c} : applied'[d] = applied[d]
        /\ rawObject \subseteq rawObject' /\ consumed' = consumed \cup {t}
        /\ UNCHANGED <<preview, archived>>
    BY <1>0, <1>1 DEF CommitAll, ImportTypeOK
  <1>3. Untouched(v)
    <2>1. \A m \in Row, u \in Client \ {w} : lock[m] = u => lock'[m] = u
      BY <1>0, <1>1, ReleaseFacts DEF Reply
    <2> QED BY <1>0, <1>1, <2>1 DEF ImportTypeOK, Reply, Untouched
  <1>4. RKey(v)' = RKey(v)
    BY <1>3 DEF RKey, Untouched
  <1>5. ASSUME phase[v] # "idle" \/ answer[v] # "none"
        PROVE  /\ request[v] \in Request /\ request[v].content \in Content
               /\ RKey(v) \in ResultKey
    BY <1>0, <1>5, RequestFacts DEF ClientInv, RequestIsSent
  <1>6. RequestIsSent(v)' /\ FileIsArchived(v)'
    BY <1>0, <1>2, <1>3 DEF ClientInv, RequestIsSent, FileIsArchived, Untouched
  <1>7. TokenIsHeld(v)'
    <2> SUFFICES ASSUME phase[v] \in {"archive", "raw", "write", "result", "commit"}
                 PROVE  /\ request[v].token \in Token
                        /\ lock'[<<"token", request[v].token>>] = v
                        /\ request[v].token \notin consumed'
                        /\ SameRequest(preview[request[v].token], request[v])
      BY <1>2, <1>3 DEF TokenIsHeld, Untouched, SameRequest
    <2>1. /\ request[v].token \in Token
          /\ lock[<<"token", request[v].token>>] = v
          /\ request[v].token \notin consumed
          /\ SameRequest(preview[request[v].token], request[v])
      BY <1>0 DEF ClientInv, TokenIsHeld
    <2>2. lock[<<"token", t>>] = w
      BY <1>0, <1>1 DEF ClientInv, TokenIsHeld
    <2> QED BY <1>2, <1>3, <2>1, <2>2, RowFacts DEF Untouched
  <1>8. RawIsHeld(v)'
    BY <1>0, <1>2, <1>3, <1>5, RowFacts DEF ClientInv, RawIsHeld, Untouched
  <1>9. RowsAreNew(v)'
    <2> SUFFICES ASSUME phase[v] \in {"result", "commit"}, request[v].content \in Prices
                 PROVE  applied'[request[v].content] = 0
      BY <1>3 DEF RowsAreNew, Untouched
    <2>1. applied[request[v].content] = 0 /\ request[v].content \in Content
      BY <1>0, <1>5 DEF ClientInv, RowsAreNew
    <2>2. request[v].content \notin rawObject
      BY <1>0, <2>1 DEF TableInv, RawIsApplied
    <2>3. request[v].content # c
      BY <1>0, <1>1, <2>2 DEF ClientInv, RawIsHeld
    <2> QED BY <1>2, <2>1, <2>3
  <1>10. ResultIsHeld(v)'
    <2> SUFFICES ASSUME phase[v] = "commit"
                 PROVE  lock'[<<"result", RKey(v)>>] = v /\ result'[RKey(v)] = NoResult
      BY <1>3, <1>4 DEF ResultIsHeld, Untouched
    <2>1. lock[<<"result", RKey(v)>>] = v /\ result[RKey(v)] = NoResult /\ RKey(v) \in ResultKey
      BY <1>0, <1>5 DEF ClientInv, ResultIsHeld
    <2>2. lock[<<"result", rk>>] = w
      BY <1>0, <1>1 DEF ClientInv, ResultIsHeld
    <2> QED BY <1>2, <1>3, <2>1, <2>2, RowFacts DEF Untouched
  <1>11. WasToldTheTruth(v)'
    <2> SUFFICES ASSUME answer[v] \in {"created", "replayed"}
                 PROVE  result'[RKey(v)] # NoResult /\ SameRequest(result'[RKey(v)], request[v])
      BY <1>3, <1>4 DEF WasToldTheTruth, Untouched, SameRequest
    <2>1. /\ result[RKey(v)] # NoResult /\ SameRequest(result[RKey(v)], request[v])
          /\ RKey(v) \in ResultKey
      BY <1>0, <1>5 DEF ClientInv, WasToldTheTruth
    <2> QED BY <1>1, <1>2, <2>1
  <1> QED BY <1>6, <1>7, <1>8, <1>9, <1>10, <1>11 DEF ClientInv

\* The import is committed.
LEMMA CommitAllPreserves ==
  ASSUME ImportInv, NEW w \in Client, CommitAll(w)
  PROVE  ImportInv'
  <1> PICK rk, c, t, new : /\ rk = RKey(w) /\ c = request[w].content /\ t = request[w].token
                           /\ new = [content |-> c, captured |-> request[w].captured, token |-> t]
    OBVIOUS
  <1>0. ImportTypeOK /\ TableInv /\ ClientInv(w)
    BY DEF ImportInv
  <1>1. /\ c \in Content /\ t \in Token /\ rk \in ResultKey
        /\ request[w] \in Request
        /\ Stored(request[w].captured) = request[w].captured
        /\ new.content = c /\ new.captured = request[w].captured /\ new.token = t
    BY CommitFacts
  <1>2. /\ result' = [result EXCEPT ![rk] = new]
        /\ applied' = [applied EXCEPT ![c] = @ + 1]
        /\ rawObject' = rawObject \cup {c} /\ consumed' = consumed \cup {t}
        /\ UNCHANGED <<preview, expired, archived>>
    BY DEF CommitAll
  <1>3. PICK a \in {"created", "error"} : Reply(w, a)
    BY CommitFacts
  <1>4. /\ \A m \in Row : lock'[m] # w /\ lock'[m] \in {Nobody, lock[m]}
        /\ lock' \in [Row -> Client \cup {Nobody}]
    BY <1>0, <1>3, ReleaseFacts DEF Reply
  <1>5. ImportTypeOK'
    <2>1. new \in Result
      BY <1>1 DEF Request, Result
    <2>2. /\ result' \in [ResultKey -> Result \cup {NoResult}]
          /\ applied' \in [Content -> Nat]
          /\ rawObject' \subseteq Content /\ consumed' \subseteq Token
          /\ preview' = preview /\ expired' = expired /\ archived' = archived
      BY <1>0, <1>1, <1>2, <2>1 DEF ImportTypeOK
    <2> QED BY <1>0, <1>3, <1>4, <2>2 DEF ImportTypeOK, Reply, Phase, Answer
  <1>6. phase'[w] = "idle" /\ request' = request
    BY <1>0, <1>3 DEF ImportTypeOK, Reply
  <1>7. WasToldTheTruth(w)'
    <2>1. RKey(w)' = rk
      BY <1>6 DEF RKey
    <2>2. result'[rk] = new
      BY <1>0, <1>1, <1>2 DEF ImportTypeOK
    <2>3. new # NoResult
      BY <1>1, NoneFacts
    <2> QED BY <1>1, <1>6, <2>1, <2>2, <2>3 DEF WasToldTheTruth, SameRequest
  <1>8. ClientInv(w)'
    BY <1>1, <1>6, <1>7 DEF ClientInv, RequestIsSent, TokenIsHeld, FileIsArchived, RawIsHeld,
                           RowsAreNew, ResultIsHeld
  <1> QED BY <1>5, <1>8, CommitTables, CommitLeavesOthers DEF ImportInv

-----------------------------------------------------------------------------
(* The theorems.                                                           *)

\* Every step preserves the invariant.
LEMMA NextPreserves == ImportInv /\ [ImportNext]_importVars => ImportInv'
  <1> SUFFICES ASSUME ImportInv, [ImportNext]_importVars PROVE ImportInv'
    OBVIOUS
  <1>1. CASE UNCHANGED importVars
    <2>1. NothingCommitted /\ ImportTypeOK'
      BY <1>1 DEF importVars, tableVars, clientVars, NothingCommitted, ImportInv, ImportTypeOK
    <2> QED BY <1>1, <2>1, NoClientMoves DEF importVars
  <1>2. ASSUME NEW t \in Token, Expire(t) \/ \E c \in Content, at \in Instant : IssueToken(t, c, at)
        PROVE  ImportInv'
    BY <1>2, ExpirePreserves, IssueTokenPreserves
  <1>3. ASSUME NEW w \in Client, NEW r \in Request, BeginCommit(w, r) PROVE ImportInv'
    BY <1>3, BeginCommitPreserves
  <1>4. ASSUME NEW w \in Client, CommitStep(w) PROVE ImportInv'
    <2>1. CASE RejectRows(w)
      BY <2>1, ReplyPreserves DEF RejectRows, Answer
    <2> QED BY <1>4, <2>1, LookupResultPreserves, LockTokenPreserves, ArchiveFilePreserves,
               RegisterRawPreserves, WriteRowsPreserves, InsertResultPreserves,
               CommitAllPreserves DEF CommitStep
  <1>5. ASSUME NEW w \in Client, AbortCommit(w) PROVE ImportInv'
    BY <1>5, ReplyPreserves DEF AbortCommit, Answer
  <1> QED BY <1>1, <1>2, <1>3, <1>4, <1>5 DEF ImportNext

\* The locks, the tables and the archive agree in every state.
THEOREM Invariance == ImportSpec => []ImportInv
  BY InitEstablishes, NextPreserves, PTL DEF ImportSpec

\* Type correctness, and no row stays locked by a request that was answered.
THEOREM TypeCorrect == ImportSpec => []ImportTypeOK
  <1>1. ImportInv => ImportTypeOK
    BY DEF ImportInv
  <1> QED BY Invariance, <1>1, PTL

\* No retry, second token, lost answer or concurrent commit applies a file more
\* or less often than it has results, and its bytes are in the archive.
THEOREM WholeImports == ImportSpec => []ImportsAreWhole
  <1>1. ImportInv => ImportsAreWhole
    BY DEF ImportInv, TableInv, ResultsAreCounted, ImportsAreWhole, AppliedAsRecorded
  <1> QED BY Invariance, <1>1, PTL

\* A token commits one import, the one that was previewed.
THEOREM TokensHold == ImportSpec => []TokenCommitsItsPreview
  <1>1. ImportInv => TokenCommitsItsPreview
    BY DEF ImportInv, TableInv
  <1> QED BY Invariance, <1>1, PTL

\* "created" and "replayed" are never said of somebody else's import.
THEOREM AnswersHold == ImportSpec => []AnswersAreTrue
  <1>1. ImportInv => AnswersAreTrue
    BY DEF ImportInv, ClientInv, WasToldTheTruth, AnswersAreTrue
  <1> QED BY Invariance, <1>1, PTL

\* The same price file under two keys, even at once, inserts its revisions once.
THEOREM PricesOnce == ImportSpec => []PricesAreAppliedOnce
  <1>1. ImportInv => PricesAreAppliedOnce
    BY DEF ImportInv, TableInv
  <1> QED BY Invariance, <1>1, PTL
=============================================================================
