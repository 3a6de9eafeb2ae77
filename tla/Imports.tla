------------------------------- MODULE Imports -------------------------------
(***************************************************************************)
(* Preview and commit of manual CSV imports: internal/imports/service.go   *)
(* on import_preview_tokens and import_results (migration 00005).          *)
(*                                                                         *)
(* Commit is one READ COMMITTED transaction of several statements, which   *)
(* run as steps of their own: a statement sees what is committed when it   *)
(* starts, SELECT ... FOR UPDATE and INSERT into a unique index wait for   *)
(* the transaction that holds the row.  lock names the holder.  What the   *)
(* transaction has written itself becomes visible in the Commit step.      *)
(*                                                                         *)
(* A file is abstracted to its Content; the target and the schema version  *)
(* are bound and compared like the content and are part of it.  A file of  *)
(* one kind is not valid as the other, so the content determines the kind. *)
(* The clock only matters to the expiry of a token, which may come at any  *)
(* moment.                                                                 *)
(***************************************************************************)
EXTENDS Naturals, FiniteSets

CONSTANTS
    Token,          \* rows of import_preview_tokens
    NoToken,        \* a token that was never issued
    Key,            \* idempotency keys
    Positions,      \* contents of position files
    Prices,         \* contents of price files
    Instant,        \* captured_at of a request, in units below a microsecond
    Unit,           \* how many of those units PostgreSQL cannot tell apart
    Client,         \* requests being served
    Nobody          \* the row is not locked

ASSUME ImportAssumption ==
    /\ Positions \cap Prices = {}
    /\ "none" \notin Positions \cup Prices
    /\ Instant \subseteq Nat
    /\ Unit \in Nat \ {0}
    /\ NoToken \notin Token
    /\ Nobody \notin Client

VARIABLES
    preview,        \* the request each token was issued for, NoPreview if none
    expired,        \* tokens whose expires_at has passed
    consumed,       \* tokens with a consumed_at
    result,         \* import_results, by kind and key; NoResult if none
    applied,        \* how often each content has been written
    rawObject,      \* contents with a row in raw_objects
    archived,       \* contents in the archive
    lock,           \* the transaction that holds each row
    phase,          \* the next statement of each request
    request,        \* what the client sent
    answer          \* what it was told

tableVars  == <<preview, expired, consumed, result, applied, rawObject, archived>>
clientVars == <<phase, request, answer>>
importVars == <<tableVars, lock, clientVars>>

Content == Positions \cup Prices
Kind(c) == IF c \in Positions THEN "positions" ELSE "manual-prices"

\* capturedAtForKind: a price file has no captured_at.
CapturedAt(c, t) == IF c \in Positions THEN t ELSE 0

\* A captured_at as PostgreSQL keeps it, cut to microseconds.
Stored(t) == t - (t % Unit)

NoPreview == [content |-> "none", captured |-> 0]
NoResult  == [content |-> "none", captured |-> 0, token |-> NoToken]

Preview == [content : Content, captured : Instant \cup {0}]
Result  == [content : Content, captured : Instant \cup {0}, token : Token]
Request == [content : Content, captured : Instant \cup {0},
            token : Token \cup {NoToken}, key : Key]

ResultKey == {"positions", "manual-prices"} \X Key
Row == ({"token"} \X Token) \cup ({"raw"} \X Content) \cup ({"result"} \X ResultKey)

Phase  == {"idle", "lookup", "token", "archive", "raw", "write", "result", "commit"}
Answer == {"none", "created", "replayed", "conflict", "invalid", "error"}

ImportInit ==
    /\ preview = [t \in Token |-> NoPreview]
    /\ expired = {}
    /\ consumed = {}
    /\ result = [rk \in ResultKey |-> NoResult]
    /\ applied = [c \in Content |-> 0]
    /\ rawObject = {}
    /\ archived = {}
    /\ lock = [r \in Row |-> Nobody]
    /\ phase = [c \in Client |-> "idle"]
    /\ request = [c \in Client |-> NoResult]
    /\ answer = [c \in Client |-> "none"]

-----------------------------------------------------------------------------
(* Preview.                                                                *)

\* A valid file gets a fresh token, bound to what was previewed.
IssueToken(t, c, at) ==
    /\ preview[t] = NoPreview
    /\ preview' = [preview EXCEPT ![t] = [content |-> c, captured |-> CapturedAt(c, at)]]
    /\ UNCHANGED <<expired, consumed, result, applied, rawObject, archived,
                   lock, clientVars>>

Expire(t) ==
    /\ preview[t] # NoPreview /\ t \notin expired
    /\ expired' = expired \cup {t}
    /\ UNCHANGED <<preview, consumed, result, applied, rawObject, archived,
                   lock, clientVars>>

-----------------------------------------------------------------------------
(* The transaction of Commit.                                              *)

RKey(w) == <<Kind(request[w].content), request[w].key>>

\* Row r is not held by another transaction.
Free(r, w) == lock[r] \in {Nobody, w}

Take(r, w) == lock' = [lock EXCEPT ![r] = w]

\* Variant of Release for a transaction that is neither committed nor rolled back.
ReleaseNothing(w) == UNCHANGED lock

Release(w) == lock' = [r \in Row |-> IF lock[r] = w THEN Nobody ELSE lock[r]]

Goto(w, ph) ==
    /\ phase' = [phase EXCEPT ![w] = ph]
    /\ UNCHANGED <<request, answer>>

\* Commit returns; unless it has committed, the deferred Rollback undoes it.
Reply(w, a) ==
    /\ phase' = [phase EXCEPT ![w] = "idle"]
    /\ answer' = [answer EXCEPT ![w] = a]
    /\ Release(w)
    /\ UNCHANGED request

BeginCommit(w, r) ==
    /\ phase[w] = "idle"
    /\ phase' = [phase EXCEPT ![w] = "lookup"]
    /\ request' = [request EXCEPT ![w] = r]
    /\ answer' = [answer EXCEPT ![w] = "none"]
    /\ UNCHANGED <<tableVars, lock>>

\* The columns of a stored row against request r: content, and captured_at as it
\* comes back from the database against the one parsed from the request.
SameRequest(row, r) ==
    /\ row.content = r.content
    /\ Stored(row.captured) = r.captured

\* Variant of Existing that replays whatever the key holds.
ExistingUnchecked(w) == "replayed"

\* The answer to a request whose key has a result already.
Existing(w) == IF SameRequest(result[RKey(w)], request[w]) THEN "replayed" ELSE "conflict"

LookupResult(w) ==
    /\ phase[w] = "lookup"
    /\ IF result[RKey(w)] # NoResult
       THEN Reply(w, Existing(w))
       ELSE Goto(w, "token") /\ UNCHANGED lock
    /\ UNCHANGED tableVars

TokenFits(w) ==
    /\ request[w].token \in Token
    /\ request[w].token \notin consumed \cup expired
    /\ SameRequest(preview[request[w].token], request[w])

\* Variant of LockToken without FOR UPDATE.
ReadToken(w) ==
    /\ phase[w] = "token"
    /\ IF TokenFits(w) THEN Goto(w, "archive") /\ UNCHANGED lock ELSE Reply(w, "conflict")
    /\ UNCHANGED tableVars

\* SELECT ... FOR UPDATE of the token, and the checks on it.
LockToken(w) ==
    LET row == <<"token", request[w].token>> IN
    /\ phase[w] = "token"
    /\ IF TokenFits(w)
       THEN Free(row, w) /\ Take(row, w) /\ Goto(w, "archive")
       ELSE /\ request[w].token \in Token => Free(row, w)
            /\ Reply(w, "conflict")
    /\ UNCHANGED tableVars

\* validateDomainRows, then ArchivePayload; an archived object stays.
ArchiveFile(w) ==
    /\ phase[w] = "archive"
    /\ archived' = archived \cup {request[w].content}
    /\ Goto(w, "raw")
    /\ UNCHANGED <<preview, expired, consumed, result, applied, rawObject, lock>>

\* A row names an account or an instrument that does not exist.
RejectRows(w) ==
    /\ phase[w] \in {"archive", "write"}
    /\ Reply(w, "invalid")
    /\ UNCHANGED tableVars

\* INSERT INTO raw_objects ... ON CONFLICT DO NOTHING.
RegisterRaw(w) ==
    LET row == <<"raw", request[w].content>> IN
    /\ phase[w] = "raw"
    /\ Free(row, w)
    /\ IF request[w].content \in rawObject THEN UNCHANGED lock ELSE Take(row, w)
    /\ Goto(w, "write")
    /\ UNCHANGED tableVars

\* commitPositions inserts a new snapshot; commitPrices inserts revisions, which
\* are unique for their raw object (a valid file has at least one row).
WriteRows(w) ==
    /\ phase[w] = "write"
    /\ IF request[w].content \in Prices /\ applied[request[w].content] > 0
       THEN Reply(w, "invalid")
       ELSE Goto(w, "result") /\ UNCHANGED lock
    /\ UNCHANGED tableVars

\* Variant of InsertResult for an index that is not unique.
InsertResultAnyway(w) ==
    /\ phase[w] = "result"
    /\ Goto(w, "commit")
    /\ UNCHANGED <<lock, tableVars>>

\* Variant of InsertResult that tries again until its own row goes in.
InsertResultRetrying(w) ==
    LET row == <<"result", RKey(w)>> IN
    /\ phase[w] = "result"
    /\ Free(row, w) /\ result[RKey(w)] = NoResult
    /\ Take(row, w) /\ Goto(w, "commit")
    /\ UNCHANGED tableVars

\* INSERT INTO import_results ... ON CONFLICT DO NOTHING.
InsertResult(w) ==
    LET row == <<"result", RKey(w)>> IN
    /\ phase[w] = "result"
    /\ Free(row, w)
    /\ IF result[RKey(w)] # NoResult
       THEN Reply(w, Existing(w))
       ELSE Take(row, w) /\ Goto(w, "commit")
    /\ UNCHANGED tableVars

\* The token is consumed and the transaction commits.  The client may be told of
\* an error all the same, when the acknowledgement of COMMIT is lost.
CommitAll(w) ==
    LET r == request[w] IN
    /\ phase[w] = "commit"
    /\ result' = [result EXCEPT ![RKey(w)] =
           [content |-> r.content, captured |-> r.captured, token |-> r.token]]
    /\ applied' = [applied EXCEPT ![r.content] = @ + 1]
    /\ rawObject' = rawObject \cup {r.content}
    /\ consumed' = consumed \cup {r.token}
    /\ \E a \in {"created", "error"} : Reply(w, a)
    /\ UNCHANGED <<preview, expired, archived>>

\* A statement fails, the archive is down, or the process dies.
AbortCommit(w) ==
    /\ phase[w] # "idle"
    /\ Reply(w, "error")
    /\ UNCHANGED tableVars

CommitStep(w) ==
    \/ LookupResult(w) \/ LockToken(w) \/ ArchiveFile(w) \/ RejectRows(w)
    \/ RegisterRaw(w) \/ WriteRows(w) \/ InsertResult(w) \/ CommitAll(w)

ImportNext ==
    \/ \E t \in Token :
          Expire(t) \/ \E c \in Content, at \in Instant : IssueToken(t, c, at)
    \/ \E w \in Client :
          \/ \E r \in Request :
                r.captured = CapturedAt(r.content, r.captured) /\ BeginCommit(w, r)
          \/ CommitStep(w)
          \/ AbortCommit(w)

ImportSpec == ImportInit /\ [][ImportNext]_importVars

\* A statement that can run does run, or its connection fails; those that wait
\* for a row get it in turn, so none is passed over for ever.
FairImportSpec ==
    ImportSpec /\ \A w \in Client : SF_importVars(CommitStep(w))

-----------------------------------------------------------------------------
(* Properties.                                                             *)

\* Every variable holds a value of its type, and only rows of running
\* transactions are locked.
ImportTypeOK ==
    /\ preview \in [Token -> Preview \cup {NoPreview}]
    /\ expired \subseteq Token /\ consumed \subseteq Token
    /\ result \in [ResultKey -> Result \cup {NoResult}]
    /\ applied \in [Content -> Nat]
    /\ rawObject \subseteq Content /\ archived \subseteq Content
    /\ lock \in [Row -> Client \cup {Nobody}]
    /\ phase \in [Client -> Phase]
    /\ answer \in [Client -> Answer]
    /\ request \in [Client -> Request \cup {NoResult}]
    /\ \A w \in Client : phase[w] # "idle" => request[w] \in Request
    /\ \A r \in Row : lock[r] # Nobody => phase[lock[r]] # "idle"

\* The results that content c has.
ResultsOf(c) == {rk \in ResultKey : result[rk].content = c}

\* Every import is applied exactly as often as there are results for it: no
\* retry, second token or lost answer applies a file twice under one key, and
\* nothing of a refused commit stays.
AppliedAsRecorded == \A c \in Content : applied[c] = Cardinality(ResultsOf(c))

\* A token commits one import, the one that was previewed, and is consumed
\* exactly when it did.
TokenCommitsItsPreview ==
    /\ \A rk \in ResultKey : result[rk] # NoResult =>
          /\ result[rk].token \in consumed
          /\ result[rk].content = preview[result[rk].token].content
    /\ \A t \in consumed : \E rk \in ResultKey :
          /\ result[rk].token = t
          /\ \A other \in ResultKey : result[other].token = t => other = rk

\* A client that was told "created" or "replayed" finds its own import under its
\* key, whoever else used the key at the same time.
AnswersAreTrue ==
    \A w \in Client : answer[w] \in {"created", "replayed"} =>
        SameRequest(result[RKey(w)], request[w])

\* The bytes of a committed import are in the archive.
CommittedIsArchived == rawObject \subseteq archived

\* A commit is all or nothing over the tables and the object store, wherever it
\* is broken off and whoever commits at the same time.
ImportsAreWhole == AppliedAsRecorded /\ CommittedIsArchived

\* Commits that wait for each other's tokens, raw objects and results never wait
\* in a circle: of those in progress one can go on.  Every statement brings its
\* commit closer to an answer, so all of them are answered in the end.
SomeCommitCanGoOn ==
    (\E w \in Client : phase[w] # "idle")
        => \E w \in Client : phase[w] # "idle" /\ ENABLED CommitStep(w)

\* Client w is told "conflict" in this step.
Refused(w) == phase[w] # "idle" /\ phase'[w] = "idle" /\ answer'[w] = "conflict"

\* What AR-202 says, "A replay with the same key returns the original result even
\* though its preview token has already been consumed".
ReplayReturnsResult ==
    [][\A w \in Client : Refused(w) => ~ SameRequest(result[RKey(w)], request[w])]_importVars
==============================================================================
