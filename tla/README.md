# Lexchain backend: TLA+ models, checks and proofs

This directory holds a formal model of the Lexchain backend (`src/backend/src/app`):
TLA+ modules, TLC configurations, and proofs checked by TLAPS. File and line
references below are relative to `src/backend/src/app`.

The backend is a FastAPI service run as one uvicorn process. It keeps notarial
register books for lawyers in PostgreSQL, and leaves identities, passwords and sessions
to Supabase Auth. Every request is a coroutine with a database session of its own; a
request gives way to the others at every `await`, which is to say at every SQL
statement and every call to Supabase.

## 1. Inventory

| Component | State | Operations | Talks to |
|---|---|---|---|
| books service (`features/books/service.py`, `repository.py`) | none of its own | create, close, delete, check_filing, claim_entry, two reads | books table, documents table |
| books table (`features/books/models.py`) | rows, two unique indexes, row locks | SQL | PostgreSQL |
| accounts service (`features/accounts/service.py`, `repository.py`) | none of its own | sign_up, sign_in, sign_out, resend | Supabase, users table |
| users table (`features/accounts/models.py`) | rows, two unique columns | SQL | PostgreSQL |
| database session (`infrastructure/database/sessions.py`, `base_repository.py`) | one transaction, one identity map per request; a pool of 5 + 10 connections | flush, commit, rollback | PostgreSQL |
| authentication (`infrastructure/security/`) | the cached JWKS client | verify a token, load the user, require the lawyer role | Supabase JWKS, users table |
| rate limiter (`infrastructure/rate_limiting/limiter.py`) | counters per client and route | admit or answer 429 | every route |
| error responses (`main.py`, `shared/errors/`) | none | map an exception to a status | every route |
| validators, settings, logging | none that changes | pure | |
| documents feature | the documents table | files documents through claim_entry | books service |

The documents feature is **not in the repository**. `books/repository.py` imports
`app.features.documents.models` inside four of its methods (lines 41, 72, 90, 104), and
`check_filing` and `claim_entry` have no caller. Its table and its use of the two
methods are modelled as external, from the columns the repository queries and from the
docstring of `claim_entry` ("the caller commits together with the document row").

What is hard here:

* **Check, then act.** `create_book` and `close_book` decide on rows they read without a
  lock; `delete_book` looks for documents and deletes in two statements.
* **One lock, and a stale object behind it.** `claim_entry` serialises filings by the row
  lock of the book, but SQLAlchemy does not refresh an object the session already holds.
* **Commit boundaries.** The books service commits inside the handler and goes on
  working afterwards; the accounts service never commits, and `get_db` does so after
  the response has been sent.
* **Two stores.** `sign_up` writes Supabase and the users table with no transaction across
  them, and compensates.
* **Failures.** A statement or a COMMIT may raise, with or without effect; Supabase may
  carry a call out and still raise; the process may die between any two steps.
* **Two pools.** Every authenticated request needs a worker thread and a connection; a
  logout waits for a second thread while it holds a connection, `close_book` gives its
  connection back and needs one again.
* **Capacity.** 106 pages of 5 lines, an integer column for the document number, and a
  last entry that closes the register.

What makes each component correct:

* books: numbers and open books are unique per lawyer and year; entries are distinct and
  pages not overfilled; closing is one-way; a full register is closed; only owners change
  a book; a filed book is not deleted; answers are true; nobody waits forever; automatic
  numbers leave no gap. Most of it follows from one statement: the service behaves like a
  desk at a sequential register, where each call is served at once or not at all.
* accounts: no identity without a row and no row for two identities; compensation undoes
  only what the request did; a token is given only to a provisioned, active account; a
  logout never ends one device's session and leaves another's; rows and tokens are those
  of a directory kept by one clerk.
* authentication: nobody barred since before his request reaches a handler; threads that
  race for the JWKS client neither multiply it without bound nor lose a cached key.
* rate limiter: no period sees two full windows.
* connections and worker threads: whatever ends a request gives back its connection, once;
  requests that wait for Supabase with a connection in hand never bring all to a stop.

`PROJECT.json` lists every hazard at its line with the properties that cover it.

## 2. Modules

| Module | Content |
|---|---|
| `BookRules` | rows, queries, unique indexes and numbering, as operators on the tables |
| `Books` | the books service as interleaved transactions |
| `Register` | what the books feature promises: the same operations, one at a time |
| `Desk` | what it promises each caller: served once by one operation of the register, or refused rightly; extends `Register` |
| `BooksProofs` | the inductive invariant of `Books`, and the theorems about its tables and locks |
| `AnswersProofs` | the theorems about `Books` that speak of answers and owners |
| `NumberingProofs` | the theorems that automatic numbers leave no gap |
| `DeskProofs` | that `Books` implements `Desk` |
| `RegisterProofs` | that `Desk` is a `Register`, and that a register is sound |
| `Accounts` | the accounts service with Supabase and the users table |
| `Directory` | what the accounts feature promises of its rows and tokens, one sign-up or sign-in at a time |
| `AccountsProofs` | the theorems about `Accounts` |
| `Limiter` | the rate limiter alone |
| `LimiterProofs` | its theorem |
| `Semaphore` | what a bounded resource promises |
| `Api` | the way of every request through limiter, authentication, handler and session, with the two pools they share; extends `Limiter`, implements `Semaphore` with its connections |
| `ApiProofs` | the theorems about `Api` |
| `MCBooks`, `MCAccounts`, `MCApi` | the calls and symmetries of the model-checked instances |

Definitions whose name ends in a bug (`LockBook_NoLock`, `PageFull_OffByOne`) are wrong on
purpose. Nothing uses them: putting one in place of the definition after it breaks the
property named for it in `PROJECT.json`, which shows that the property depends on that
line of the code.

### Books

`books` and `docs` are the committed tables; `lock` the row locks; for each request, `pc`
is the statement it executes next, `view` the Book its session holds, `write` its flushed
row, `entry` the document it has claimed. One action is one SQL statement together with
the Python around it, up to the next `await`. Where several statements run under the row
lock and read only what that lock protects, they are one action: `ClaimEntry` stands for
the aggregate, the count, the duplicate check and the automatic close of `claim_entry`
(service.py:160-190). Only `Supersede`, which takes no book lock, could come between
them; it makes numbers free and never takes one.

Transactions are READ COMMITTED, PostgreSQL's default: a statement sees what is
committed. An INSERT that meets an uncommitted index entry waits for its transaction
(`InsertWaitsFor`), then fails or goes on. UPDATE and DELETE wait for the row lock
(`Unlocked`) and act on the row as it is by then. An INSERT is one step, although in
PostgreSQL one that waits at the second unique index already has its entry in the first.
That closes no circle of waits: entries are made in one order of the indexes, so a request
always waits for one that is further on. `Commit` publishes `write` and `entry` at once. `Refuse` is an exception that leaves the handler: `get_db` rolls back.

| Code | Actions |
|---|---|
| create_book | `FindByNumber`, `FindOpen`, `InsertBook`, `CommitCreate` |
| close_book | `GetForClose`, `UpdateStatus`, `CommitClose`, `RefreshClosed` |
| delete_book | `GetForDelete`, `CheckDocuments`, `DeleteRow`, `CommitDelete` |
| check_filing, claim_entry | `CheckFiling`, `LockBook`, `ClaimEntry` |
| the caller of claim_entry (external) | `CommitFile`, `AbandonFile` |
| a new version of a document (external) | `Supersede` |
| failures | `StatementFails`, `CommitAnswerLost`, `Crash` |

Four constants say what the repository leaves open: `KeepsBook` (the caller holds on to the
Book of `check_filing`), `DocumentsKeepBook` (`documents.book_id` is a restricting foreign
key), `DocumentsFeature` (the module can be imported), `Superseding` (documents get
versions). `closed_at` holds the request that stamped it instead of a time: two stamps
differ exactly when two requests wrote them.

`Register` states the promise on its own terms, without the operators of `BookRules`. The
refinement mapping is the identity on `books` and `docs`: what is uncommitted is what the
register does not have.

`Desk` adds the callers, which `Register` does not know. A call is asked, served by one
operation of the register (the one it asked for, with its own user, book and numbers), and
reported; or it is refused, at a moment when it could not be served; or it ends in an error,
served or not. The mapping reads `desk` off `pc` and `answer` (`Standing`): a call is asked
until its commit, served while `close_book` refreshes what it has committed, then answered.
This is linearizability with the answers included: a 201, 200 or 204 without a commit, a
commit answered with a 4xx, a call committed twice, or a 404 for a book that was the caller's all
the time, is no behaviour of `Desk`. It also says what is easily promised too strongly: a delete
answered 204 may have found the book gone already (`Delete`), a filing into a book closed
meanwhile needs both numbers (`File`), and a filing that leaves its numbers to the service is
refused only when the book is closed or its last page full, or for the number it did give
(`NoPlace`).

### Accounts

`auth` and `sessions` are Supabase's, `users` the committed local rows. `wanted` is what
Supabase's answer tells the request to write, `view` the User its session loaded, `write`
its flushed row. A request at `commit` has been answered and not yet committed, the
order in which FastAPI runs the exit code of a `yield` dependency. `made`, `ending` and
`cut` are history variables for the properties.

| Code | Actions |
|---|---|
| sign_up | `CreateIdentity`, `FindUser`, `InsertUser` or `UpdateUser`, `Compensate` on failure |
| sign_in | `CheckPassword`, `FindUser`, `UpdateUser` (or a refused `InsertUser`), `CheckActive` |
| sign_out | `Authorize` (get_current_user), `Revoke` |
| resend_verification_email | `SendMail` |
| get_db | `Commit`, `CommitFails`, and the rollback in `Refuse` |
| failures | `StatementFails`, `SupabaseRaises`, `Crash` |
| external | `Confirm`, `ChangeEmail`, `SetActive` |

Supabase is external. The model assumes what the service expects of it: a confirmed
address is refused ("already registered"), an unconfirmed address gets its identity again,
an unconfirmed address gets no session, a global sign-out ends every session of the
account when it is presented with a live one and none otherwise, a sign-out may be refused
for other reasons (a rate limit, an error of its own), and a call that raises may have been
carried out. `twin_signup` depends on the second of these.

What a logout promises needs care. `sign_out` takes every AuthApiError for a session that is
over already (service.py:245) and answers 200. So a 200 does not mean that the account is
signed out of every device (router.py:90): Supabase may have refused with all sessions
live; and a token whose own session is over passes `get_current_user`, which verifies it
locally, and ends nothing, although the account may have signed in anew since. Both are
behaviours of `Revoke`. What holds, and what `DevicesGoOutTogether` says, is what a client can
rely on whatever it was answered: if its session was live when the logout was let in
(`ending` is the set of all live sessions of the account at that moment) and is over later,
then so is every other of that set.

`sign_in` reads the row twice. Nobody keeps the User that `sync_from_supabase` returns
(service.py:184), and SQLAlchemy's identity map holds its objects weakly, so the second
reading loads the row as it is by then: the request's own flushed write, or what is committed
(`Seen`). A sign_in that went by the first reading (`CheckActive_AsLoaded`) would hand a token
to an account deactivated in between, which `TokensGoToTheActive` excludes. The branch for
a row that is not found (service.py:192) is left out: rows are never deleted, and the sync
has just found one.

`DeactivationStands` is about the two statements of `sync_from_supabase`: the row is read in
one and written in another, and an administrator may deactivate the account in between.
SQLAlchemy writes only the attributes that were assigned, so the flag survives; a session
that wrote whole rows (`Updated_WholeRow`) would undo the deactivation.

`Directory` knows neither Supabase nor requests: people enrol, entries follow their identity's
address, the administrator suspends, tokens are handed out. Its `rows` are `users`; its
`holder` of a token is the account whose sign_in was answered with it (`Holder`). The mapping
hides a session from when Supabase makes it until `sign_in` hands it out, and shows its
account ever after, so that a token handed out without a row is no step of the directory, nor
is an UPDATE that changes more of a row than its address and verification.

### Api and Limiter

`Books` and `Accounts` say what handlers do to tables. `Api` says what every request does
around its handler, and there a handler matters only for what it holds while it waits.
`req[r].at` is the place of a request, `connections` and `workers` what the two pools can
still give, `client` and `seen` the global JWKS client and the key caches, `account` the row
of the user whose token is presented. `warm` and `barred` are histories for two properties.

| Code | Actions |
|---|---|
| rate limit (middleware or decorator) | `CountCall`, with `Admit` or `TurnAway` of `Limiter` |
| `asyncio.to_thread(verify_jwt_token, ...)` | `Authenticate`, `MakeClient`, `FindKey`, `Fetch`, each with `Decode` where it ends |
| `get_current_user`, `require_lawyer` | `LoadUser` |
| handlers of books | `Handle`, and `Reload` for the refresh after `close_book`'s commit |
| handlers of /auth | `CallSupabase`, `SupabaseReturns`, `Sync` (and the compensation), `Commit` |
| `get_db`'s exit, the pool | `End`, `TakeConnection`, `PoolTimeout` |
| external | `SetAccount`, `TimePasses`, `Restart` |

Where the limit is checked differs by route. Routes of books have no decorator and are
counted in the middleware, before anything else. A decorated route is counted when its
handler is called, which FastAPI does after it has resolved the dependencies: a logout has
then been authenticated and holds a connection, and a 429 must give it back. (The comment at
`limiter.py:19` that the limit is raised "before any application code runs" is not true of
logout.)

Verifications run in real threads, so each read or write of the global client is a step.
`_get_jwks_client` tests, makes and returns in three: two threads may each make a client,
and the `return` reads the global again, so a thread may get the other's.

What is abstracted:

* Row locks in a handler of books are the subject of `Books`; `Handle` is all of the
  handler that holds a connection.
* PyJWT caches the key set and, per key, the key. `seen` stands for both; that a cached set
  expires is left out, so `WarmKeysNeedNoNetwork` speaks of the time before it does.
* FastAPI's synchronous dependencies (`require_lawyer`, the service factories) run in
  anyio's thread pool, another one, and wait for nothing.
* A request without a bearer token or with a malformed body is answered before `Begin`.
* One client address: counters of different addresses do not meet.

`Semaphore` is the abstract specification of a pool. The refinement mapping reads the
holders of connections off the places of the requests: a request holds one exactly between its
session's first statement and the end of its transaction. `PoolIsSemaphore` therefore fails
when any path through handlers, refusals and `get_db` keeps a connection, or returns it twice.
Worker threads come back by themselves when what `asyncio.to_thread` runs returns or raises:
they are counted because requests wait for them, not because the code could lose one.

## 3. Runs

| Run | Result | Shows |
|---|---|---|
| `shelf` | pass | two lawyers, two books, faults: unique numbers, one open book, one-way closing, ownership, true answers, deletion spares filed books, and `Books` implements `Desk` |
| `filing` | pass | one book to its last line: distinct entries, capacity, closing when full, suggestions without gaps, and `Books` implements `Register` and `Desk` |
| `books_live` | pass | every call is answered; who holds what another waits for does not wait |
| `stale_check` | violation | a stale Book lets automatic numbers into a closed book |
| `double_close` | violation | two concurrent closes both answer 200 |
| `lost_book` | violation | a book is deleted with the document that was filed after the check |
| `accounts` | pass | an identity without a row has a cause, one row per identity, tokens only for provisioned and active accounts, deactivations stand, and `Accounts` implements `Directory` |
| `logout` | pass | the sessions of an account end together, whatever a logout is answered |
| `api` | pass | the pools are semaphores, someone can always go on, barred callers stay out, few clients, warm keys, no double window |
| `commit_orphan` | violation | a failed COMMIT leaves an orphan that nothing compensates |
| `twin_signup` | violation | a compensation deletes the identity another sign-up created |
| `unprovisioned` | violation | sign-in of an identity without a row fails with 500, never 401 |

The violations are disagreements between the code and its own words; `PROJECT.json`
quotes both under `findings`. Two things to know of them. `stale_check` supposes a caller
that keeps the checked Book, which the signature of `check_filing` invites; with
`KeepsBook = FALSE` the property holds and is proved. `lost_book` supposes that nothing but
the code keeps a book with documents: no foreign key is declared in the repository. With a
restricting one (`DocumentsKeepBook = TRUE`) the same interleaving violates the property
too: the DELETE fails and the answer is 500 instead of 409. What `delete_book` can and
does promise is `DeleteSparesFiled`: a book that held a document when the delete began is not
deleted.

### Bounds

* Two requests. Every race listed is between two requests; each slot is reused without
  limit, so a run contains any number of requests, two at a time.
* `Book` and `AuthId` are ids never given twice. A create or a sign-up begins only
  while one is left (`UuidLeft`, `IdLeft`): two books are needed for the uniqueness
  properties, one is enough for filing, two identities for a re-used address.
* `ImplementsDesk` is checked twice: in `shelf` with two owners, two books and superseded documents,
  in `filing` with several pages and explicit numbers. No safety run supposes a foreign key from
  documents to books; `books_live` does, so that its branch of `DeleteRow` is taken.
  `SuggestionsLeaveNoGap` is checked in `filing`, where nothing is superseded: a superseded
  document frees its number, which is a gap by intent.
* `shelf` has one page of one line, so that one filing fills a book. `filing` has two pages
  of two lines, so that pages fill, suggestions move to the next page, and the last line
  closes the book. `MaxDocNo = 4` leaves no room after the fourth number, so the column
  overflows in a few steps.
* Explicit numbers cover a free one, a taken one, one below range, and a page beyond the
  last.
* `MaxSessions = 3` in `logout`: the token presented, another of the account, and one that
  starts during the logout. `accounts` needs one session; `logout` one identity.
* `api` has three requests, two worker threads and one connection: threads enough for two
  verifications to race, requests enough for one to hold the connection, one to wait for it
  and one to hold or want a thread. One signing key: caches of different keys do not meet,
  and a fresh client has lost the key either way. Only logout's counter is followed
  (`Key`), with two calls per window of two ticks: a limit of two is the least for which
  `BurstCap` differs from the limit itself, and logout is the route counted with a
  connection in hand. Calls of other routes pass or are refused by other means.
* Requests, identities and addresses are symmetric in the safety runs. `books_live` uses no
  symmetry, as liveness requires.

No run turns deadlock checking off.

### Fairness

`FairSpec` of `Books` asks weak fairness of each statement that waits for nothing: the
event loop resumes a coroutine whose statement has returned. It asks strong fairness of
each statement that waits for a lock, since PostgreSQL queues waiters and grants a lock
that is released again and again. Nothing is asked of clients (`Begin`, `Finish`) or of
faults. The caller of `claim_entry` is assumed to go on to `CommitFile`.

`Api` states no fairness. Whether a request is served depends on clients, on Supabase and
on a pool that serves waiters in turn only up to `pool_timeout`; what the code can promise
is that requests do not block each other in a circle, and that is the invariant
`SomeoneGoesOn`. It does not count `PoolTimeout` as going on: the system never needs the
timeout to move.

## 4. Proofs

The books are proved about in `BooksProofs` and, built on it, `AnswersProofs`,
`NumberingProofs` and `DeskProofs`: for every number of requests, books, users, pages, lines
and documents, with or without faults unless an assumption is named.

| Theorem | Property |
|---|---|
| `Invariance` | the inductive invariant `IInv` |
| `TypeCorrect` | `TypeOK` |
| `NumbersAreUnique`, `OneOpenBook` | `UniqueNumbers`, `OneOpenPerYear` |
| `DocNosAreDistinct`, `PagesAreNotOverfilled` | `DistinctDocNos`, `PageCapacity` |
| `FullBooksAreClosed` | `FullRegisterIsClosed` |
| `NobodyWaitsInACircle` | `HoldersNeverWait` |
| `ClosingIsOneWay` | `ClosedStaysClosed` |
| `AutomaticFilingsFindAnOpenBook` | `AutoNumbersNeedOpenBook`, assuming `KeepsBook = FALSE` |
| `SuggestionsComeLast` | `AutoNumbersFollow` |
| `BooksImplementRegister` | `ImplementsRegister` |
| `AnswersCanBeReliedOn` | `AnswersHold` |
| `DeletesSpareFiledBooks` | `DeleteSparesFiled` |
| `OwnersAlone` | `OwnersOnly` |
| `ClosesAreReported` | `CommittedCloseIsReported`, assuming `DocumentsFeature` and no `Faults` |
| `SuggestedNumbersLeaveNoGap` | `SuggestionsLeaveNoGap`, assuming `Superseding = FALSE` |
| `RegistersHaveNoGaps` | no register ever has a gap, assuming besides that nobody gives a number |
| `BooksImplementDesk` | `ImplementsDesk` |

None of the properties is inductive, because they speak of committed tables and the danger
is in what is flushed. `IInv` is `TypeOK`, the uniqueness and capacity of the committed tables, and `RequestInv` for each request: a
transaction about to commit still has the ground its decision stood on. A flushed
insertion clashes with no committed row and no other flushed insertion; a flushed change
of an existing row belongs to the holder of its lock, and is the change of the row as it
is now; a claimed entry is for a live book whose lock its request holds, with a number no
current document has and a line its page still offers, and if it uses up the last page
the book is closed already or flushed closed with it; a request at any other statement
holds nothing. The lock has one holder, so no other claim in that book exists: that is
what carries distinctness and capacity through a commit.

The proof has one lemma per action, then `Invariance` by cases on `Next`. The properties
follow from `IInv`; the action properties and the refinement take `IInv` as an invariant
and split on the action, each commit being one step of `Register` and every other action a
stutter. Capacity rests on a few lemmas about cardinalities of finite sets of documents.
`NobodyWaitsInACircle` reads off `RequestInv` that only a request at its commit, or at its
claim, holds a lock or an index entry, and neither statement waits.

For the answers, `IInv` is not enough, since they speak of books that are no longer there.
`AnswersProofs` adds `Told`: the book a request has read is past its insertion (`Past`) and
stays with its owner, so what another request may still
do to it (`Fate`) is to close or to remove it. A book that held a document when a delete
began either holds one at the check that follows or is gone, because documents are superseded but
never removed (`DocumentsLast`); and a book seen closed, or removed, stays so.
`ClosesAreReported` adds that a close that has failed, failed because its book was gone.

`NumberingProofs` adds `Numbered`: from the claim to the commit, the numbers in `entry` are
those asked for, or still those the suggestion would give, because the lock keeps every other
claim in the book away (`NumberedNext`). What is left is a fact about
the numbering rules: the entry after the last one of an unbroken register leaves it unbroken
(`NextEntryLeavesNoGap`). The assumption `Superseding = FALSE` is needed: a new version
that takes a document out between claim and commit leaves its number free.

`DeskProofs` puts the three invariants together. A call is served by its commit: the commit is
an operation of the register (`CreateAdds`, `CloseCloses`, `DeleteRemoves`, `FileFiles`, by
`IInv`); it is the operation asked for, on a book that is still the caller's (by `Told`) and
with the numbers asked for (by `Numbered`): `CreateServes`, `CloseServes`, `DeleteServes`,
`FileServes`. A refusal is decided by one statement on what is committed then, so it suffices
that each guard of the code implies `Impossible` (`CreateImpossible`, `NumbersImpossible`,
`ClaimImpossible`); for the stale Book of `claim_entry` this holds because a book that looked
closed is closed. Then one lemma per handler (`CreateSimulated` to `CrashSimulated`) shows
that each of its statements is a step of `Desk` or a stutter.

### The abstract register

| Theorem | Statement |
|---|---|
| `RegisterIsSound`, `RegisterClosesForGood` | a `Register` keeps books and entries apart, pages within capacity, full books closed, closed books closed |
| `DeskIsRegister`, `DeskIsSound` | a `Desk` uses its register through its operations only, and so is sound |

These are in `RegisterProofs`, about the abstract specifications alone. They show that a
refinement of `Register` or `Desk` is worth having: nothing that makes a register sound is
left to the implementation. The invariant is `Typed /\ Sound`, one lemma per operation. The
hypotheses `ProperConstants` and `CallsNameBooks` follow from `CapacityAssumption`,
`NilAssumption` and `CallAssumption`.

### Accounts

| Theorem | Property |
|---|---|
| `AccountsTyped` | `TypeOK` |
| `AccountsOneRow` | `OneRowPerIdentity` |
| `AccountsDeactivationStands` | `DeactivationStands` |
| `AccountsGivenTokensAreProvisioned` | `GivenTokensAreProvisioned` |
| `AccountsOrphansHaveACause` | `OrphansHaveACause` |
| `AccountsWithoutCommitFailure` | `NoOrphans`, assuming `CommitsFail = FALSE` |
| `AccountsTokensGoToTheActive` | `TokensGoToTheActive` |
| `AccountsDevicesGoOutTogether` | `DevicesGoOutTogether` |
| `AccountsImplementDirectory` | `ImplementsDirectory` |

Four invariants and a step property, each resting on those before it. `Typed` says, beside
the types, which of `wanted`, `view`, `write` and `token` a request has at each statement.
`Rows` says that no two committed rows clash, that a flushed row will clash with nothing
once it is committed, and that it leaves the account as active as it is (`Pending`): whoever
would take its address or change that flag waits for its transaction. Since the row is
flushed with the flag it finds then, not the one it was read with, a deactivation stands.
`Provisioned` adds that a request past `FindUser` on its way to an UPDATE has a committed row
(`Known`); rows are never deleted, so a token is only given beside one. The row that the last
check of `sign_in` reads is that committed row, or the flushed one, which by `Rows` is as active
as the committed: so a token goes to an active account. For orphans, each identity is still in
the making, or committed, or gone, or has a failure on record (`Settled`). For logout, the
sessions to end are all of the caller's account (`Ending`), and those end together
(`EndTogether`): in every step that ends the caller's, the others end that have not ended
before.

`AccountsWithoutCommitFailure` is the other half of the finding `commit_orphan`: without a
COMMIT that fails, no failure of the local database leaves an orphan. For the directory, only a
COMMIT changes rows and only `CheckActive` hands out tokens. What a COMMIT changes is one
enrolment or one renewal, because `Rows` keeps the flushed row clear of every other and, for a
new one, active (`AllFresh`, the one part that `Rows` does not say); a token's account has a row by
`Provisioned`, and a session that has been handed out stays with its account.

### Api and Limiter

| Theorem | Property |
|---|---|
| `LimiterBurstCap`, `ApiBurstCap` | `BurstCap` |
| `ApiTyped` | `TypeOK` |
| `PoolImplementsSemaphore` | `PoolIsSemaphore` |
| `ApiSomeoneGoesOn` | `SomeoneGoesOn` |
| `ApiClientsAreFew` | `ClientsAreFew` |
| `ApiWarmKeysNeedNoNetwork` | `WarmKeysNeedNoNetwork` |
| `ApiBarredStayOut` | `BarredStayOut` |

`BurstCap` counts, and counting is done by numbering: a passage has the number it got in
its window, and `LimiterInv` says that no two recent passages of one window share a number,
that those of this window are numbered up to `hits`, and that the first call of the last
window is not recent any more while this one is open, for it opened a window a period long.
So recent passages inject into the limit's numbers of this window and all but the first of
the last.

`ApiInv` ties each number to the requests it counts: the connections out are the requests
at a place that holds one, the threads out those at a place that runs in one (`Counts`);
once there is a client, those made and the threads still about to make one are together no
more than the threads (`Clients`); a warm request's key is in the cache of the current client
and no thread is making another (`Warm`); and each request's record fits its place (`Fits`). Every action
moves one request between two places, so one lemma about cardinalities of such moves
(`Changes`) serves all of them. `SomeoneGoesOn` follows: if every thread is taken, someone is in
a thread and a thread waits for no connection; if a thread is free but no connection is,
someone holds one, and a holder waits at most for a thread.

### Assumptions, and what is only model-checked

The assumptions are those the modules name: `CapacityAssumption`, `NilAssumption` and
`CallAssumption` of the books, those of `Accounts`, `LimitAssumption` and `ApiAssumption`.
TLC evaluates them in the runs of their modules.

Only `EveryCallAnswered` is model-checked without a theorem: liveness is out of the
prover's reach. Its safety half, that waits form no circle, is `NobodyWaitsInACircle`. Every other
property of a passing run is proved, two of them under a constant that settles what the
repository leaves open (`KeepsBook`, `Superseding`), with the value the run gives it. Two
properties that do not hold of the code are proved under the constants that take away the
cause. One is `NoOrphans` of the run `commit_orphan` (`AccountsWithoutCommitFailure`). The other,
`CommittedCloseIsReported` (`ClosesAreReported`), no run checks: in this repository every close
of a book commits and then answers 500, because `register_stats` (books/repository.py:72)
imports the documents module that is not there; with the module, and without a broken
connection, the theorem says that a committed close is reported.

Two parts of the code are modelled by definitions that need an argument outside the model: what
Supabase does, and that a statement of PostgreSQL is one step. Nothing here proves those.

## 5. Not modelled

* The reads `get_all_books` and `get_book`: they change no state. Their aggregate is the one
  `RefreshClosed` and `NextDocNo` model.
* Validators and formatting: pure functions of one string.
* Layout of responses, logging, deployment; there is no migration in the
  repository, so the schema is the one the models declare. Of the settings, only the limits
  and the pool size matter to another part.
* Pre-ping and recycling of connections: the pool does both inside a checkout.
* Expiry of PyJWT's cached key set, and rotation of the keys behind it: a token whose key
  the set no longer lists is one outcome of `Fetch`. Expiry of an access token is one of `Decode`.
* Repository methods without a caller: `count_by_role`, `count_active_by_role`,
  `get_by_email`, `get_many`.
* The real Supabase: only what the service expects of it.

## 6. What could follow

The components that keep state are modelled, and what their runs check is proved. What
remains depends on code that is not in the repository:

1. The documents feature: once it is there, `CommitFile`, `AbandonFile` and `Supersede`
   become modelled handlers, and the constants `KeepsBook` and `DocumentsKeepBook` facts.
2. The administrator's feature (`AdminService`): `SetActive` and `SetAccount` become actions
   of the code, with the check that an active lawyer remains, for which
   `count_active_by_role` seems to be meant.
3. The listing of `get_all_books` reads books and their register in two statements. Should a
   decision ever be taken on it, it needs a property that relates the two.
