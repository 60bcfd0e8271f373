# Hope: a verification project

Hope is a marketplace for services: a client posts a job, providers make
offers, the client hires one of them and puts the money in escrow, the provider
works and delivers, the client approves, and the provider is paid.  The
repository holds a Node.js backend (`backend/`), over PostgreSQL or over a JSON
file, and a Flutter client (`lib/`).  This directory holds TLA+ models of the
program, the TLC configurations that check them on small instances, and proofs
that TLAPS checks for every instance.

Paths below are relative to `src/`; `app.js`, `repository.js`, `db.js` and the
other backend files without a directory are in `backend/src/`.

## 1. Inventory

### Job, offer and payment handlers (`app.js`, `repository.js`)

*State*: the tables `jobs` (status, provider), `offers` (status), `payments`
(status, payee, idempotency key, provider reference), `audit_logs`.
*Operations*: create, publish, start, deliver and accept a job; make and accept
an offer; fund a job; release its payment.  Each is an HTTP handler that reads
some rows, decides, and then runs one transaction; most transactions read the
rows again under `FOR UPDATE`, a few do not.
*Interaction*: funding and release insert outbox events and ask the worker of
the same process to run at once.
*Hard*: any number of requests on the same job, on several server processes,
each acting on what it read before its transaction.
*Correct when*: jobs and payments tell the same story; a job moves only along
the table of `workflow.js`; hiring happens once and only of somebody who bid;
work and money follow one another.

### Outbox, its workers and the payment provider (`outbox_worker.js`, the outbox functions of `repository.js`, `payment_provider.js`)

*State*: `outbox_events` (status, attempts, `available_at`, `locked_at`,
payload), the `busy` flag of each process, and the provider's own books.
*Operations*: claim an event under a lease, call the provider, book the answer
in a transaction, or fail the event (retry with a pause, or give up).
*Hard*: a lease may expire while its worker is alive; the process may die at
any point; a call may take effect although it fails; a request may queue an
event again while a worker is busy with it; failing an event does not ask
whether it is still the worker's.
*Correct when*: the money is held once and paid once, the books never claim
more than the provider did, nothing is paid before approval, no hold or release
is forgotten, and every one is decided in the end.

### File store (`db.js`, `sendJson` in `http.js`)

*State*: the collections in memory, the set of dirty ones, the chain of
flushes, the depth of the running transaction, the data file.
*Operations*: insert, update, touch, save, flush, transaction with rollback,
load, seed.
*Hard*: handlers change memory while a write of an older state is under way;
one failed write leaves the chain rejected; a process may die between the
temporary file and the rename; rollback restores a snapshot of everything.
*Correct when*: a client is told of a change only when it will survive a
restart, the file never loses what it had, and every request is answered.

### Sessions (`app.js` auth routes, `security.js`, token functions of `repository.js`)

*State*: users (password, session version), refresh tokens (family, revoked),
reset tokens (used).  *Operations*: register, login, refresh with rotation and
reuse detection, logout, password reset and confirmation.
*Hard*: a rotation racing a revocation of its family, a lost answer that makes
an honest client look like a thief, statements of one operation that are not in
one transaction.
*Correct when*: a refresh token works once and for one successor, a family that
ended stays ended, a reset token changes the password once, nothing that was
there when a logout or a reset began works after its answer, and no two
requests wait for each other's rows for ever.

### Uploads, evidence and object storage (`app.js` storage and evidence routes, `storage.js`, `readMultipartSingleFile` in `http.js`)

*State*: the tables `uploads`, `upload_intents` and `evidence`; the bucket, or
the directory `STORAGE_DIR`; temporary files of requests being received.
*Operations*: the multipart route (receive, extract, put, register, clean up);
the presigned route (reserve an intent, the client's PUT, complete); evidence
that names an upload.
*Interaction*: the client writes to the bucket without the server; delivery of a
job ends the time for evidence.
*Hard*: object first and row after, in two systems; an insert that fails, or
only seems to; completions of one key that race, are repeated, or outlive the
intent they have read; objects replaced between two looks at them.
*Correct when*: what an answer promised stays, a row of a direct upload came out
of one live intent and records what was seen, evidence names stored uploads of
its author, an error leaves no orphan, and what is stored is the file.

### Rate limiter and metrics (`observability.js`)

*State*: two maps of windows, one entry per client, and counters.
*Operations*: count a request and let it pass or refuse it; sweep.
*Interaction*: `handle` asks for every request before it routes it; a request to
the auth routes meets both limiters.
*Hard*: fixed windows and their boundaries, sweeping only when the map is large
and then in the course of somebody else's request.
*Correct when*: nobody passes more than twice the limit within the length of a
window, sweeping forgets nobody whose window is open, a map is larger than its
bound only with clients who are active, and nobody is refused for ever.

### HTTP layer, configuration, migration, seed (`http.js`, `server.js`, `config.js`, `migrate.js`, `seed.js`)

Parsing, routing, reading the environment, starting and stopping.  The state
they keep is none; a process that stops is the crash action of the models.

### Mobile client core (`lib/core/`)

*State*: `SecureStore` (access token, refresh token, user), the user of
`AuthController`, the refresh that `ApiClient` has under way.
*Operations*: restore, login, register, call, refresh on 401 and second attempt,
logout, expulsion when the refresh failed.  `UploadQueue` retries an upload up
to three times; its queue is in memory, and `enqueue` and `drain` are called by
nobody.
*Interaction*: calls of the backend; overlapping calls share one refresh.
*Hard*: calls refused at the same time or one after the other, an answer to a
refresh that is lost after the server has rotated, three entries written one
after the other, an app that is killed, a logout during a refresh.
*Correct when*: concurrency alone never ends a session or passes for a reuse, the
store at rest has a whole session or nothing as the controller believes, and
every call ends.

### Mobile client pages, Android shell, build files, tests, documents

No state of their own that the system depends on.  What a page asks of the
backend is some request at some time, which the models allow anyway.

## 2. Modules

| Module | What it is |
|---|---|
| `Lifecycle` | abstract: the transition table of `workflow.js`, which no handler consults |
| `Escrow` | abstract: what the platform promises about money and books |
| `Marketplace` | the handlers over the PostgreSQL tables |
| `OutboxWorker` | the workers and the payment provider, extending `Marketplace` |
| `Settlement` | both together: specification, fairness, properties, refinements, the inductive invariant |
| `MCSettlement` | small instances of `Settlement` for TLC |
| `DurableStore` | abstract: what a store promises: nothing stored is lost, only what is stored is shown |
| `FileStore` | the file store under concurrent requests, failing writes and restarts |
| `UploadState` | the tables, stores and handlers in flight of the upload routes |
| `MultipartUpload` | POST /storage/upload, extending `UploadState` |
| `PresignedUpload` | POST /storage/presign and /complete and the client in between, extending `UploadState` |
| `Uploads` | both routes, evidence, deaths: specification, properties, the inductive invariant |
| `MCUploads` | small instances of `Uploads` for TLC |
| `TokenFamilies` | abstract: what the refresh tokens of an account promise |
| `Sessions` | the auth handlers over both stores: specification, properties, refinement, the inductive invariant |
| `Device` | a mobile client against a server that keeps the promise of `TokenFamilies`: specification, properties, the inductive invariant |
| `RateLimiter` | both rate limiters, as `handle` asks them |
| `MCRateLimiter` | a small instance of `RateLimiter` for TLC |
| `SettlementProofs` | type correctness and the inductive invariant, proved |
| `SettlementTheorems` | the safety properties, both refinements, and that money and work keep step, proved |
| `FileStoreProofs` | the inductive invariant of `FileStore`, its durability, its refinement and that no wait is in vain, proved |
| `UploadsProofs` | the inductive invariant of `Uploads` and its properties, proved |
| `TokenFamiliesProofs` | what follows from the promise of `TokenFamilies`, proved |
| `SessionsProofs` | the inductive invariant of `Sessions`, its properties, its refinement and its freedom from deadlock, proved |
| `DeviceProofs` | the inductive invariant of `Device`, its properties, and that its server is `TokenFamilies`, proved |
| `RateLimiterProofs` | what `RateLimiter` lets pass, its types and when its maps are swept, proved |

An operator whose comment begins with "Mutant" is not part of a specification:
it is a plausible mistake in the operator that follows it, used to see that the
properties notice.

### How state and actions correspond to the code

*Tables.*  A variable is a column, a function over the primary keys.  A payment
is named by its job (`payments.job_id` is UNIQUE) and an event by its dedupe
key, `<<type, job>>`.  `"NONE"` is a row that does not exist.

*Transactions.*  A transaction is one action.  The code takes row locks with
`FOR UPDATE` on the rows it decides upon, and all but the worker's start with
the job's row, so two on one job are serialised; the completing transactions
lock event and payment, and every other writer of a payment's status locks that
payment too.  That PostgreSQL commits atomically is assumed.

*Stale reads.*  A read before a transaction is an action of its own whenever the
transaction does not repeat it: `OfferReadJob`/`OfferInsert` (`app.js:534-544`),
`StartRead`/`StartCommit` (`app.js:460-468`), `FundReadJob`/`FundReadOffers`/
`FundNew`/`FundRetry` (`app.js:574-620`, `repository.js:270-318`).  Its result
goes into a set of requests in flight (`offerRead`, `startRead`, `fundRead`,
`fundChosen`), from which any may commit at any later time, more than once
(two identical requests) or never (a client that hangs up, a process that
dies).  A handler whose transaction repeats every check is one action.

*Clocks.*  `due[e]` compares the clock with the deadline of an event:
`available_at` when it is PENDING, the end of the lease when it is PROCESSING.
`DeadlinePasses(e)` makes it true; claiming, failing and requeueing set it as
the columns are set.  Durations are abstract, so that any lease may expire.

*Workers.*  A worker is a server process: `busy` keeps it to one `processOne`
at a time, whoever asked.  `pc` says between which two of its awaits it is.
Claiming is nondeterministic among due events because `SKIP LOCKED` may skip
any older one.

*Provider.*  `held` and `paid` are the provider's books.  A call takes effect or
does not, and is confirmed or not.  The same payload has the same effect: that
is the idempotency the provider promises (`payment_provider.js`), and the code
relies on it.  What the code must see to is that the payload stays the same.

*Crash.*  `Crash(w)` forgets what a worker was about; the tables stay.

*File store.*  Memory (`mem`), the temporary file (`temp`) and the data file
(`disk`) are sets of the changes they have seen; a request changes memory once,
or a second time after it has waited.  The chain of promises is three numbers:
links `scheduled`, links `finished`, and whether the next one was rejected
(`broken`, and with it all later ones).  A write fails as `FailWrite` only while
some request hears of it (`Heard`): nobody handles the rejection otherwise, and
Node.js ends the process, which is `Restart`.  So it is with the seed's write
(`db.js:318`), and with one that fails while mail is being delivered, if no other
request waits.  A handler is one action up to `sendJson`, because JavaScript does
not interrupt it and a write that begins meanwhile first awaits `mkdir`; the two
that do wait in the middle are `Save`/`Saved` (`app.js:298-303`,
`app.js:515-521`) and `Mail`/`Mailed` (`app.js:345-361`).  `ticket[r]` is the
chain as the request found it when it
began to wait, `seen[r]` what its answer rests on.  `Restart` is a death of the
process and the next start, which loads the file and seeds categories if it has
none.  Each of the two waits may take any time, each write may fail.

*Uploads.*  `req[r]` is a handler with its local variables, at the await that
`pc` names, so that other handlers, the client and the clocks act in between.
In the multipart route: `received` (the temporary file is complete), `parsed`
(the extracted file is written), `stored`, `swept` (`finally` has removed the
temporary file), `cleanup` (the catch around the insert).  In completion:
`headed`, `validated`, `looked` (no row was found), `reserved` (the intent was
read and let pass; `FOR UPDATE` outside of a transaction holds no lock, so the
transaction in `CompleteUploadAtomic` looks again).  `citing` is the evidence
handler waiting for its body.  Over the file store the code from the lookup to
the answer has no await and is one action, `CompleteInFile`.  An object of the
bucket is a record of what the code looks at: content type and size (HEAD), and
the types its first bytes look like.  Of what the multipart route stores only
`Content` (the file) and `Envelope` (the request body around it) are told apart.
A key also names the temporary file of its request.  `backend` and
`mode` are what the environment configures; they never change.  `url` and
`intents[k].live` expire independently, by the clocks of two systems.  `told`, `held`,
`faulted` and the field `had` are history.  `Die` ends a handler anywhere;
`StoreFails`, `RegisterFails`, `CleanupFails` and `RefuseCompletion` are the
errors of storage and database, with and without effect.

*Sessions.*  One account, since no statement touches rows of two.  `req[r]` is a
handler with its local variables, at the await that `pc` names.  Transactions
are not one action here: a lock that `FOR UPDATE` or an `UPDATE` takes is held
from one step to the last of its transaction (`Holds`, `UserLocked`,
`ResetLocked` say by whom).  An `UPDATE` that revokes many rows takes two steps,
because under READ COMMITTED it finds its rows by the snapshot of its beginning
and obtains them one after the other: `seen` is what it has found, `Obtains` the
wait, and a row that a rotation inserts in between escapes it.  All rows of an
`UPDATE` are obtained at once here, and changed in the same step; that two of
them, each half way, could wait for each other is left out (PostgreSQL would
abort one, which is `Die`).  `InsertFirst`,
`Replace` and `RevokeAll` leave what the statements leave, without asking what
the rows were before; that they only ever do what `TokenFamilies` allows is what
the refinement shows.  Over the file store a handler runs without interruption
between two real waits, which are the hashing of a password (`app.js:278`,
`app.js:339`) and a delivery (`app.js:354`).  `before`, `ended`, `barred` and
`changes` are history.  `Die` ends a handler anywhere and undoes what is not
committed.

*Device.*  `call[p]` is a call of `ApiClient`, or (`Refresher`) the refresh behind
`_refreshFuture`, which calls that find it under way join.  A refresh token and
the access token issued with it share a name.  The server is `TokenFamilies`
with `good`, the access tokens that pass `authUser`; each may lapse at any
moment.  `Lose` and `LoseRefresh` are a time out or an error of the network,
before or after the request was served.  `saveTokens` and `saveUser` are three
steps; `clear` sends its deletes together and is one.  That the platform channel
of the secure storage answers in the order in which it was asked is assumed of
the plugin (`Saves`).  `Kill` is a death of the app at any moment and its next
start with `restoreSession`.  `disturbed`, `reused` and `overtaken` are history:
a store that was cleared while a refresh or a login was still to write is
`overtaken`, and what such a writer leaves is exempt from `StoreMatchesSession`.

*Rate limiter.*  `entries[l][c]` is the entry of a map: the age of the window in
ticks instead of the time of its start, up to where it has gone by, and the
count, up to one above the limit; the code tells no more apart.  `recent` is
history: how many requests passed in this tick and the `k` before it, for each
`k` below the window.  `Request` is the
gate of `handle`: an auth request meets the general limiter only if it passes
the other.

### What the abstraction leaves out

- `jobs.created_at` and `offers.created_at`, so of several cheapest offers any
  may be chosen and of several due events any may be claimed;
- amounts, texts, categories, ratings, and checks of their form;
- `attempts` above `MaxAttempts`, which no code tells apart;
- authentication in the modules other than `Sessions`: a request by the wrong
  user is refused before it reads anything those models have;
- audit rows that a handler writes after its transaction (`createAudit`), which
  nothing reads; the rows written inside transactions are modelled;
- `UNDER_REVIEW`, which the table has and `accept` allows for, but no handler
  ever writes;
- reads that change nothing (lists, views);
- the lookup of an idempotency key before the payment is written
  (`repository.js:293-297`).  It and the unique index (`db.js:125`) are one guard,
  `KeyFree`, that stands for the index: payments keep their keys, so the lookup
  refuses nothing that the index would let pass, and when two transactions both
  find no payment, the index aborts the later one as a whole.  That a key names
  one payment is therefore given by the schema and is not a result of this
  project; neither is what the loser is answered (500, where the lookup gives 409).

Of the file store: the rollback of `withTransaction` (none of its bodies waits
for input or output there, so one that throws restores what no other request
has changed); a loss of power, against which `rename` without `fsync` is no
protection (a death of the process is modelled); and that `sendJson` puts a live
row into text after the flush (`http.js:18`), so that an answer may also show
what another request did to an offer during the flush.  `seen` is what the
handler had read or changed when it called `sendJson`.

Of the uploads: requests that end before they have changed anything or read
anything that matters later (wrong type, wrong form, no such object); completing
a key nobody presigned, which finds no intent; evidence that names a web
address; deaths of the process over the file store (what those do to tables is
`FileStore`); the expiry of keys in the bucket, which nothing configures.

Of the sessions: requests that are refused and change nothing, unless what they
read is something that another one changes; a user's `status`, which no handler
changes; passwords, hashes and signatures, which are what they let pass.  Of the
device: errors of the secure storage; an upload without an access token, which
throws before it sends; `continueAsGuest`, which touches no stored session.  Of
the limiters: requests to `/health` and `/metrics` and preflight requests, which
are not limited.

The key a client does not send is `NoKey`; in a payload it stands for the key
the code makes up from the payment's id, which is the same at every attempt.

## 3. Runs

| Run | Instance | Question |
|---|---|---|
| `delivery` | 1 job, 1 offer, 3 workers, 2 keys, 2 attempts | do tables, workers and provider agree, and work and money follow one another, whatever late and duplicate workers, lost answers, crashes and requeues do? does the whole implement `Escrow`? is `SettlementInv` an invariant? is every hold and release decided in the end? |
| `hiring` | 2 jobs of one owner, 2 rival offers on the first and 1 on the second, 1 key, 1 worker | do acceptance and funding, acting on stale reads, hire at most once and only a bidder? do all handlers follow `Lifecycle`? |
| `liveness_pair` | 2 jobs, 1 worker, 2 attempts | does a worker neglect one job for another's retries? |
| `payee` | 1 job, 2 offers | violation: a payee who is not the provider |
| `done` | 1 job, 2 workers | violation: an event taken back from DONE |
| `file_store` | 2 requests, up to 3 links each | does an answer of success rest on the file, whatever fails, overlaps or restarts? does `FileStore` implement `DurableStore`? is every request answered, and every change saved unless a write fails or the process dies? |
| `uploads` | 1 key, 4 objects, 2 types, 2 users, 2 requests, 1 job; S3 or local directory, PostgreSQL or file store | does what was promised stay? do racing, repeated and late completions spend intents once, alive, and record what was seen? is evidence backed and in time? do errors leave no orphan? |
| `uploads_retained` | 1 key, 1 request | violation: the request body is stored in place of the file |
| `sessions` | 2 requests, 3 refresh tokens of which 1 may expire, 1 reset token, 2 logouts or resets; PostgreSQL or file store | does `Sessions` implement `TokenFamilies`? has an answered logout, reset or detected reuse ended what it was meant to? does a reset token change the password once? do transactions wait for each other in a circle? does every request end? |
| `device` | 2 overlapping calls, 3 tokens | does concurrency alone end a session? do store and controller agree, whenever the app is killed? does every call end? |
| `limiter` | 2 clients where there is room for 1, limits of 2, windows of 3 and 2 ticks | do fixed windows and the sweep keep twice the limit? is a map swept when it is large? is nobody refused for ever? |

`SettlementInv` and `UploadInv` contain the type invariants of their modules;
those of `Sessions`, `Device` and `RateLimiter` are proved.

*Why these bounds.*  Rows of different jobs meet in two places only: the
worker that serves both (`liveness_pair`) and the idempotency index (`hiring`,
where the key of one job may be taken by the other), so one job is enough for
the rest.  Three workers are a late
one, its successor, and one that comes while both are there.  Two attempts are
a retry and a last attempt; the two keys of `delivery` are that of the first
funding and another one, the one key of `hiring` is what two jobs both ask for.  Two offers of two authors on a job are the one that is chosen and
its rival, which may come later or be accepted meanwhile.  No
run bounds the number of crashes, expiries, failed calls, requeues or requests:
the state space is finite without it.  The theorems hold for all constants.

Of the file store, two requests are one whose write is under way and one that
comes during it and reads or changes on top; three links are a write that
carries a change, one that finds nothing new, and one after a failure.
`FileStoreInductive` covers more requests and links.  Restarts and failed
writes are not bounded.

Of the uploads, one key is enough, since no step looks at another key's rows or
objects, and the theorems hold for any number; two requests are a completion and
its rival or repetition, an upload and the evidence that names it, or evidence
and a rival's.  The four objects are one that passes, one without content type
that looks like either type, one that is not what it says, and one above
`MaxBytes`; together they let HEAD and the first bytes see different ones.
Deaths, failures, repeated PUTs and expiries are not bounded.

Of the sessions, two requests are a rotation and its rival, repetition or the end
of its family; three tokens are two that follow each other and one of another
family; one token that may expire meets all others that do not.  `MaxVersion`
bounds how many logouts and resets begin, not what else happens.  Of the device,
one call refreshes and one joins it or comes late; three tokens are the login,
its successor and one more session or rotation, after which calls that need
another have no answer but a lost one.  The limiters' windows differ so that one
boundary falls into the other's window.  Deaths, lost answers, lapses, restarts
and ticks are not bounded.  `SessionsProofs`, `DeviceProofs` and
`RateLimiterProofs` are for all constants.

Deadlock checking is off because a settled job with no request in flight has
nothing left to do, nor has a store whose requests are answered, nor have upload
routes whose keys are used up, nor sessions whose tokens are.

*Fairness* (`FairSpec`).  `startOutboxWorker` re-arms its timer after every tick
(`outbox_worker.js:43-52`), so an idle worker claims if it can: weak fairness of
claiming, per worker, of any due event, not of a given one.  `processOne` runs
to its end unless the process dies: weak fairness of its steps, granted that a
call to the provider returns, for which the code has no timeout.  Clocks
advance: weak fairness of each deadline.  Users, aborts and crashes have none.
Both liveness properties suppose that crashes and requeues end
(`EventuallyQuiet`): with crashes for ever no worker need ever finish.

Of the file store: a link starts when the one before is resolved, file system
calls return, handlers go on when their promise is settled, and the delivery of
a mail has a timeout (`app.js:28-30`): weak fairness of each.  Requests, failures
and restarts have none.

Of the sessions: statements are carried out and deliveries end, weak fairness of
`Proceed`.  A statement that waits for a row may find it free and taken again by
others; PostgreSQL grants row locks in the order of those who wait: strong
fairness of `Queue`.  No request need come, expire or die.

Of the device: a call is served or its time out passes (20 s, 60 s for an upload:
`api_client.dart:124`, `:90`), the storage answers, and a handler goes on when
its future is complete: weak fairness of each, per call.  Of the limiters: the
clock advances.

## 4. What the violations show

- `payee`: `POST /offers` inserts its row without looking at the job again
  (`app.js:544`), so a pending offer may arrive on a job that has just been
  assigned; a funding that read the job before the assignment and the offers
  after it takes that offer: `payments.payee_id` becomes its author while
  `COALESCE` keeps the provider (`repository.js:309`).  What is true and proved
  is weaker: both have an accepted offer (`OnlyBiddersAreHired`).
- `done`: `failOutboxEvent` (`repository.js:430`) does not ask whether the event
  is still the caller's, so a late worker takes a DONE event back.  No money is
  moved twice (`ProviderActsOnce`) and DONE is never a lie (`DoneMeansBooked`),
  but an event may end as FAILED whose work was done.
- `uploads_retained`: `readMultipartSingleFile` writes the extracted file under
  its key (`http.js:126`) and returns the path of the temporary file with the
  request body (`http.js:127`); `storage.put` renames or sends that one
  (`storage.js:12`, `storage.js:26`).  What is stored is the multipart body with
  its boundaries and headers, of another size than the row records, although
  `README.md:155` has local files retained correctly.

Four things the models met for which no line of the repository says otherwise:

- `scheduleFlush` hangs each write onto the chain with `.then` (`db.js:237`), and
  nothing replaces a rejected chain.  After one failed write that a request was
  waiting for, no later one is attempted: requests go on changing memory and end
  with 500, those that only read as well, until the process restarts; each has
  the old error logged (`app.js:240`).  That no answer of *success* is given in
  that time is what `ShownIsDurable` says, and that all are answered
  `EveryRequestIsAnswered`;
- a login that has read the user before a reset inserts its refresh token
  afterwards (`app.js:278`), so a session opened with the old password may outlive
  the reset; `AnsweredEndIsComplete` speaks of the tokens there were when the
  reset began.  Over the file store, two confirmations that hash at the same time
  both change the password (`app.js:335-341`); `ResetChangesOnce` holds over
  PostgreSQL;
- a logout on the device does not wait for a refresh or a login that is under
  way, which then writes its tokens into the cleared store; the next start finds
  a session (`overtaken`);
- an `OPTIONS` request ends its answer at `app.js:194`, where `finishRecord` reads
  `url` (`app.js:188`) before its declaration at `app.js:195` has been reached, and
  throws.

## 5. Proofs

For every set of jobs, users, offers, keys and workers and every
`MaxAttempts > 0`, from `ColumnsAssumption` (the types of immutable columns),
`NullAssumption` and `WorkerAssumption` (each NULL is no value of its column).

`SettlementInv` is inductive (`Inductive`).  `JobPaymentAgree` alone is not:
`StartCommit` moves a job by what a request read of the payment earlier, so what
requests in flight know must still be true (`RequestsMatchTables`); settling a
job by a worker needs its event to be a release that only an approved payment
has (`EventsMatchPayments`, `WorkersMatchEvents`); that the books follow the
provider needs `BooksMatchProvider`, and that the provider did nothing without
an event `ProviderMatchesEvents`.  `AssignmentMatchesStatus` is what keeps a
stale choice of payee from naming nobody.  `EventsMatchPayments` also says that
only a release event settles a payment, without which a settled job could not be
shown to have been paid out.  One lemma per part shows that each
action preserves it, and all other theorems rest on `Inductive`:

| Theorem | Says |
|---|---|
| `TypeCorrect`, `Inductive` | `Spec => []TypeOK`, `Spec => []SettlementInv` |
| `Agreement` | jobs and payments tell the same story |
| `HoldsAreQueued`, `DoneIsTrue` | a waiting payment has a claimable event; DONE means booked |
| `AuditIsExact` | each confirmation is recorded once |
| `ProviderIsIdempotent` | at most one hold and one release per payment |
| `HiringIsByOffer`, `AssignmentStays`, `OfferDecisionStays` | hiring is by offer and final |
| `HandlersFollowWorkflow` | `Settlement` implements `Lifecycle` |
| `PlatformKeepsPromise` | `Settlement` implements `Escrow` |
| `MoneyAndWorkKeepStep` | no work without the money in escrow, no payout but for accepted work and to an accepted bidder, no settled job unpaid |

`PlatformKeepsPromise` maps the money to the provider's books and the book to
the payment's status; `EffectMoves` is the heart of it: a call for an event
either repeats what the provider did, which is a stutter, or is the first and
comes when the books are where `Escrow` wants them.  `MoneyAndWorkKeepStep` puts
the jobs, the offers and the provider's books side by side (`MoneyFollowsWork`),
which no single module of the code sees together.

For every set of requests and every `MaxLinks > 0`, from `StoreAssumption` (the
categories are no request's change), `FileInv` is inductive
(`FileStoreInductive`).  `ShownIsDurable` alone is not: that a resolved link
makes an answer safe needs that the link's write carried what the request had
seen (`TicketCarriesSeen`), which for a request that finds the chain at rest, or
the last write under way, needs that memory is then what was or is being written
(`RestMeansSaved`), and that later writes lose nothing (`FileIsBehindMemory`).
`AwaitStep` proves this once for all the ways a handler comes to wait.
`AnswersAreDurable` is `Spec => []ShownIsDurable`, `FileKeepsPromise` the
refinement of `DurableStore`.  `NobodyWaitsInVain` is what the liveness of the
run rests on besides fairness: an unsettled link that somebody waits for stands
in a chain that can go on, and unsaved changes have a write scheduled unless a
link was rejected.

For every set of users, requests, jobs, keys and objects, from `UploadAssumption` (the kinds of the constants, and that
`Absent`, `Content`, `Envelope` and objects differ), `UploadInv` is inductive
(`UploadInductive`).  The promises alone are not: that cleaning up takes away
nothing promised needs that a multipart handler works on a key that nobody else
has or was told (`DirectInv`); that completion records what was seen needs that
its handler has seen it on objects of this key (`CompleteInv`); that a presigned
object stays needs that no multipart handler works on a presigned key and that
PUT only replaces (`KeyInv`); and that evidence is backed, that the keys it
names were promised or presigned (`CiteInv`).

| Theorem | Says |
|---|---|
| `UploadInductive` | `Spec => []UploadInv` |
| `AnsweredUploadsStay`, `EvidenceStaysBacked` | what was promised, or is named by evidence, is stored |
| `IntentsAreConsumed`, `IntentsAreSpentAlive` | an intent is spent once, alive, by its owner |
| `RecordsAreVerified` | what is recorded was seen |
| `RetriesAreAnswered` | a repeated completion is answered from the row |
| `OrphansHaveACause` | no orphan by an error of the database alone |
| `EvidenceIsInTime` | over PostgreSQL, evidence only while the work is in progress (the file store does not look again) |

From `TokenFamilies` alone: a family has one live token at most (`OneLiveToken`)
and one that has ended is never taken up again (`EndIsFinal`).

For every set of requests, tokens and reset tokens, from `SessionAssumption` (the
kinds of tokens and their absence differ), `SessionInv` is inductive
(`SessionsInductive`).  That an answer's promise holds needs that what a request
is to end has ended, is among the rows its `UPDATE` has found, or is yet to be
looked for (`EndIsUnderWay`), which survives other requests because a rotation
holds the row it revokes (`LocksAreHeld`); that inserting takes no name twice
needs `DrawnNamesAreFresh`; that the password changes once, `ChangesAreUses`.

| Theorem | Says |
|---|---|
| `SessionsInductive`, `TypeCorrect` | `Spec => []SessionInv`, `Spec => []TypeOK` |
| `EndsAreComplete` | an answered logout, reset or detected reuse has ended what it was meant to |
| `ResetsChangeOnce` | over PostgreSQL a reset token changes the password once |
| `SessionsImplementFamilies` | `Sessions` implements `TokenFamilies` |
| `SessionsHaveOneLiveToken` | hence a session is never continued by two tokens |
| `ReusesOrdered` | of any reuses detected at once, one waits for no row that another holds |
| `NobodyWaitsInACircle` | `Spec => []NoCircularWait` |
| `SomebodyGoesOn` | while requests are under way, one finds every lock free that it needs next |

That there is no deadlock between rows needs an invariant of its own,
`ReusesAreOrdered`: a token that is presented again is revoked and stays so,
while an `UPDATE` finds only rows that are live, so that the last of several
reuses to begin waits for none of the rows that the others hold.  Of any other
requests that wait for each other one is a rotation, which waits for nobody once
it has its row, or holds the user's row and waits for rotations and reuses only
(`OneIsFree`).  `RequestsEnd` then adds fairness, on the instance of its run.

For every set of calls and tokens, from `DeviceAssumption` (the refresh is no
call, `None` no token), `DeviceInv` is inductive (`DeviceInductive`).  That
concurrency is harmless (`ConcurrencyIsHarmless`) needs that the refresh under
way presents the token of the store, and that store, refresh or login holds the
live token at every moment in between (`SessionGoesOn`); that the store matches
the session at rest (`StoreIsConsistent`) needs what it looks like between two
writes (`StoreIsWhole`), for which a login must be alone (`LoginsAreAlone`).
`NobodyIsForgotten` is `Spec => []JoinersAreServed`: who has joined a refresh
finds it under way until it lets everybody go.  Hence, while calls are under
way, one of them waits neither for the refresh nor for a clear of the store
(`SomebodyGoesOn`), which is the part of `CallsEnd` that needs no fairness.
`ServerKeepsFamilies` shows that the server `Device` assumes is one that keeps
the promise of `TokenFamilies`, as `Sessions` does: the two halves of a session
are checked against the same thing.

For all limits, windows, clients and `MaxEntries`, from `LimiterAssumption`:
type correctness (`TypeCorrect`), that a limiter lets nobody pass more than twice
the limit in the length of a window (`NobodyPassesMore`), and that a map is swept
when it is large (`MapsAreSwept`).  Twice the limit is not inductive as it
stands: it speaks of one span, which loses a tick at its end with every tick.
`RecentIsCounted` speaks of all spans that end now: a span that lies within the
open window has let pass no more than the window counts, a longer one no more
than the limit besides; without an open window none has let pass more than the
limit, and this tick none.  Sweeping removes only entries for which the second
holds, which is why it gives nobody a window again.

Only model-checked: the liveness properties (`HoldIsDecided`,
`ReleaseIsDecided`, `EveryRequestIsAnswered`, `SavedUnlessBroken`, `RequestsEnd`,
`CallsEnd`, `NobodyIsLockedOut`), since neither fairness nor ENABLED is within
reach of the prover.  Every invariant and action property of a passing run is
the statement of a theorem.

## 6. Not modelled

- The job, offer and payment handlers over the file store ("development
  fallback", `app.js:617`).  Between the body of a request and its answer they
  wait for nothing, so that each would be one action and no two interleave;
  what remains is a sequential program.  Reading it shows one thing: funding a
  published job pays the author of the cheapest offer there but neither accepts
  the offer nor sets `provider_id` (`app.js:616-620`), so that nobody may start
  the job.
- The row locks of the transactions on jobs, payments and events.  They are
  taken in different orders (`repository.js:322`), so that PostgreSQL may have to
  abort one; `CompleteAborts` is that outcome.
- A call to the payment provider that never returns (`outbox_worker.js:19`); see
  fairness.
- `UploadQueue`: of its code the application uses the loop of three attempts,
  each of which is a request of `Uploads`; the rest has no caller.
- The rollback of `withTransaction` in the file store, and its `reset`.
- Parsing, routing, configuration, migration, seeding, metrics and the pages of
  the client keep no state that anything depends on.
