# A TLA+ verification of Trade basic (diary-v3)

Trade basic is a trading diary: a React web application over a Hono API, a
PostgreSQL database reached through Drizzle, and a family of workers that share
the API's code and talk to the outside through the database alone. This
directory holds the TLA+ specifications of its core logic, the TLC
configurations that check them and the theorems TLAPS proves about them.
Source paths are relative to the repository, and `map` in `PROJECT.json` names
the lines each definition translates.

## 1. The system

### 1.1 Components

| Component | State | Operations | Modelled by |
| --- | --- | --- | --- |
| AI report jobs (`apps/api/src/ai-reports/job-store.ts`, `worker.ts`, `report-service.ts`, `consent.ts`, triggers of `0023_ai_reports.sql`) | `ai_report`, `ai_report_attempt`, `ai_user_consent`, `ai_user_access`; a worker's local variables | generate, cancel, delete, consent, claim, precheck, admit, call, complete, fail, requeue, heartbeat, slot release; reaping of slots and leases; invalidation by a deleted source or account | `AiReportJobs` |
| AI usage accounts (`quota.ts`, `budget.ts`) | `ai_usage_bucket`, one row per owner and month and one per deployment and month | reserve, release, consume, settle, record unknown | `AiUsage` |
| AI administration (`admin-routes.ts`, `settings.ts`) | `ai_runtime_state`, provider and prompt versions | publish, switch generation, grant and revoke access, test a provider | `AiReportJobs` |
| AI report locks | PostgreSQL's advisory and row locks | the transactions above | `AiReportLocks` |
| Guru analysis runs (`guru-analysis/`) | runs, attempts, invalidation events | schedule, claim, dispatch, complete, invalidate | planned |
| Shared prompts (`shared-prompts/`) | one revision-checked state row per prompt, immutable versions | draft, test, publish | planned |
| Sessions (`auth-session.ts`, `auth-routes.ts`) | `refresh_tokens`: native families with rotated ancestors, web sessions; the account's `token_version` and password | login, refresh, logout, logout of all devices, change and reset of the password, deletion of the account | `Sessions` |
| Socket sessions (`socket-server.ts`, `runtime.ts`) | the sockets of a process, a revocation epoch | handshake, register, revoke, restart | `SessionSockets` |
| Session clients (`packages/api-client/src/native-session.ts`, `web-session.ts`) | the pair in memory and in storage, the refresh in flight | login, fetch, refresh, logout, restart | `NativeClient` (the native client) |
| Account email (`account-email/`) | `mail_outbox` with leases and attempts, `account_email_token`, `smtp_settings`, a dispatch fence | request a link, complete it, report a new password, claim, prepare, send behind the fence, record; edit, test, enable and disable the settings | `AccountEmail` |
| Article translations (`article-translations/`) | leased jobs, a provider circuit | enqueue, claim, complete, open the circuit | not modelled |
| Guru notifications, institutional holdings, research studio | deliveries; filings, leases and snapshots; attempts and a search budget | their workers' runs | not modelled |
| Market data (`market-data/queue.ts`) | one process's shared jobs, waiters, slots and timers | join, add, leave, fetch, retry, time out, close | `MarketQueue` |
| SEC client (`sec-edgar/`) | in-process queue and caches; a row that spaces requests | enqueue, abort, expire, evict | planned |
| Rate limits (`rate-limit/`) | sliding windows in memory or Redis | hit, fall back, recover | candidate |
| Alerts, ledger, trade plans, diaries, posts and notes, market batches | one owner's rows, or one day's snapshot | a transaction each | not modelled |
| Web application; contracts, operations, tests | none of their own | | not modelled |

### 1.2 How they interact

Every worker is a process of its own that polls the database; there are no
messages between workers. An owner's request, an administrator's request and a
worker's step are each one PostgreSQL transaction, and they meet in the rows
they share. Report jobs are the centre of this: a submission reserves a
request of the owner's quota and a cost of the deployment's budget, a worker
leases the row, checks it, admits the call in a second transaction (which
converts the reservation into a cost and takes one of two provider slots),
calls the provider outside of any transaction, and completes or fails the row
in a third. Meanwhile the owner may cancel or delete the report, delete one of
the diaries it was built from, withdraw consent or leave; the administrator may
revoke access, switch generation off, publish another provider or run a test
call over the same slots and budget; leases and slot deadlines pass; the worker
may crash; and the answer of any transaction may be lost.

The sessions are the other centre. Every transaction that issues, rotates or
revokes a session of an account takes that account's advisory lock, but a login
and a change of password compare passwords before it, a device may present any
token it was ever given, and the API process keeps sockets open that it
authenticated long ago: a callback that runs after the revoking transaction has
to find them, and the handshakes that are half way through.

A native device keeps one pair of tokens in memory and in its storage and shares
one refresh among all the calls its application makes; it meets the server in
the refresh token it presents. Account mail is an outbox: requests insert a row
with a one-time link in the transaction that needs it, workers lease the rows
and talk to the SMTP server, and the administrator's changes of the settings
wait, behind an advisory lock that senders share, for what is being sent. The
market data queue is the opposite of all these: no database, one event loop,
and callers that share a promise.

### 1.3 What is hard, and what makes it correct

* **Ten paths end a job**, and each one updates the row, its attempt, two
  buckets and the slot with statements of its own. Correct: row and attempt
  agree in every state, every reservation is owed to a waiting job, the bill is
  exact, and what was settled stays settled.
* **A paid call must not happen twice.** Correct: no two workers ever call for
  the same report, through lost leases, requeues, crashes and lost
  acknowledgements.
* **Completion asks for no permission.** Correct: every path that withdraws one
  ends the running job in its own transaction, so no result is published after.
* **Capacity outlives the job.** Cancelling frees the owner but not the
  provider. Correct: a slot is free only when its call returned or its
  deadline passed, there are never more than two, and every slot comes back.
* **Everything is recovered by someone else**: a lost lease and a lost slot are
  only noticed by the next claim or admission. Correct: calls and jobs end.
* **Months end** between a reservation and its settlement. Correct: every
  bucket statement names the month of the reservation.
* **Locks.** The transactions are atomic because they share one advisory lock,
  except the source trigger, which takes only the owner's. Correct: no circle.

* **A refresh token is a bearer token that is used once.** Rotation, replay and
  logout of one family race. Correct: one live token per family, a replay ends
  all of them, and what ended stays ended.
* **Passwords are compared outside the lock.** Correct: who gets a session, or
  replaces the password, has proven the one the account has at that moment.
* **Sockets outlive the rows they were authenticated by.** Correct: when a
  revoking request has answered, none of an older version is registered.

* **A device's calls interleave.** A refresh, a login, a logout and several
  fetches each hold the pair they read before an await. Correct: no token is
  presented after it was rotated, and after a logout no pair comes back.
* **A worker looks at settings and links several times before it sends**, and
  holds the fence only for the last part. Correct: what is sent is sent under
  the settings in force, every hand-over was counted before, and the outcome of
  a send never reopens a row that ended meanwhile.
* **Links are bearer secrets used once**: completions of one link, requests for
  a new one and changes of the password race. Correct: at most one link per
  purpose works, and it works once.
* **A shared fetch belongs to its callers**: it is joined, left, answered,
  timed out and closed in any order, and its slot comes back in a later turn.
  Correct: slots and jobs are accounted for, every caller is answered.

`hazards` in `PROJECT.json` lists these at the lines where they bite, with the
properties that cover them, and the hazards no property covers, most of them of
components not modelled yet: translations completed after their lease, the
shared byte budget and the gates of the SEC client, guru runs that an
invalidation misses, the research studio's attempts, retried submissions.

## 2. The modules

| Module | What it is |
| --- | --- |
| `AiUsage` | the two buckets as records, one operator per SQL statement |
| `AiReportJobs` | the engine: state, one action per transaction or worker step, `Spec`, `FairSpec` |
| `AiReportProperties` | what the engine promises |
| `JobLedger` | the abstract specification: a ledger of paid jobs without workers, leases, slots or buckets |
| `AiReportLocks` | the lock requests behind three of the transactions |
| `Sessions` | the rows and requests of one account's sessions, and what they promise |
| `SessionFamilies` | the abstract specification of the sessions: families with one token that can be refreshed |
| `SessionSockets` | extends `Sessions` with the API process: sockets, epoch, callbacks; `Spec` |
| `NativeClient` | extends `Sessions` with one native device: its calls, memory, storage and restarts; `Spec` |
| `AccountEmail` | the outbox, links, workers, fence and settings of one address; `Spec` |
| `MarketQueue` | the queue in front of the market data provider; `Spec`, with its fairness |
| `SharedCalls` | the abstract specification of the queue: callers that share the call of a key |
| `AiReportSafetyProofs`, `AiReportAccountProofs`, `AiReportLedgerProofs`, `AiReportLockProofs`, `SessionProofs`, `NativeClientProofs`, `AccountEmailProofs`, `MarketQueueProofs` | the theorems |
| `MCAiReportJobs`, `MCAiReportLocks`, `MCSessions`, `MCNativeClient`, `MCAccountEmail`, `MCMarketQueue` | the values of the constants for TLC |

### 2.1 State

`db` holds the tables: `db.report` (`ai_report`), `db.attempt`
(`ai_report_attempt`), `db.usage` and `db.global` (`ai_usage_bucket`). It is one
variable because every transaction works on all of them: an operator from store
to store (`Account`, `Reap`, `ExpireLeases`, `InvalidateSource`, ...) is one
statement or helper of the code, and `Commit(s)` is the end of the transaction,
refused when `budget.ts` would throw or a CHECK constraint would fail.
`users`, `access`, `consent` and `runtime` are the rows of the permissions,
`month` is the clock's UTC month, and `worker[w]` the local variables of
`runAiReportOnce`: its program counter, the claimed report and whether the call
was admitted. A worker runs one job at a time, so its name stands for the lease
token of its current claim.

A report and its attempt share their number, because a report has at most one
attempt (`dispatched` never returns to false and admission requires it to be
false); the administrator's tests are attempts without a report.

In `Sessions`, `account` is the row of `users`, `token` the rows of
`refresh_tokens` (a family is named by its first token; a deleted row keeps only
the version its access tokens carry) and `request[q]` what a login or a change
of password remembers of the row it compared with. `replayed` is a history
variable: the families whose replay was answered. In `SessionSockets`,
`socket[k]` is a connection's stage with the version of its token and the epoch
it began in, and `pending` counts the revocations that are committed and whose
callback has not run.

In `NativeClient`, `call[c]` are the local variables of one running call of
`refresh`, `login`, `logout` or `authenticatedFetch`, its stage the await it
stands at; `loaded`, `inFlight` and `writes` are the closure's variables, and
`stored` the device's storage. The code's epoch counter is only ever compared
for equality, so a call remembers whether it moved since (`stale`). `late` are
the refresh requests given up by the device that may still reach the server;
`out` and `ended` are history for the properties.

In `AccountEmail`, a row of `mail` is a row of `mail_outbox` with the link it
carries (`token`), `settings` is `smtp_settings`, `worker[w]` what a worker
remembers of its claim, and the fence is held by the workers at the stages
`checked` and `sending`. `completing` and `notifying` are requests between
their reads and their transaction; `handed` and `uses` are history.

In `MarketQueue`, `job[j]` is the job object with the stage of its `execute`,
`consumers`, `inFlight`, `waiters` and `active` are the queue's fields, and
`pending` the callers whose promise is open. An identity is used again once its
job has ended and its execution is over, as garbage is.

### 2.2 Actions

| Action | Code |
| --- | --- |
| `Generate` | `AiReportService.generate`, past its idempotency lookup |
| `CancelReport`, `DeleteReport` | `cancelAiReport`, `deleteAiReport` |
| `AcceptConsent`, `RevokeConsent` | `acceptConsent`, `revokeConsent` and the cancellation it runs |
| `DeleteSource` | the trigger `ai_invalidate_reports_for_source` |
| `DeleteAccount` | the trigger `ai_reconcile_report_delete` with the cascades |
| `UpdateAccess`, `UpdateGenerationEnabled`, `PublishProvider`, `PublishPrompt` | the administrator's routes |
| `AdmitTest`, `SettleTest` | `admitAdminAttempt`, `settleAdminAttempt` |
| `Claim` | `claimNextAiReport`: reap, recover leases, lease the oldest |
| `Precheck`, `Admit`, `Requeue`, `CallReturns`, `Complete`, `Fail`, `ReleaseSlot` | the steps of `runAiReportOnce` |
| `Crash` | the worker process dies |
| `LeaseLapse`, `SlotLapse`, `NextMonth` | a deadline, or a month's end, passes |
| `RefreshNative`, `RefreshWeb`, `LogoutNative`, `LogoutWeb` | `refreshNativeSession`, `refreshWebSession`, `logoutNativeSession`, `POST /api/auth/logout` |
| `Begin`, `Refuse`, `CreateLoginSession`, `ChangePassword` | a login or a change of password, before and after its lock |
| `ResetPassword`, `LogoutAll`, `DeleteAccount` (of `Sessions`) | `completePasswordReset`, `logoutAllSessions`, `DELETE /api/admin/users/:id` |
| `Lapse` | `expires_at` passes |
| `BeginHandshake`, `AuthenticateHandshake`, `AdmitHandshake`, `Register` | the awaits of the middleware, and the `connection` event |
| `RevokeUser`, `Disconnect`, `Restart` | `onAccountRevoked`, the expiry timer or the client, a new process |
| `Refresh`, `SendRefresh`, `ServeRefresh`, `StoreRefresh` | `refresh`, from await to await, and the server's side of it |
| `GiveUp`, `LoseAnswer`, `ServeLate` | a request or its answer is lost, a request arrives late |
| `Login`, `ServeLogin`, `StoreLogin`; `Logout`, `ClearForLogout`, `ServeLogout`, `LoseLogout` | `login`, `logout` |
| `Fetch`, `SendFetch`, `FetchReturns`, `Reread`, `Recover`, `Resend`, `ResentReturns` | `authenticatedFetch` and its recovery from a 401 |
| `GetReturns`, `GetFails`, `WriteSucceeds`, `WriteFails`, `Crash` | the storage answers, the application is killed |
| `Poll`, `Prepare`, `EnterFence`, `StartSend`, `RecordSent`, `RecordFailure` | the steps of `runAccountEmailWorkerOnce` |
| `UpdateSettings`, `ClearSettings`, `Enable`, `Disable`, `TestSettings` | the administrator's requests in `settings.ts` |
| `RequestLink`, `RegisterDirectly`, `BeginCompletion`, `RefuseCompletion`, `RefuseLateLink`, `CompleteRegistration`, `CompletePasswordReset` | the account's requests in `lifecycle.ts` |
| `ReadForNotice`, `CommitNotice`, `ChangePasswordQuietly`, `DeleteAccount` (of `AccountEmail`) | a new password and the mail that reports it, before and in its transaction; the cascade |
| `LeaseLapses`, `Expire` | a mail's lease or its link's time passes |
| `Join`, `Add`, `Leave`, `Close` | `run`, a caller's signal, `close` |
| `FetchReturns`, `FetchFails`, `DelayEnds`, `Unwind` (of `MarketQueue`) | `execute`: an answer, an error and its retry, the end of an aborted execution |
| `QueueTimeout`, `OverallTimeout` | the two timers of a job |

Each of `Requeue`, `Complete` and `Fail` may also fail with nothing written, and
`Admit` and `Complete` may commit and lose the answer.

### 2.3 Abstractions

* **Transactions are atomic.** Those of the engine hold the global advisory
  lock or the owner's and lock the rows they read; `AiReportLocks` looks at the
  order in which they do. The worker's precheck reads without a lock, and is a
  step of its own whose result is used later.
* **Time is flags.** A lease or a slot is live until a step says it lapsed, at
  any moment. A heartbeat that succeeds leaves it live and is no step; one that
  fails aborts the call, which is one of the errors of `CallReturns`.
* **Data.** One `Cost` reserves every call, one `Budget` and one `Quota` bound
  them. A settled cost is one of `ActualCosts` or none. Report bodies, source
  snapshots, prompts' texts and token counts are not kept. Sources that are
  current and sources that changed are the same to every decision.
* **Only restricting checks left out of `Generate`**: the idempotency table,
  the regeneration cooldown, the preview fingerprint and the freshness of a
  worker's heartbeat.
* **Rows keep their owner's name and month**, and a deleted account's row
  becomes `"purged"`: its number is not given again.

For the sessions:

* **One account.** The advisory lock is per account and no statement touches
  another's rows. Another account's revocation raises the shared epoch too,
  which rejects more handshakes and admits none.
* **Transactions are atomic**: all take the account's lock first and read under
  it. The browser's logout takes none, but is one DELETE of one row.
* **The expiry of a row that is revoked** is never read and never set.
* **A password is known by value, a hash by the version it was written at**,
  because bcrypt salts each one.
* **The web refresh** writes only when the row expired; otherwise it signs an
  access token, which `BeginHandshake` takes from any token ever issued.
* **The acknowledgement of a revoking commit is not lost**: a request that
  fails after its commit would not run its callback.

For the native client:

* **An action is what runs between two awaits.** The end of a storage write and
  the continuation of the call that waits for it are one action, and so are a
  refresh and the microtask that starts its read: only code of the same turn
  could come between.
* **The storage serves its requests in the order they were issued.**
  `storage.get` is not in the queue of writes; with a storage that answered a
  read after a later write, a refresh could present an older pair.
* **The server** is `Sessions` with one account; `AccountDeleted` stands for
  any revocation on the server's side. Access tokens are good or refused by
  choice; the browser's client keeps nothing and is left out.

For the account email:

* **Recovery and claim are one action**: two transactions of one poll, of which
  the first may also run alone. Rows that have ended are never swept away, and a
  row that ended keeps no count of attempts, which nobody reads.
* **A test of an older revision** changes no row of the settings the next step
  reads, and is left out; so are rate limits, encryption, conflicts of the
  administrator's forms, and the rows of test messages.
* **Expiry** is a flag, as in the engine. A completion reads the clock when it
  begins; a link that has expired by then is revoked in one step.
* **The fence holds**: a worker whose database connection is lost while it
  sends would give the fence back early; that is not modelled.

For the market data queue:

* **An action is what runs without yielding.** `pump` is a loop in the code;
  here it takes at most one turn, which `SlotsAreAccounted` justifies: a job
  waits only while no slot is free, and one slot comes back at a time.
* **A call that is refused** (queue full, too many consumers, closed) leaves
  nothing behind and is no step. A fetch that ignores its abort signal for
  ever, and so keeps its slot, is not modelled.

### 2.4 The abstract specifications

Each says what a component promises without its mechanism, and the component
implements it under a mapping of its state. They are safety specifications:
their steps may stop.

* `JobLedger` (`ImplementsLedger`): jobs move along phases, at most one starts in
  a step, and a month's commitment changes by exactly what those moves cost. The
  phase of a job is read off its row and attempt.
* `SessionFamilies` (`ImplementsFamilies`): a token is issued once, only the one
  live token of a family has a successor, which takes its place in the same step,
  and an ended family gets no token. `issued <- Issued` are the rows that are not
  absent, `live <- LiveByFamily` the live rows by family, a browser's as well as a
  device's. A change of password is `Replace`, a replay, an expiry, a logout or a
  revocation is an `End` of one family or of all. That a native family has one
  live token at most (`OneLiveTokenPerFamily`) and that an ended one stays ended
  (`FamiliesEndForGood`) follow from it, so the run checks the refinement alone;
  both are also proved as theorems.
* `SharedCalls` (`ImplementsSharedCalls`): the callers of a key are a group that is
  joined, left, and answered as a whole; nobody is in two groups; no more keys
  are asked for than there are slots and places to wait
  (`MaxKeys <- Slots + MaxWaiters`), and a group has `MaxConsumers` at most.
  `asking <- Sharers` are the consumers of the job the map has for a key. The
  start of a job, its attempts and an unwinding are hidden steps.

## 3. Runs

| Run | What it asks | Distinct states |
| --- | --- | --- |
| `MCAccounts` | two owners, a worker, an administrator, two prompts, permissions withdrawn: types, CHECK constraints, backed reservations, exact quotas | 651,247 |
| `MCRaces` | two workers and a provider test over one owner's two reports, budget and quota of two, free and bound settlements: single call, final settlement, exact bill, limits, slots | 399,000 |
| `MCLedger` | two months, two providers, a budget of four: the ledger is implemented, nothing is published after a revocation | 238,000 |
| `MCProgress` | two reports and a test compete for the two slots, under fairness: capacity, every call ends, every job ends | 32,000 |
| `MCLocksNoLostCall` | two workers, two owners cancelling and deleting sources, reports in any state but that of a lost call: no circle | 184,144 |
| `MCSessions` | three tokens, two passwords, a login or change of password in flight, a socket: the abstract families, replays, versions, passwords, sockets | 1,117,161 |
| `MCNativeClient` | two tokens, three calls of a device that refresh, log in, log out and fetch, failing storage, lost and late requests, one kill: no replay, no session after a logout, no descendant of a session that was logged out | 1,377,877 |
| `MCAccountEmail` | two mails with two attempts each, two workers, one client, two revisions: settings in force, counted hand-overs, links, ended mail | 1,546,256 |
| `MCMarketQueue` | three keys, four callers, three jobs, two slots, one place to wait, under fairness: slots, jobs, callers, the abstract sharing of calls, and that everything ends | 70,310 |
| `MCPrompts`, `MCMonths`, `MCLocks` | the three findings | stop at the violation |

### 3.1 Bounds, and why they are enough

`NumReports`, `NumTests`, `LastMonth`, `LastProvider` and `LastPrompt` end a
behaviour's supply of rows and events; `MaxWithdrawn` is how many permissions
may be off at the same time (they may be switched off and on again without
limit). Two reports show everything two jobs can do to each other: the second
is submitted only after the first ended, while its call, its slot or its worker
may still be alive. Two reports and a test are one call more than there are
slots. Two workers let one hold what the other has taken over. A quota or
budget that equals the number of rows, and one that is smaller, are both there.
Each run leaves out what its question does not need (a run with two owners has
one worker, a run with two months has one owner); Section 4 proves several of
the same properties for all values. Symmetry is used where only sets of users
or workers appear, and in no run that checks liveness. Three tokens are a login,
its rotation and either one more rotation or another device; a token version
that rises once, and a deletion after it, leave two revocations pending at the
same time. One request in flight is enough, because what can change under it
are a reset, a logout of all devices and a deletion, which need no request; the
proofs of Section 4 hold for any number.

Two tokens are a login and its rotation, which is all a device needs to present
a rotated one; of three calls two can race while a third logs out, and the last
idle one is kept for the refresh that a fetch may need (`Fetch`). Two mails let
a link replace an older one while a worker sends that, two workers let a lease
move on during a send, two attempts reach the limit. Three jobs fill both slots
and the place to wait, and a fourth caller joins one of them; a queue of one
place still has an order of arrival between it and the slots. `Job` needs no more
than `Slots + MaxWaiters` identities, which the module assumes.

The models do not deadlock, because a worker polls, the API restarts and a
device calls for ever, and the runs check it; only a market queue that was
closed and has got its slots back has nothing left to do.

### 3.2 Fairness

`FairSpec` assumes that a worker keeps running (`runAiWorker` loops until it is
stopped, and every provider call and statement has a timeout), that a slot's
deadline passes, and that the lease of a report that no worker holds lapses,
since only its holder extends it. Nothing obliges an owner, an administrator, a
crash or a test's answer to happen. `CallsEnd` needs no more: crashes may go on
for ever. `JobsEnd` speaks of behaviours in which crashes and lost heartbeats
stop at some time, because a worker that always dies before its dispatch never
finishes anything.

The market queue is fair to its timers and to the rejections of aborted
executions (`WF` of `OverallTimeout` and `Unwind`): both are the event loop's.
The provider is never obliged to answer, callers never to leave.

### 3.3 Findings

1. **`MCPrompts`**: `docs/runbooks/ai-reports.md:33` says that publishing a
   prompt fences unpublished results. `publishPrompt` touches no job and neither
   admission nor completion compares prompts.
2. **`MCMonths`**: the source trigger gives the owner's request back in every
   month the owner has a bucket for; its statement for the deployment's bucket
   names the month, as `docs/adr/0014-manual-ai-reports.md:16` asks. The
   reserved counts are saved by `greatest(0, ...)`, the released ones are not.
3. **`MCLocks`**: a comment in `claimNextAiReport` says that its order of locks
   cannot deadlock. The reaper it calls first locks attempts, buckets and
   reports before any owner, and a source deletion holds its owner and no
   global lock. PostgreSQL ends such a circle by aborting one side, so the
   effect is a failed deletion or a failed poll. `MCLocksNoLostCall` shows that
   the claim of the comment holds when no lost call has to be settled.

## 4. Proofs

All theorems hold for any sets of accounts, workers, requests, sockets, mails and
calls, clients and any values of the other constants that satisfy the module's
assumption (`ConstantAssumption`, `ClientAssumption` for the native client,
`QueueAssumption` for the market queue).

| Theorem | Module | Says |
| --- | --- | --- |
| `TypeCorrect` | `AiReportSafetyProofs` | `Spec => []TypeOK` |
| `RowsAndAttemptsAgree` | | `Spec => []AttemptMatchesReport` |
| `RowsAreWellFormed` | | `Spec => []RowsWellFormed` |
| `OneJobPerOwner` | | `Spec => []OneActiveJob` |
| `AtMostOneCall` | | `Spec => []OneCallPerReport` |
| `SettlementIsFinal` | | `Spec => SettledIsFinal` |
| `PublicationIsPermitted` | | `Spec => NoPublicationAfterRevocation` |
| `EveryReservationIsBacked` | `AiReportAccountProofs` | `Spec => []ReservationsBacked` |
| `LimitsHold` | | `Spec => []WithinLimits` |
| `CapacityHolds` | | `Spec => []CapacityRespected` |
| `SlotsAreTheirCalls` | | `Spec => SlotOutlivesCancellation` |
| `EngineImplementsLedger` | `AiReportLedgerProofs` | `Spec => ImplementsLedger` |
| `QuotasAreExact` | | `Spec => []QuotaIsExact` |
| `BillsAreExact` | | `Spec => []BillIsExact` |
| `NobodyWaitsInACircle` | `AiReportLockProofs` | without lost or overdue calls, `Spec => []CannotDeadlock` |
| `SessionTypes` | `SessionProofs` | `Spec => []TypeOK` |
| `SessionsStayCurrent` | | `Spec => []LiveTokensAreCurrent` |
| `OneRotationWins` | | `Spec => []OneLiveTokenPerFamily` |
| `ReplayContained` | | `Spec => []ReplayEndsFamily` |
| `EndedSessionsStayEnded` | | `Spec => FamiliesEndForGood` |
| `SessionsAreFamilies` | | `Spec => ImplementsFamilies` |
| `PasswordProven` | | `Spec => PasswordIsCurrent` |
| `SocketsRevoked` | | `Spec => []SocketsAreCurrent` |
| `MailTypes` | `AccountEmailProofs` | `Spec => []TypeOK` |
| `SendsAreCurrent` | | `Spec => []SendsUseCurrentSettings` |
| `LinksAreServed` | | `Spec => []PendingLinksAreServed` |
| `LiveLinkIsAlone` | | `Spec => []OneLiveLink` |
| `LinksWorkOnce` | | `Spec => []LinkWorksOnce` |
| `HandOversAreCounted` | | `Spec => SendsAreCounted` |
| `EndsAreFinal` | | `Spec => EndedMailStaysEnded` |
| `QueueTypes` | `MarketQueueProofs` | `Spec => []TypeOK` |
| `SlotsAccounted` | | `Spec => []SlotsAreAccounted` |
| `JobsWanted` | | `Spec => []JobsAreWanted` |
| `CallersHeld` | | `Spec => []CallersAreHeld` |
| `QueueSharesCalls` | | `Spec => ImplementsSharedCalls` |
| `ClientTypes` | `NativeClientProofs` | `Spec => []TypeOK` |
| `ReplaysNothing` | | `Spec => []NeverReplays` |
| `StaysSignedOut` | | `Spec => []SignedOutStaysOut` |
| `LogoutsEnd` | | `Spec => []LogoutEndsFamily` |
| `DeviceSeesFamilies` | | `Spec => ImplementsFamilies`, with the device's `Spec` |

**Types** follow store operator by store operator: each is shown to map
`Store` to `Store`, once, and each action cites the operators it uses. The
accounts need it too, for the arithmetic of the buckets.

**The inductive invariant** is

    IInv == TypeOK /\ Consistent(db) /\ OneActiveJob /\ Permitted /\ CallsMarked /\ OneCallPerReport

`AttemptMatchesReport` is not inductive alone, for a queued row could be marked
dispatched, or a free row still be open: `Consistent` adds the shape of each
row, that an absent or queued report has no attempt, and that an open attempt
still has its slot. `Permitted` is why completion may ask for no permission: in
every state a running or queued job has its owner's access, a consent, the
active provider and enabled generation. `CallsMarked` is why there is one call:
a worker that is calling or has an answer has an admitted attempt, and a
report's attempt is admitted once.

**Steps.** Most operators only continue rows and attempts in ways the tables
allow. The relation `Continues(s, t)` says what those ways are; every store
operator is shown to be such a step, and lemma `StepKinds` sorts all actions
into continuations, submissions, claims, admissions and completions. The
invariant's preservation and the two action properties are then proved over
these kinds instead of over twenty-odd actions.

**The accounts.** `Sound(db)` adds the counts to the invariant: every month's
reservations are one for each job that waits (`Backed`), no bucket exceeds its
limit (`Limits`), and no more slots are taken than there are (`Capacity`). The
relation `Releases(s, t, D)` says what all the paths that end jobs have in
common: the jobs `D` stop waiting and their reservations are given back, costs
are settled at no more than their bound, and no slot is taken. One lemma
(`ReleasesKeep`) shows that such a step keeps `Sound`, and every statement that
ends jobs is shown to be one. The submission and the two admissions, which
reserve, consume and take slots, have lemmas of their own. The statement of the
source trigger that gives a request back in every month of its owner is such a
step because of `OneActiveJob`: an owner waits for one job at most, so the other
months have nothing reserved, and `greatest(0, ...)` leaves them at zero.

**The ledger.** The refinement needs two facts more: by `Backed`, what a month
has committed is its estimate plus one bound for each job that waits, so a step
is the ledger's when its jobs move along their phases and the estimate changes
by the calls it begins and the prices it settles (`CommitmentFollows`); and an
open call is billed to the month of its report (`MonthsMatch`), so a result is
priced where its call was charged, although `completeAiReport` takes the month
from the report and the admission wrote it to the attempt. Almost every
statement begins no call and settles no price (`Ends(s, t)`, closed under
composition); a submission, the two admissions and the two settlements move one
job, and `OneJobMoves` shows that it is enough to look at that one.

**The tallies.** `Tallied(db)` says that both kinds of buckets agree with the
attempts. An owner's bucket of a month has consumed one for each of their reports
called in that month, and counts as unknown those that ended without a result.
The deployment's bucket has consumed one for each call of the month, has estimated
the sum of their prices, the bound where the provider gave none, and counts as
unknown the calls that ended without a price. It needs `MonthsMatch`: `Account`
records an unknown cost in the month of the report, and the call was counted in
the month of its attempt. It holds after a purge because an account loses its
calls with its buckets. `Records(s, t)` names the one way a statement touches the
tallies without making a call: it ends open calls of a month, and raises `unknown`
by as many. Only the admissions (`CallBeginsTallied`) and the settlements
(`CallSettlesTallied`) do more.

The bill is a fold over a set of calls (`MapThenSumSet`), so its proof needs
induction. The library's induction theorems take an operator, which the provers
cannot instantiate; `SetInduction` says the same of a set of numbers, from the
well-foundedness of `<` on `Nat`. With it, induction on the cardinality shows that
a function that adds up the subsets of a finite set exists (`SumExists`), that its
value does not depend on the element taken first (`SumAdds`), and that the fold is
such a function whatever larger set the prices are given for (`SumsAgree`,
`BilledIsSum`). What the steps use is `BilledSame` and `BilledMore`.

**Slots.** Almost every statement keeps held slots held and starts no claim
(`Keeps`). What frees one is a worker with a call of its own, except that
`failAiReport` is also called for an admission that was rejected, and frees a
slot when the report is dispatched. `PreAdmitted` is why it never is: while a
worker that was not admitted still has its claim, its report is undispatched,
because only the holder of the claim dispatches it.

**Sessions.** Here, too, the actions are sorted into kinds: `Continuing` (rows
are revoked, deleted or lapse), `Issuing` (one row for a login, or for a
rotation whose parent was the family's only live token) and `Revoking` (every
session ends, one may be issued at the raised version). The invariant adds

* `RowsKnown`: a row's family was begun by a row that was issued, so a new
  login never falls into a family that was replayed or has ended;
* `RequestsRemember`: an equal hash is an equal password, because the hash a
  request has read is never later than the account's;
* `SocketsFenced`: a handshake past its authentication is of a current token,
  or a revocation is pending, or its epoch has passed and it will be rejected.

**The families.** For the refinement (`SessionsAreFamilies`) each kind of step is
one abstract action or a few: a `Continuing` step is an `End` of the families that
lost a live row, or changes nothing a client sees; an `Issuing` one is a `Begin`
or a `Rotate`; a `Revoking` one is an `End` of all or a `Replace`. `Rotate` asks for
the family's one live token, and no single step shows that there is one:
`OneToken`, which `SessionFamilies` states of its own variables, is part of the
invariant, under the mapping, and an `Issuing` step names the parent that it
revokes. `DeviceSeesFamilies` shows the same of the client composed with the
server: the steps of the device that reach the server are the server's, late and
lost requests included, and all others leave the families as they are.

Every property of `MCSessions` is proved.

**Account email.** The invariant adds to the four that the run checks

* `RowsBegin`: an absent row is untouched and its link never worked, and a
  transaction that is about to add a row has found it absent;
* `LeasesAgree`: the holder of a lease remembers the attempts the row has, so
  the count it writes before a send is one more, whoever recovered the row in
  between;
* `LinksAreFresh`: a link that is active has not worked yet.

Almost every statement only lets rows go on (`Continues`), and one lemma shows
that such a step keeps the invariant and both action properties; a claim, the
start of a send and the two statements that add rows have lemmas of their own.
The settings are compared with what is being sent under `FenceFree`, the
exclusive fence. Every property of `MCAccountEmail` is proved.

**The market queue.** The invariant (`QueueInvariant`) relates the jobs' records
to each of the queue's other structures in turn: the sequence of waiters is
exactly the queued jobs, once each (`QueueFits`), the count of slots is the
number of jobs that hold one (`SlotsFit`), the map holds the unsettled jobs under
their keys (`MapFits`), and each of these has the callers that still wait
(`CallersFit`). What `SlotsAreAccounted` needs beyond itself is that jobs wait
only while the queue is open and all slots are taken: `pump` starts one job
after a slot came back, so this is why one turn of its loop is enough
(`PumpFits`). The map and the callers look at the unsettled jobs and their keys
only, so a retry, a start and an unwinding leave them alone (`SameOpenJobs`),
and the four ways a job ends (an answer, an error, a timeout, its last caller's
leaving) share one lemma (`EndedIsForgotten`).

The queue's refinement (`QueueSharesCalls`) needs no more than that invariant. By
`MapFits` a job has one key and by `CallersFit` a caller one job, so the end of a
job is the end of its key's group (`GroupEnds`), and what happens to one job does
not touch another group. A new group finds its place because the unsettled jobs
are counted: each waits or holds a slot, and when a slot is free nothing waits
(`OpenIsCounted`), and no two keys that are asked for have the same job
(`AskedIsCounted`). Every safety property of `MCMarketQueue` is proved.

**The native client.** The invariant (`Good`) is stated over values, not over the
variables: `Good(T, P, L, F, Q, S, ...)` speaks of any rows `T`, calls `P`, loaded
session `L`, refresh in flight `F`, queue `Q` and storage `S`. So an action is
taken apart into one or two of a dozen changes, and one lemma for each keeps the
invariant: a quiet step (`QuietStep`, most of what calls do), a refresh that begins
(`StartStep`) or ends (`EndStep`), a login, a logout or a failure that outdates the
others and clears (`ClearStep`), an answer that is stored (`StoreStep`), rows that
end (`ShrinkStep`), a row that is issued (`AddStep`) and handed over (`GiveStep`).
The end of a write is a half step: the write has left the queue (`PopStep`) and its
call `x` goes on with one of the others. Beyond the shape of a call's record and of
the queue (each call that writes has one entry, with what it writes) there are

* `ReplayOK`, of a device that was not killed: a token has one refresh at most, a
  token that has been used, or was given up and may be used yet, is not read or
  sent, and if it is still loaded its refresh has not gone on; what a refresh or
  a login was answered is unused and known to that call alone;
* `LeavingOK`: while a logout's write waits nothing is loaded, no refresh that is
  not stale has a session, a login that is not stale has its own write still behind
  the logout's, and only clearing follows it in the queue. This is why the logout
  may say that everything is gone when its own write is over;
* `GoneOK`: when a logout is sent, nothing the device may go on with is of its
  family, and a family the server has logged out has no live token, nor gets one:
  a rotation needs a live one, and a login's family is new (`RowsOK`).

`SignedOutStaysOut` is `OutOK`: the only call that could bring a session back is a
refresh that is not stale, and `InMemory` counts what it has read. Every property
of `MCNativeClient` is proved.

**The order of locks.** `NobodyWaitsInACircle` assumes that no report starts with a
lost or an overdue call (`InitialJob \subseteq Steady`; none appears later in this
model), as `MCLocksNoLostCall` does; with one, `MCLocks` shows the circle. The
invariant (`LockInvariant`) says what each session may hold and ask for:

* a row is held, and asked for, under its owner's lock only (`RowsHeld`,
  `RowsBehindOwner`), so nobody waits for a row;
* who holds the deployment's bucket asks for no advisory lock any more
  (`BudgetLast`), so it does not wait at all;
* a session that holds an owner's lock and asks for another owner's is a claim and
  holds the global lock (`ClaimFits`, `OwnerFits`), so there is at most one;
* who asks for the global lock holds nothing (`GlobalFirst`).

In a set of sessions that wait for each other everybody would wait for an advisory
lock, somebody for an owner's, and that lock's holder and the holder it waits for
would both hold the global one. A claim that settles a call breaks the second
point: it holds the bucket before it asks for owners.

**Only model-checked**: liveness (`CallsEnd`, `JobsEnd`, `EverythingEnds`), which
TLAPS does not prove.

A leaf that unfolds a whole action or adds up a bill names its prover and the time it
may take, and allows the same prover a second, longer attempt (`SMTT(40), SMTT(80)`);
the others use the provers' defaults.

## 5. Not modelled, and the plan

Of the modelled components: `alert:dismiss` and the pushes over sockets, the
access middleware; the browser's client; the idempotency table of submissions,
the purge of report bodies after seven days, drafts and their test results,
audit rows, the lock order of admission and completion; rate limits, retention
and test messages of the account email; the parsing and the cache behind the
market data queue. The components marked so in the table above are left out
because they are pages and forms, single transactions over one owner's rows,
numeric batches, or wait for their module.

Seen in the code while modelling, and stated by no property:

* A 401 that arrives while a login is under way starts a refresh that finds no
  session; its failure clears the storage and raises the epoch, so the login
  fails with 'Native session changed during login'
  (`native-session.ts`, `refresh` and `login`). A login that is answered after a
  logout leaves a session on the server that no device holds.
* After a kill a device may present a token it had rotated, which ends the
  session; `NeverReplays` speaks of devices that were not killed.
* A mail's lease counts from its claim, is thirty seconds longer than one SMTP
  timeout and is not extended when the send starts, so after a long wait for
  the fence or a slow server two workers may send at the same time, where the
  runbook (`docs/runbooks/account-email.md:125`) describes one dispatch. The
  model has these sends, and its properties hold with them.
* The mail that reports a new password is queued after a read without a lock
  and may be queued after mail was disabled, and its transaction may miss a
  link that was requested meanwhile. `PendingLinksAreServed` therefore speaks
  of mails with links, which are requested under a lock.
* The reset mail of an account that was deleted is still sent: its link is gone
  with the account and `token_id` is set to null (`admin-users.ts`).

In the order of the plan:

1. `SecClient`: the gate chain and aborts of `queue.ts`, and the shared byte
   budget of `cache.ts`, whose two comments give different ceilings.
2. `GuruRuns`: the second engine over the same slots and budget, composed with
   the reports' store, and the invalidation events.
3. `AiReportRequests`: idempotent submission, restricting `Generate`.
4. `Translations`: leased jobs whose post may change under them.
5. `AiReportLocks`: the lock requests of admission, completion and the
   administrator's transactions, under the same invariant.
