# Handla: a TLA+ verification of the back office

Handla is a business back office: a NestJS/TypeORM server on MySQL
(`src/handla-backend`) and a Next.js frontend (`src/handla-frontend`). It keeps
clients, quotations, invoices, purchases, expenses, a ledger, projects, tasks,
contracts, chat and support, and operates SaaS tenants through a control plane.

This directory specifies the parts where money, documents and tenant states can
go wrong, model-checks them with TLC and proves what matters most with TLAPS.
Line numbers below are those of the files under `src/`.

## 1. Inventory

What makes this program hard is not in any one function:

* one Node process interleaves requests, hooks and timers at every `await`;
* handlers load an entity, check it, await, and save **the whole entity they
  loaded**: TypeORM's `save` writes what was read, however stale, and inserts a
  row again when it was deleted meanwhile;
* side effects are started with `void promise` and nobody waits for them;
* few operations are transactions, and a restart drops whatever was half-way.

| Component | State | Operations | Interacts with | Correct when |
|---|---|---|---|---|
| Invoices | `invoices` rows: payment status, paid date, total, notes, link token | create, update, remove, markAsPaid, uploadPaymentProof, submitPaymentProof, link management, overdue sweep | uploads, expenses, numbering, notifications | PAID only by confirmation; the documented lifecycle; each payment proof used once, for its invoice |
| File uploads | `file_uploads`: PENDING, CONSUMED | recorded by an upload, consumed by a submission | invoices, tasks | consumed together with what cites it |
| Expenses | `expenses` rows, some made by hooks | createFromPaidInvoice / -Purchase, create, update, remove | accounting, invoices, purchases | one entry per document; automatic entries read-only; saved means posted |
| Accounting | chart of accounts, `ledger_entries` | record, manual entries, accounts, seeding | called by expenses | one row per document, for good; hooks always find their account |
| Document numbering | the numbers stored per series and year | MAX + 1 within `create()` | connection pool, unique indexes | a number per document, no creation refused for nothing, none stuck |
| SaaS control plane | tenants, provisioning jobs | requests, worker passes with retries, callbacks | external products | jobs settle, bounded calls, states the product reported, ARCHIVED is final |
| Quotations | rows with a status and the documents made from them | create, update, remove, send, accept, reject, convert, links, expiry sweep | invoices, contracts, public links | decided on the terms that were sent; converted whole, and once |
| Contracts | rows with a status, a copy in S3 | create, update, remove, send, accept, reject, links | public links, storage | signed text is sent text; the stored copy is of a signed text |
| Public links | token columns of documents | generate, rotate, revoke, set expiry, answer | invoices, quotations, contracts | a closed link stays closed, an open one open |
| Tasks, projects | tasks, attachments (JSON), history | create, update, upload and submit files, remove, delayed sweep | uploads | files submitted are listed; a file is spent once, for its task |
| Chat assistant | conversation state row, in-process guard | reply, fall back, takeover, return | users, leads, gateway | one reply at a time; after a takeover the assistant is silent |
| Lead conversion, users, clients | users' roles, client records | convert, promote | assistant, SaaS | a client has one record; a conversion whole or not at all |
| Browser session | pending requests, refresh flag | queue, refresh, resend, time out | authentication | each request ends; one refresh at a time, no refresh loop |
| Purchases | rows with a status | create, update, pay, sweep | expenses, numbering | as invoices |
| Authentication | refresh tokens, one-time codes | sign in, refresh, verify | users | outside this project |
| E-mail, storage, reports, content, frontend pages, deployment | | | | output, read-only or single-row editing; not modelled |

`PROJECT.json` lists each component with its sources and its status, and under
`hazards` every place where this code can go wrong in a way a unit test hardly
reaches, with the property that watches it or the reason why none does yet.

## 2. Modules and how they correspond to the code

| Module | Models | Instance module |
|---|---|---|
| `InvoiceLifecycle` | the abstract life of an invoice, from the class comment of `InvoicesService` | |
| `Invoices` | `invoices.service.ts`, payment proofs of `file_uploads` | `MCInvoices` |
| `LedgerBook` | the abstract promise of `LedgerEntry`: a document posts one row | |
| `Ledger` | `accounting.service.ts`, `accounting.seeder.ts` | |
| `Expenses` | `expenses.service.ts`, over an instance of `Ledger` | `MCExpenses` |
| `InvoiceIncome` | composes `Invoices`, `Expenses` and `Ledger`: from markAsPaid to a ledger row | |
| `DocumentNumbers` | the `generate...Number` methods, `create()` around them, the pool | `MCDocuments` |
| `SaasProvisioning` | `tenants.service.ts`, `provisioning.worker.ts`, `tenant-lifecycle.ts`, `http-product-provisioner.ts` | |
| `StatusLifecycle` | the abstract promise of a status column: only documented moves | |
| `Quotations` | `quotations.service.ts` | `MCDocuments` |
| `Contracts` | `contracts.service.ts` and the copies it puts in S3 | `MCDocuments` |
| `PublicLinks` | `public-token.service.ts` and its callers | `MCDocuments` |
| `Tasks` | `tasks.service.ts`, the uploads behind task files | `MCTasks` |
| `Assistant` | `chatbot.service.ts`, `ai-state.service.ts`, `lead-extraction.service.ts` | |
| `LeadConversion` | extends `Assistant` by `lead-conversion.service.ts` and `promoteLeadToClient` | `MCLeadConversion` |
| `SessionRefresh` | the response interceptor of the frontend's `api.ts` | |
| `InvoicesProofs`, `LedgerProofs`, `ExpensesProofs`, `DocumentsProofs`, `SaasProofs`, `TasksProofs`, `LeadConversionProofs`, `SessionRefreshProofs` | theorems | |

**Handlers as actions.** A handler is cut where another request can see or
change what it depends on: at the load and at the save, with what it loaded kept
in a variable of its own (`task` in `Invoices`, `Quotations`, `Contracts`,
`PublicLinks` and `Assistant`, `request` in `Tasks`, `call` in `Ledger`, `work`
in `Expenses`, `clerk` in `LeadConversion`, `row`/`seen`/`callback` in
`SaasProvisioning`). So `MarkPaidFind(h, i)` is `findOne` with the status guard
(invoices.service.ts 511-522), and `MarkPaidSave(h)` is the save of the loaded
entity with the new status (up to 558). A *slot* (`Handler`, `Caller`, `Clerk`)
carries one activity at a time; the number of slots is the degree of overlap.

* **Invoices.** `table` is the invoices table; a row has its status, whether a
  payment date is set, its total and the uploads its notes cite. `uploads` is
  `file_uploads`. Create, the pairs Find/Save of update, remove, markAsPaid and
  the four link handlers, `UploadRecord`, the check and the transaction of
  `submitPaymentProof` (`SubmitCheck`, `SubmitCommit`, `SubmitConflict`) and the
  submission without a file (`SubmitNote`), the sweep's SELECT and UPDATE
  (`SweepFind`, `SweepUpdate`), `Crash`. `confirmed` and `cited` are history.
* **Ledger.** `record()` is three steps: look for the document, resolve the
  account code, insert; the duplicate handler of the insert is a fourth. A
  manual entry is two saves. Accounts are created, renamed (load, then save),
  and removed; `Restart` runs the seeder. The unique and foreign keys of the
  entities are guards of the inserting actions.
* **Expenses.** A hook checks for an entry and then saves one; a saved entry
  starts `record()` in the same slot. An invoice is posted under the services
  income code; a purchase under any code at all (`HookSave`), since the one
  entered with it is a free string nobody looks up. `Accounts` creates, renames
  and removes accounts meanwhile, with the actions of `Ledger`. `HookFails` is the
  insert refused by the foreign key of a deleted invoice: the promise rejects
  unhandled and Node ends.
* **InvoiceIncome.** `Confirm` is `MarkPaidSave` with the hook started,
  `DeleteInvoice` is `RemoveDelete` with the `SET NULL` on the entries,
  `BookStep` a step of the hook or the posting, `Stop` a restart of all of it.
  `lost` remembers that some save or sweep went by an outdated copy. The chart of
  accounts stands still here; it moves in `Ledger` and `Expenses`.
* **DocumentNumbers.** A create() takes a connection if it is transactional,
  reads MAX on *another* connection, and inserts. `Before` is the comparison of
  padded numerals as strings, which is why 9999 stays the maximum next to 10000.
* **SaasProvisioning.** `Ask`/`Enqueue` are the check and the queueing of a
  request; `Tick` to `Refuse` the polling pass in the order of `runJob`;
  `CallbackArrives` to `CallbackSaves` the four steps of `handleCallback`;
  `calls` and `reported` record what the product was asked and said. Only the
  call itself is inside the `try` of `runJob` (123-127): a failing query or save,
  or an unregistered provisioner key (119), throws out of it, and `tick()` logs
  that and drops the rest of the batch (`PassThrows`); a stop does the same and
  more (`Restart`). A job caught between its claim and its outcome (`AtWork`)
  stays RUNNING; `cut` remembers which.
* **Quotations.** Find/Save pairs as above. `ConvertInvoice`, `ConvertContract`
  and `ConvertSave` are the three writes of `convert()`, none in a transaction
  with another; `Fails` is any of them throwing, `Crash` a restart. A row has
  `terms`, the offer its columns state (tax, total), and `items`, the offer its
  line items are those of. Handlers that load the line items (update, send,
  convert, accept and reject by staff) save both (`SaveEntity`); the client's
  answer by the link and the link handlers do not load them, and their save
  leaves the items the table has by then (`SaveColumns`). `sent` and
  `agreed` are the terms sent to the client and accepted; `mishap` is the set of
  quotations with a conversion given up half-way, two overlapping conversions,
  or a save over a newer row.
* **Contracts.** `AcceptSave` stores SIGNED, `Upload` renders that text and puts
  it in S3, `Record` is the UPDATE of `s3Key` and `pdfUrl`. Whatever fails after
  the save is logged, so `Fails` then ends the request and nothing else.
* **PublicLinks.** `Active` is `classify()`; time moves between any two steps
  and a handler keeps the `now` it started with. "touch" is any other save of
  the document: it writes the token columns as loaded.
* **Tasks.** `SubmitCheck` validates one file, `SubmitCommit` is the transaction
  that consumes the uploads one by one and saves the task, `SubmitConflict` its
  rollback when one was already consumed. `UpdateSave` saves
  the loaded row whatever the table holds by then, as the code does.
* **Assistant.** A handler passes the in-process guard (`Receive`), loads or
  inserts the state row, is muted or not (`Muted`, `Pass`), then either composes
  a reply or falls back; a reply is said (`Say`) and then the row is saved
  (`SaveReply`, with the status the service derives from the fields). A fallback
  no longer holds the guard, because it is returned without `await`
  (chatbot.service.ts:164). `TakeOver` and `ReturnToAi` load and save the row.
* **LeadConversion.** The steps of `convert` (`ConvertFind`, `ConvertUser`,
  `ConvertFindClient`, `ConvertCreate`, `ConvertMark`) and of
  `promoteLeadToClient` beside the assistant of the same conversation.
  `ConvertMark` saves the whole assistant row as loaded at the start.
* **SessionRefresh.** One action per outcome the interceptor tells apart. The
  flags `_retry` and `_timeoutRetry` travel with the config of every resend;
  `outer` says what the interceptor call that awaits a timed-out read's resend
  will still do with a 401.

`MCDocuments` puts the three document modules and `DocumentNumbers` into one run.
They write different columns and tables and never each other's, so each has its
whole history while the others rest in their initial states; the interplay between a link and the
document it belongs to is inside `PublicLinks` ("touch", "answer").

**External parts**, modelled from how the code uses them: TypeORM's
`save(entity)` (the row becomes the entity; a missing row is inserted again),
the database's keys, the pool (first come, first served, no timeout), the Node
process (may stop between any two steps), the product (succeeds, fails, or
times out after succeeding; calls back at any time, more than once), S3 (stores
or fails), the model (any fields, any status word, or no answer), the browser's
cookies (accepted until they expire) and the HTTP server's answers.

Operators whose comment begins with *Slip* (`ConvertFindSent`, `UploadCurrent`,
`ReceiveAnyway`, ...) are plausible programming errors, next to the action they
deviate from. They are used only to confirm that each property notices one: with
the error in place, the property's run finds a violation (`mutants` in
`PROJECT.json`).

### Abstractions

* `save` is one atomic step: the SELECT and UPDATE inside it, and the cascade to
  line items, are not separated. The line items of a quotation are one value,
  the offer they belong to; new items and a new tax rate both make a new offer.
  What the cascade does with the old items update() still holds
  (quotations.service.ts:312) is decided inside TypeORM: the model has that save
  keep the new items (`UpdateSave`) or fail (`Fails`). A save of older items over
  newer ones brings the older back, or fails. Line items of invoices are not
  modelled.
* Ids (uuids), tokens and messages are never handed out twice; when an instance
  has used them up, nothing more is created.
* Dates are abstracted: a sweep finds any set of rows in the statuses it asks for.
* Role and ownership checks, notifications, e-mail and wording are left out:
  they refuse or report, and change no state modelled here.
* Queries fail where a model says so: keys, foreign keys, a taken domain, and
  every step of `Quotations`, `Contracts`, `Tasks`, `Assistant` and
  `LeadConversion` (`Fails`, `Fail`, `ConvertFails`, `PromoteFails`).
* Clients are not deleted (the cascade would delete invoices in any status,
  clients.service.ts:290); the uploads clean-up that would expire records is
  called by nothing in the program.
* The ledger carries no amounts; expenses do. An edited expense leaves its
  ledger amount as it was (expenses.service.ts 281-304), in every execution.
* Seeding at a restart succeeds. `removeBySource` (accounting.service.ts:247)
  has no caller.
* In `SaasProvisioning` a tenant is its status. Plans, metadata, missing tenants
  or products, and `UPDATE_LIMITS` (which nothing queues) are left out.
* A task file is its upload, not the URL it is listed with. `findOne` puts
  presigned URLs that expire into the attachments (tasks.service.ts 150-165) and
  update() and submitClientTask() save them (566-569, 637), in every execution.
* PENDING and IN_PROGRESS tasks are one status, `OPEN`: no handler tells them
  apart.
* Lead data is the number of required fields it has. The rolling summary, the
  escalation flag and who took over travel with the row and decide nothing.
* `SessionRefresh` is one tab; the server's rotation of refresh tokens appears
  as a refresh that is accepted or refused.

## 3. What is checked

| Run | Instance | Shows |
|---|---|---|
| `invoices_races` | 2 invoices, 2 proofs, 1 total, 2 slots | `PaidWasConfirmed`, `ProofsAreConsumed`, `UploadCitedOnce` however activities overlap; every step taken while nothing held is outdated follows `InvoiceLifecycle` (`CurrentFollowsLifecycle`) |
| `income` | 1 invoice, 2 totals, 2 slots, 2 expenses, 2 ledger rows | one entry per invoice, of the invoice's amount, unless a save went by an outdated copy (`OneIncomePerInvoice`, `IncomeMatchesInvoice`); every confirmation gets booked, unless the process stops (`ConfirmationsGetBooked`) |
| `expenses` | 1 invoice, 1 purchase, 2 slots, 2 amounts, 2 accounts, the hooks' code and a purchase's own; one rename at a time, and renames or a stop (`RenameBound`) | `SavedMeansPosted`, `AutoEntriesReadOnly` among hooks, staff, deletions and account changes |
| `ledger` | 2 accounts, 2 codes, 1 document, 2 slots | the ledger implements `LedgerBook` (`PostsOnce`); `HookPostsArrive`; `HalfWrittenHasWriter` |
| `numbers` | 2 series, 2 slots, a pool of 2 | `CreatesFinish` |
| `saas` | 1 tenant, 2 jobs, 1 callback at a time, 2 attempts | `CallsBounded`; `RunningHasWorker`, `JobsSettle` for every job whose own run was not cut short; `StatusWasReported` |
| `documents` | 1 quotation, 2 terms, 2 invoices, 2 contracts (`HollowBound`: not followed past a quotation brought back without line items); 1 contract, 2 texts; 1 linked document, 3 tokens, 3 instants; numbers as in `numbers`; 2 slots | quotations: `DecidedOnSentTerms`, `MadeWasAgreed`, `ConvertedIsWhole`, `InvoicedOnce`, `QuotationLifecycle`; contracts: `DecidedOnSentText`, `StoredCopyWasSigned`, `SignedGetsItsCopy`, `ContractLifecycle`; links: `ClosedStaysClosed`, `OpenStaysOpen`; numbers: `RejectedForOverlap` |
| `tasks` | 2 tasks, 2 uploads, 2 slots | `ListedAreConsumed`, `SubmissionsAreListed`, `SpentWasSubmitted`, `CompletedByDecision` |
| `assistant` | 2 messages, 2 handlers, 1 conversion, 1 promotion, 1 required field | `OneReplyComposed`, `MarkedWasAnswered`, `QualifiedIsComplete`, `PromotedHasRecord` |
| `session` | 3 requests, 2 of them reads | `WaitersHaveARefresh`, `RefreshesBounded`, `EveryRequestEnds` |
| `assistant_takeover`, `saas_archived` | small | the two disagreements of section 5 |

Type invariants are proved where a module has theorems (`TypeCorrect`) and were
model-checked first; the runs leave them out, so that each property of a run is
one that a plausible error breaks.

**Bounds, and why they are enough.** Every hazard here is between two activities
that share a row: two slots let any two handlers overlap at every point, and a
slot is reused, so histories of any length occur in the reachable states. A
second invoice or task lets a file be presented for the wrong one; a second
total, offer or text lets an edit change what was booked, sent or signed; a
second account and code let a rename or a deletion come between resolving and
inserting; two invoices and contracts let one quotation be converted twice; a
third token and a third instant let a link be rotated and expire, and a stale
save bring an older token back. Two expenses and two ledger rows are what two
hooks can make of one invoice. In `numbers`, `Base` = `Wrap` = 3 scales 10 and
10000 down: 3 is the first numeral with one more digit, and `Limit` = 4 lets the
wrap happen; with a pool of 2 and 2 slots the pool can be used up (mysql2's
default is 10 and the configuration sets none, database.config.ts). In `saas`,
two jobs overtake each other, `MaxAttempts` = 2 has a first, a repeated and an
exhausted attempt, and one callback slot already overlaps with the worker and,
one after the other, with itself; the request queued after PROVISION is SUSPEND,
and ARCHIVE in the run `saas_archived`. In `assistant`, two messages are a
current and a next one, and one required field makes a lead incomplete or
complete. In `session`, one request refreshes, one waits, one comes late; two
reads can time out and a write cannot. Deadlock is checked, except in `ledger`
and `expenses` (a restart seeds accounts under new ids), in the two runs of the assistant
(each message is sent once) and in `session` (each request is made once), which
stop when those are used up. The symmetry used permutes ids, slots, offers and
accounts that no definition tells apart, only in runs without liveness
properties.

**Fairness, and what justifies it.**

* `InvoiceIncome`: weak fairness of a slot's own `BookStep`: a promise whose
  await is over is resumed by the event loop. Nothing makes a client send a
  request, so requests have none.
* `DocumentNumbers`: strong fairness of `Number` and of `Insert`/`Reject` for each
  handler: the pool serves who waits in order, so who keeps waiting while
  connections come back gets one. No fairness for new requests or deletions.
* `SaasProvisioning`: weak fairness of the worker: `setInterval` polls again, and
  an HTTP call ends by its timeout. Strong fairness of `Pick` and `Claim`: stops
  and failing queries do not hit every pass before its first claim; nothing is
  assumed of what hits a job after it. The product owes no callback.
* `SessionRefresh`: weak fairness of each request's own `Progress`: an exchange
  ends by the 60 s time limit of the Axios instance (`DEFAULT_TIMEOUT_MS`,
  api.ts:18) and the pause before a resend by its timer. A request in the queue
  has no step of its own: that it is released is what `EveryRequestEnds` shows.
  Cookies need never expire and users need never sign in.

`Restart`, `Crash` and `PassThrows` are never fair. Nothing in the program takes up
half-done work at start-up (section 5), so liveness is claimed only up to a stop,
except `JobsSettle`: queued jobs survive in the table, and it exempts only the
jobs whose own run a stop or an exception cut short.

## 4. What is proved

The theorems hold for all values of the constants, that is for any number of
invoices, uploads, quotations, contracts, tokens, tasks, jobs, messages, requests,
handlers, documents and accounts. Every safety property of a passing run is stated
by one of them. In almost every server module the obstacle is the same: a stale
save can write anything a handler holds, so no claim about a stored row is
inductive alone. Each inductive invariant `IInv` makes the claim of the rows
*held* as well as of those stored, and adds what a handler checked when it
loaded its row.

**`InvoicesProofs`.** `IInv` is the type invariant with

* `RowsGood`, `HeldGood`: each row, in the table or in a task, is *good*: PAID
  only with a confirmation, and its proofs consumed uploads of that invoice;
* `CheckedUpload`: an upload a submission has checked exists and is of its
  invoice (records are never removed and never go back to PENDING:
  `UploadsOnlyGrow`);
* `CitedOnceConsumed`: an upload cited by a committed submission is consumed and
  was counted once.

A save then moves a good row (`SaveKeepsGood`) and all else only adds to
`confirmed` and `uploads` (`QuietKeepsGood`). From `IInv` follow
`PaidOnlyByConfirmation`, `CitedProofsAreConsumed`, `NoUploadIsReused`;
`TypeCorrect` is separate. `CurrentLifecycle` proves the refinement of
`InvoiceLifecycle` for every step taken while nothing held is outdated;
`SerialFollowsLifecycle` proves that with one slot (`Alone`) that is every step.

The second half of the module is about `InvoiceIncome`. `IncomeRunsInvoices`: with
the books beside it, the invoices service still runs as specified, so the theorems
above hold there. `IncomeAgrees` and `InvoicesBookedOnce` come from `Clean`, which
holds until `lost`: a PAID invoice is not payable again and keeps its total
(`StaysPaid`, `PaidStays`), so at most one hook was ever started for it, with that
total (`HooksAgree`), and an entry made for it carries it (`EntriesAgree`).

**`LedgerProofs`.** `TypeCorrect`; `OneRowPerDocument`, the refinement of
`LedgerBook` (with `RowIds`: a row's id is used, so that an insert or the second
save of a manual entry never lands on a document's row); `NoHookPostDropped`:
while no system account was renamed, every hook code has a system account
(`HooksServed`), codes are unique, and an account a call resolved for a hook is
still there when it inserts (`HeldServed`), so `record()` finds and keeps its
account; `HalfWrittenIsTended`: each row with a blank id has its own call at the
second save.

**`ExpensesProofs`.** Posting is not awaited, so the invariant follows each
`record()` call between its steps and each account among its changes. `Charted` is
what `LedgerProofs` needs too: an account id is given once and a rename keeps what
it loaded (`AccountIds`), codes are unique, and until a system account was renamed
every hook code has one and a call about to insert under it holds one
(`HooksServed`, `HeldServed`). `Tracked` follows the postings: a call is for a saved
entry and under a code of its own only if that entry is a purchase's
(`CallsOwned`), a posting given up has such a code or `renamed` to blame
(`DropsExcused`), and every saved entry is posted, on its way or given up (`Kept`).
Hence `SavedIsPosted`: an invoice's or a manual entry is lost only to a stop or a
renamed system account, a purchase also to a code no account has. `AutoEntriesStay`
needs that an edit holds a manual entry whose row is still manual when it is saved
(`EditsManual`) and that a save uses a new id (`OnlySpent`). `ExpensesUseLedger`:
every step is a step of `Ledger` or leaves its state alone.

**`DocumentsProofs`.** Four modules in one, because `MCDocuments` runs them
together.

* *Quotations.* `Decided` ties a row's terms to what was sent and accepted, and
  outside `mishap` its line items to its terms (`KeepsOffer`: a save that is not
  over a newer row leaves them so, whether it loaded them or not), `Whole`
  a converted row to the two documents it names, `Checked` is the status each
  handler saw, `MadeSoFar` the order in which a conversion makes things. Histories
  and made documents only grow (`Grows`), so what was good stays good (`GrowsRow`,
  `GrowsTask`); each save stores a good row (`SavesStep`, `MakeStep`). This gives
  `ClientsDecideOnSentTerms`, `ConversionsWereAgreed`, `ConvertedMeansWhole`.
  `QuotationsInvoicedOnce` needs one more invariant (`Once`): outside `mishap`, what
  a quotation has been invoiced is either held by its only conversion, or the
  quotation is past every status it could be converted from.
  `QuotationsFollowLifecycle` maps each step to a move of `StatusLifecycle` or a
  stutter, as long as nothing held is outdated.
* *Contracts* (`Paper...`). A row that can be or was decided on has a text that was
  sent, S3 holds only signed texts, and a request past its save holds a text that
  was signed. From these, sent text, copies and lifecycle; `PaperSigningLeadsToCopy`
  adds that a signed contract outside `mishap` has its copy or a request on its way
  to it.
* *Links* (`Link...`). Every token in a row or in memory was minted, and no
  handler's `now` is in the future; each save stores the link as loaded, revoked,
  dated anew or with a token nobody has seen, and time opens nothing.
* *Numbers.* The numbers of a series are bounded (`SeriesBounded`; by some number,
  not by `Limit`), so MAX finds one although it compares strings
  (`MaximumExists`), and one more than that is free unless it has one digit more
  (`NextIsFree`). It stays free while nobody else stores a document of the series
  (`ReadIsFree`), deletions included. `TypeOK` of this module, which contains the
  bound `Limit` of an instance, is not proved.
* *Together.* `EachRunsAlone`: a step of one module is a stuttering step of the
  others, so the theorems about each carry over to `DocumentsSpec`.

**`SaasProofs`.** Worker and callbacks save job and tenant entities they loaded
earlier. What makes that bearable: a job never changes its tenant or action
(`JobsKept`), so a held job entity is still of its job; only the worker makes a
settled or running job QUEUED again, and it does so with the attempts it counted
itself. Hence a QUEUED row has counted its calls and has one left
(`AttemptsCount`), and the row the worker holds has counted the call it is about to
make (`WorkerHolds`): `CallsStayBounded`. `RunningIsWorkedOn` follows from the same
invariant: a run that ends without storing its outcome puts its job in `cut`; `StatusesWereReported` from `Earned`, which claims of every status held
in memory what the property claims of the stored one.

**`TasksProofs`.** As for invoices: each file list, stored or held, has only files
spent for its task (`RowsGood`, `RequestsGood`), and what is spent stays so
(`Grows`). `ListedFilesAreConsumed`, `SubmissionsStayListed`, `OnlySubmissionsSpend`
and the action property `CompletedStaysCompleted`.

**`LeadConversionProofs`.** `Good` (of the stored row and of every copy: its
marker was answered, QUALIFIED comes with all fields) and `Ordered` (a handler
at its saves has said its reply) for the chat; for the sale, what a conversion
or promotion has done by the step it is at. Five theorems, among them
`OneAtATime` (the guard is up exactly while one handler that has not fallen back
is at work) and `ClientsHaveRecords`; `ConversionsHaveClients` is about
`MarkedHasClient`, which no run checks on its own.

**`SessionRefreshProofs`.** `Budget`: the refreshes a request has started are at
most what its flags say were spent. Safety only: `EveryRequestEnds` is TLC's.

Assumptions: `NoneAssumption` (Invoices), `IncomeAssumption`, `LedgerAssumption`,
`ExpensesAssumption`, `QuotationsAssumption`, `DocumentsAssumption` (which joins
`ContractsAssumption`, `LinksAssumption` and `NumbersAssumption`),
`SaasAssumption`, `TasksAssumption`, `AssistantAssumption` and `ReadAssumption`: the
null value and the blank id are none of the others, hook codes are codes, keyed
documents are documents, bounds and the horizon are numbers, at least one attempt
is allowed, reads are requests. TLC evaluates them on the passing runs.

**Only model-checked**: all liveness (`ConfirmationsGetBooked`, `CreatesFinish`,
`JobsSettle`, `EveryRequestEnds`), which with fairness and ENABLED is outside the
prover's reach, and that the two disagreements of section 5 occur.

## 5. What the work brought to light

Disagreements between the code and what it says of itself, each with a run whose
counterexample shows it:

1. **A takeover is undone by the reply in progress** (`assistant_takeover`). The
   assistant saves the whole state row it loaded before the model call
   (chatbot.service.ts:197); a takeover saved meanwhile is overwritten with
   control mode AI, against "mute the bot immediately" (ai-state.service.ts:64)
   and "the bot stops immediately" (ai.controller.ts:102).
2. **ARCHIVED is not terminal** (`saas_archived`). Answers and callbacks are
   applied without asking the state machine (tenants.service.ts:286), against
   tenant-lifecycle.ts:24.

Disagreements that passing properties state as their exceptions, so that what
does hold is checked along with them:

* Submitting a proof saves the whole invoice as loaded (invoices.service.ts:833)
  and so undoes a confirmation or sweep in between, against "Does NOT
  auto-change paymentStatus" (line 717): hence `Current` in
  `CurrentFollowsLifecycle`.
* Two overlapping confirmations make two income entries, check then save without
  a unique key (expenses.service.ts:243), against "Idempotent", line 239: hence
  `lost` in `OneIncomePerInvoice`.
* A stop between the two saves of a manual entry leaves a blank `sourceId`
  (accounting.service.ts:310), and the unique index then refuses every further
  manual entry, against ledger-entry.entity.ts:75: hence `crashed` in
  `HalfWrittenHasWriter`.
* The advisory lock of the comment at invoices.service.ts:127 does not exist;
  only the unique index keeps numbers apart, by failing a request
  (`RejectedForOverlap`). invoices.service.ts:83 and invoice.entity.ts:33 speak
  of SELECT ... FOR UPDATE; the code has none.
* The comment of quotations' `remove` (quotations.service.ts:320) says DRAFT
  only; the code refuses only CONVERTED, and `Documented` follows the code.
* An accepted quotation can state a total that is not that of its line items: an
  edit saved over a sent row by a request that loaded it as a draft, and then an
  answer by the link, which writes the old status and total back and leaves the
  new items (quotations.service.ts:366, 388). The invoice is then made of items
  the client never saw, against "Only DRAFT quotations can be edited" (line 267):
  hence `mishap` beside the line items in `DecidedOnSentTerms`, `MadeWasAgreed`
  and `ConvertedIsWhole`, whose terms hold even so.
* A paid purchase "falls back to Other Expense" (expenses.service.ts:141) only if
  it has no account code. The DTO takes any string of up to 20 characters
  (create-purchase.dto.ts:39-42); an unknown or empty one makes `record()` warn and
  give up (accounting.service.ts:199-215), and the payment is never in the ledger:
  hence `Excused` in `SavedMeansPosted`.
* A product's provisioner is any string (product.dto.ts:31-34, 66-69), though the
  worker's comment has a job resolved "via the registry"; an unregistered key
  throws outside the `try`, the job stays RUNNING, and so does any job whose query
  or save fails there. tick() finds QUEUED jobs only: hence `cut` in
  `RunningHasWorker` and `JobsSettle`. A save that fails after the product's
  answer also leaves what the product did without its outcome.
* A save of an older copy may decide a quotation twice, lose a contract's stored
  copy, reopen a revoked link ("stops working immediately") or lose submitted
  files ("Merge onto any previously-submitted files"): hence `mishap` and
  `Stale`.

Seen in the models as well:

* `convert()` that fails after making the invoice leaves an invoice nobody
  names; the next attempt makes another one (`mishap` in `InvoicedOnce`).
* A conversion or promotion that fails after promoting the user leaves a CLIENT
  without a client record (`broken` in `PromotedHasRecord`); a conversion marks
  its lead by saving the whole assistant row as loaded at its start
  (lead-conversion.service.ts), over whatever the assistant has learnt since.
* The in-process guard does not cover a fallback in progress
  (chatbot.service.ts:164 returns its promise without `await`, so the `finally`
  of the guard of line 134 runs first); hence "that have not fallen back" in
  `OneReplyComposed`.
* Transactions that hold a connection and ask for another can use up the pool
  and wait for each other for good (`PoolHeld`).
* The first number with five digits is never seen by MAX: the creation after it
  is refused, and so is every later one of that year. The highest number is
  issued again after its document is deleted.
* A stop between saving PAID or an expense and posting it loses the posting; a
  hook that fails on a deleted invoice ends the process. `crashed` in the
  properties stands for both.
* A stop, or an exception outside the call's `try`, while a job is RUNNING leaves
  it so, and its tenant PROVISIONING; no request can queue another PROVISION for a
  tenant in that status, REACTIVATE can.
* A taken domain leaves a PENDING tenant without a job (`DomainTaken`).
* Any account can be renamed, system ones too, which drops later postings to
  them (`renamed` in `HookPostsArrive` and `SavedMeansPosted`; accounting.seeder.ts:12-19 says that
  they must not be).

## 6. Plan

Done, in this order: `InvoiceLifecycle`, `Invoices`; `LedgerBook`, `Ledger`;
`Expenses`; `InvoiceIncome`; `DocumentNumbers`; `SaasProvisioning`;
`StatusLifecycle`, `Quotations`, `Contracts`, `PublicLinks`; `Tasks`;
`Assistant`, `LeadConversion`; `SessionRefresh`; with the proofs of section 4.
Money came first, then numbers and tenants, then what clients decide on, then
the conversation that makes them clients.

Left:

1. Theorems: that the ledger theorems hold beside the expenses service and the
   invoices (`ExpensesUseLedger` carried on to `InvoiceIncome`); `TypeOK` of
   `DocumentNumbers`, which needs counting of creations.
2. The life of a purchase, which repeats that of an invoice without proofs and
   links; support tickets; chat rooms with their read marks.
3. Removal of clients with its cascades (clients.service.ts:290) over invoices,
   quotations and contracts, and role changes by administrators.

### Not modelled

The frontend pages, about half of the program's lines, render and edit what the
server keeps; the one piece of logic there with a history of its own,
the request interceptor, is `SessionRefresh`. Reports and dashboards only read.
Suppliers, testimonials, content and settings are single rows edited in place,
with no step that depends on another. E-mail and notifications are output that
nothing reads back. Authentication is credential checks and token signing by
libraries. Storage is external and appears as calls that may fail.
