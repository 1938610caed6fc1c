# TLA+ models of the finance services

This directory models the microservices of the finance tool (`services/`) and
the core of the single-process application they came from (`src/`) in TLA+. The
modules are checked with TLC on small instances, and the theorems in the
`*_proofs` modules are checked with TLAPS for every value of the constants. The
source is the reference; where a document of the repository says something
else, a run shows the difference (see *Findings*).

## The system

| component | state | operations | talks to |
|---|---|---|---|
| operations: outbox (`events/cross-service-event.publisher.ts`) | table `ops_event_outbox`, the flag `isFlushing` | `publish`, `flushOutbox` (timer and `publish`) | topic `operations.events` |
| operations: bills (`bill.service.ts`, `fatura-hyrese.aggregate.ts`, `bill.repository.ts`) | aggregates cached in memory, table of bills | create, post, pay, reverse, saga replies, lists | outbox, inventory, compliance client |
| operations: saga consumer (`kafka-ledger-saga.consumer.ts`) | offset of its consumer group | `eachMessage`, `handleReply` | reads `ledger.events`, calls bills and invoices |
| operations: invoices (`invoice.service.ts`) | map and table of invoices | create, send, pay, reverse, saga replies | outbox, EDI inbox, inventory, IAM |
| operations: inventory (`inventory.service.ts`) | items, movements, table of movements | record, reverse | outbox, compliance client |
| operations: EDI inbox (`edi-inbox.service.ts`) | map and table of items | create, list, import to a bill | bills |
| operations: compliance client (`compliance.client.ts`) | cached bundle and its version | poll, validate, with a local fallback | compliance |
| ledger (`ledger.service.ts`, `kafka-operations.consumer.ts`) | journal in memory and in its table, table `ledger_ingested_events`, offset | one handler per event type; trial balance, summary, profit and loss, balance sheet | reads `operations.events`, writes `ledger.events` |
| AI (`ai.service.ts`, `rag/`) | running totals, table of events, vector store | ingest, seed the corpus, query | reads `ledger.events`, fetches the bundle |
| compliance (`compliance.service.ts`, `tax-taxonomy.ts`) | rules in memory, version of the bundle | refresh, validate | called over HTTP |
| IAM (`auth.service.ts`, two repositories) | maps and tables of tenants and users, pending codes | register, verify, log in, reset, users, profiles | called over HTTP |
| monolith (`src/src`) | bills, journal, AI snapshot and tax rules in one process | the same domain with an event bus, with or without Pub/Sub | |
| gateway, frontend, manifests | | routing, pages, configuration | |

The services share nothing but two Kafka topics and HTTP calls. What is hard
about them is all in the gaps between awaits: a command changes an aggregate,
saves it, and stores an event, in three steps; a dispatcher sends an event and
then records that it did; the ledger records a marker, then changes the
journal, then saves it, then replies; a list reads rows and, one await later,
replaces the objects that a command still holds. Every process may stop between
any two of these steps, messages are repeated and overtake each other, replicas
share tables without locks (`k8s/deployments.yaml` runs two of each service),
and most database errors are caught and logged.

What makes the components correct, with the property that states it:

- *outbox*: a row is PUBLISHED only after its event was sent
  (`PublishedWasDelivered`); every row is sent in the end
  (`EventuallyPublished`); the flag keeps flushes of one process apart and is
  never lost (`FlagIsHeld`); without faults the order is kept
  (`InOrderWithoutFaults`).
- *ledger*: one entry of each kind per document (`AtMostOnce`), one answer per
  reversal (`OneAnswer`), no reversal without its STORNO
  (`NoDanglingReversal`), no answer that the accounts do not bear out
  (`AnswerIsInTheBooks`), an effect for every message (`ReadIsApplied`), and
  reports that follow from each other (`ReportsAgree`).
- *the saga*: a bill is posted once (`PostedOnce`) and booked once
  (`BooksPostOnce`), is REVERTED only if the books show the STORNO
  (`RevertedHasStorno`), is never both paid and reversed (`NotPaidAndReversed`);
  the books decide a reversal and the bill follows them (`ImplementsReversal`);
  in the end both agree (`BooksAgree`) and nothing waits (`NoBillWaits`,
  `ReversalSettles`). `BooksPostOnce` and `RevertedHasStorno` hold whatever the
  cache of bills does; the others for bills that no list or lookup replaces in
  the map by an object of another status. Where one does, they fail in the code.
- *invoices*: past DRAFT only if the receiver has it and its stock was issued
  (`SentWasShipped`); the status follows its life (`Lifecycle`); an answered
  reversal is settled (`AnsweredIsSettled`), and a reversed invoice is not paid
  as well (`ReversalExcludes`).
- *inventory*: stock is never negative (`StockIsCovered`); quantity times
  average cost is what the movements debit and credit in the ledger
  (`ValueIsBalance`); a restart finds the stock there was (`RestartRestores`).
- *EDI and bills*: nothing is imported or received into stock without its bill
  (`NothingWithoutBill`), an item becomes one bill (`OneBillPerItem`); the event
  of a bill is published once however many posts overlap that find it in the map
  (`PublishedOnce`).
- *compliance*: what was accepted is not refused later, by the service or by the
  client's fallback (`AcceptedStaysAccepted`).
- *IAM*: a stored user has a stored company (`UserHasTenant`), a code makes one
  company (`OneTenantPerCode`), a registration leaves nothing half done
  (`RegistrationIsWhole`) but for an admin with a blank name, and the caches say
  what the tables say (`CacheIsRow`).
- *AI*: totals count what was delivered (`TotalIsDelivered`), the corpus is
  seeded once (`CorpusIsOnce`) and completely (`CorpusIsWhole`), and an answer
  is made from the asking tenant's entries only (`AnswerIsOwn`).
- *monolith*: stornos and originals pair up (`StornoOfOne`), the AI snapshot is
  the journal (`SnapshotIsJournal`), bills and journal agree (`BooksAgree`).

`PROJECT.json` lists the hazards behind these, each at its line, and what a
property leaves out of a hazard.

## Modules

| module | models | state | actions |
|---|---|---|---|
| `Outbox` | `cross-service-event.publisher.ts` with several callers and processes | the columns `status`, `createdAt`, `nextAttemptAt` (the set `due`), `isFlushing` per process, the local state of each `flushOutbox`, the topic | `Save` is `publish`; `StartFlush`, `Deliver`, `MarkPublished`, `MarkFailed` are the awaits of `flushOutbox`; `DeliverError`, `MarkPublishedError`, `MarkFailedError` the ways they throw; `BackoffElapses`; `Crash` |
| `Ledger` | the consumer of `operations.events` and the handlers of `ledger.service.ts` | topic and offsets, marker table, journal in memory and in the table, where the current handler is, `ledger.events` | `SkipDuplicate`, `Ingest`, `IngestError` are `shouldProcess`; `PostEntry`, `PostStorno`, `RefuseStorno`, `IgnoreInvoiceSent` the handlers up to their first await; `Persist`, `UpdateOriginal`, `Notify`, `Reply` the awaits, each with its error; `Commit`, `Rebalance`, `Crash` |
| `Reports` | the account lines of the handlers and the four reports, as operators on the journal of `Ledger`; rows of an earlier chart of accounts; dates as the code compares them | that of `Ledger`, and which entries were there when the service started (`loaded`) | those of `Ledger`, from a journal that has old rows (`ReportsInit`); a restart reads the dates back without their time (`ReportsNext`) |
| `BillService` | the bill aggregate, the repository with its map, the commands, lists and saga replies in one process; used by `StornoSaga` | status of the object in the map (or NONE) and in the table, what is left of the commands in flight, lists with the rows they have read, events stored, offset of the saga consumer; *history*: bills that were `replaced` | `FindBill`, `ReadBill`, `BillFound` are `findById` when the map does not have the bill; `StartPost`, `Post`, `RefusePost` a post around its validation; `Accept` is a payment or reversal of a bill in the map up to its save; `SaveBill`, `Publish` and their errors; `ListBills`, `FillBills` the two halves of a list; `HandleReply`, `SkipReply`, `CommitReply`, `RebalanceReplies`; `CrashBills`, which leaves the map empty |
| `StornoSaga` | `BillService`, `Outbox` and `Ledger` joined by the two topics | all of the above | one action per action of a component (`Begin` and `LookUp` gather the starts and the queries of commands); `Publish` joins `BillService!Publish` and `Outbox!Save`, `CrashOperations` stops commands, dispatcher and saga consumer together |
| `Reversal` | the abstract specification of the saga | statuses, the set of reversed bills | `PostBill`, `PayBill`, `RequestReversal`, `BookStorno`, `ConfirmReversal`, `CancelReversal` |
| `InvoiceService` | `invoice.service.ts` with several processes, and the saga consumer | the status in the map of each process and in the table, how far its `onModuleInit` is (`loading`), the requests in flight and what they have delivered, issued and published, the replies, the reader and its offsets; *history*: invoices whose reply was read before a map was filled (`missed`) | `CreateDraft`, `Send`, `Pay`, `Reverse` are the commands up to their first await; `Deliver`, `Issue`, `SetSent` the awaits of `send`, `Refuse` its refusals; `Save`, `Publish`, `Fail`; `HandleReply`, `SkipReply`, `SaveReply`, `SaveReplyError`, `CommitReply`, `Rebalance`; `Crash` leaves a map empty, `ReadRows` and `FillItems` fill it while the consumer reads |
| `Inventory` | `inventory.service.ts` in one process | quantity and average cost of an item, the map of movements and their table, the requests in flight, the stored events | `Record` and `ReverseMovement` up to the answer of compliance; `RefuseMovement`; `Apply` is `recordMovement` up to its save; `SaveMovement`, `PublishMovement`, `SaveMark`, `FailMovement`; `RestartStock` is `onModuleInit` |
| `Fraction` | exact fractions, for costs | | |
| `Compliance` | the rules of `compliance.service.ts` and `tax-taxonomy.ts`, and the fallback of the client, as operators | | |
| `Purchasing` | how documents become posted bills: EDI inbox, `createBill`, `postBill`, the bill repository with its cache, the compliance client | the deployment and version of the rules, the client's bundle and its polls, objects and rows of items and bills, the requests with the objects they hold | `CreateInboxItem`, `ImportToBill`, `CreateBill`, `PostBill`, `FindBill`, `ListBills`, `ListForTenant` begin requests; `ReadBill`, `BillFound`, `Validate`, `Check`, `SaveItem`, `SaveBill`, `Receive`, `UpdateItem`, `WriteBill`, `Publish`, `FillBills`, `FillInbox` are their awaits; `Poll`, `RefreshBundle` the client's timer; `RefreshCache`, `Deploy`, `Outage` the compliance service; `Fail`, `Restart` |
| `Iam` | `auth.service.ts` and its repositories in several processes | the two maps of each process, the two tables, mailed codes, requests | `RequestRegistrationCode`, `VerifyRegistrationCode`, `Login`, `RequestPasswordResetCode`, `VerifyPasswordResetCode`, `CreateUser`, `ChangePassword`, `UpdateMyProfile`, `UpdateBusinessProfile`, `ListUsers`, `ListTenants`, `FindUser`, `FindTenant` up to their first await (the last two are the lookups of a login or a read whose object is not in the map); `CheckSlug`, `CheckEmail`, `InsertTenant` (after which `User.create` may throw), `InsertUser`, `CheckProfile`, `WriteUser`, `SetNui`, `CountTenant`, `WriteTenant`, `FillUsers`, `FillTenants` the awaits; `SaveFails`, `Restart` |
| `AiService` | `ai.service.ts`, the consumer, the seeder of the corpus and the search, in several pods, with the ledger that notifies them | the topic and its reader, totals of each pod, rows, chunks and the corpus in the vector store, hooks, seedings and questions | `StartPod`, `Migrate`, `ReadRows`, `Rehydrate`, `Listen`, `Join` the start; `NotifyAi`, `DropPost`, `PublishSagaReply` the ledger; `EachMessage`, `ReceiveEvent`, `SaveRow`, `IndexJournalChunk`, `CommitOffset` an event; `Seed`, `CountSource`, `FindKey`, `UpsertKey` the seeder; `Ask`, `Search`, `Generate` a question; `ChangeBundle`, `Crash` |
| `Monolith` | bills, event bus, ledger integration, AI snapshot and tax rules of `src/src` | objects and rows of bills, the journal, the snapshot, the events on the bus, the rules and whether their hooks have run | `CreateBill`, `FindById`, `ListBills` begin requests; `ReadRows`, `ToDomain`, `Act`, `WriteRow`, `Publish` are their steps; `Answered` is Pub/Sub; `RegisterSubscriber`, `RefreshCache` the rules; `SaveFails`, `Restart` |
| `MC*` | instances of the modules for TLC | | |
| `*_proofs` | theorems about `Ledger` with `Reports`, `Outbox`, `StornoSaga`, `InvoiceService` with `Inventory`, `Iam`, `AiService`, `Monolith`, and `Purchasing` with `Compliance` | | |

`StornoSaga` instantiates the component modules. `BillService` has its actions
but no next-state relation: it runs within `StornoSaga` only. `Ledger` and
`Outbox` run alone too, with an environment in place of the others: `Ledger`
reads an arbitrary topic. `InvoiceService` gets arbitrary answers to published
requests, each invoice at most one, which is what `Ledger!OneAnswer` gives. In
it a movement and an EDI item count once the call that makes them has
returned; `Inventory` and `Purchasing` have the steps inside those calls.
`Purchasing` and `BillService` both have `bill.repository.ts` with its cache,
`Purchasing` for how a bill is made, received and posted, `BillService` for
what happens to it from there, in another vocabulary: a bill in `Purchasing` is
a request's document, in `BillService` a status.

### Abstractions

An event is a record of type, document and a `copy` that tells repeated
commands apart: the whole record stands for the `eventId`, type and document
for the `idempotencyKey` (`enrich` builds it of type, tenant and document). An
entry keeps what the handlers look at: document, document or payment
(`Bill-<id>` or `Bill-<id>-PAYMENT`), kind, `reversedBy`; `Reports` adds
amount, account lines and date as functions of the document. The tenant is part
of every key and no operation relates two, except in `Iam` and `AiService`,
which have tenants. Time is the set of rows whose `nextAttemptAt` has passed;
the age of a mailed code is left out. A Kafka topic is one partition, a log
that is never truncated, and a consumer has an offset that is committed some
time after a message is done: a restart or a rebalance goes back to the
committed one. A database error is one step that leaves things as the `catch`
in the code does.

An object that a process caches is its value in a map; a request that holds an
object which a list or a lookup has since replaced holds a copy of its own
(`Detach` in `Purchasing` and `Iam`, `Detached` and the field `held` in
`BillService`), since what it changes is not seen through the map any more. Two
requests that hold the same replaced object still share it.

The date of an entry is its month and day, and whether it has a time: the code
compares dates as texts, and `2025-03-31T10:00:00.000Z` is after `2025-03-31`.
An entry has the time it was made until a restart reads it back from its column,
which keeps the day only.

Costs in `Inventory` are exact fractions where the code has floating point
numbers: `ValueIsBalance` is the identity behind the moving average and says
nothing of rounding in the sums. The table keeps a fixed number of decimals and
`Round` models that. A fraction is kept with its least denominator. `createdAt`
is the order in which movements are entered; rows are in the order in which they
are first saved, since the database sets the column. Amounts in `Reports` are
whole cents.

A document for `Compliance` has one line, a tax category, an account of the
real chart, a kind of text, and a set of other flaws; what a violation says is
left out. In `AiService` a total is kept as how often each entry was added,
which is more than the sum the code keeps, and texts and embeddings are keys: a
search may return any chunks the tenant may see. Framework: the `onModuleInit`
hooks of one Nest module run side by side, and HTTP is served when all hooks
have ended.

Each mutant in the modules (comment *Mutant*) is a variant of the definition
that follows it with a plausible bug; no specification uses it. Variables
commented *history* serve properties only.

## Runs

| run | instance | shows |
|---|---|---|
| `outbox` (`MCOutbox`) | 2 events, two processes with their timers and a request of one, batches of 2, 2 faults, fairness | `PublishedWasDelivered`, `FlagIsHeld`, `InOrderWithoutFaults`, `EventuallyPublished` |
| `ledger` (`MCReports`) | an invoice, an issue, a bill of the old chart; topics of up to 3, a restart or rebalance, one error, one event sent again | `TypeOK`, `AtMostOnce`, `OneAnswer`, `NoDanglingReversal`, `ReadIsApplied`, `ReportsAgree`, `AnswerIsInTheBooks` |
| `saga` (`MCStornoSaga`) | a bill, up to three commands and restarts, a list, one or two disturbances | `PostedOnce`, `RevertedHasStorno`, `NotPaidAndReversed`, `ImplementsReversal` |
| `saga_delivery` (`StornoSaga`) | a bill, one command of each type, one failed delivery, one list, fairness | `BooksAgree`, `NoBillWaits`, `ReversalSettles` |
| `invoices` (`MCInvoiceService`) | an invoice with two lines, one process, five requests of which two may send, two restarts or rebalances with hooks side by side, one failure | `SentWasShipped`, `ReversalExcludes`, `AnsweredIsSettled`, `Lifecycle` |
| `inventory` (`MCInventory`) | three requests, quantities and costs 1 and 2, a restart, a failure | `StockIsCovered`, `ValueIsBalance`, `RestartRestores` |
| `iam` (`MCIam`) | two processes, two requests, a failed save, a restart; four scenes | `UserHasTenant`, `OneTenantPerCode`, `RegistrationIsWhole`, `CacheIsRow` |
| `purchasing` (`MCPurchasing`) | an EDI item, eight documents, two laws, up to four requests, a restart, a failed save, an outage; five scenes | `NothingWithoutBill`, `OneBillPerItem`, `PublishedOnce`, `AcceptedStaysAccepted` |
| `ai` (`MCAiService`) | two pods, three entries of two tenants, two bundles, a crash, a failure, a lost acknowledgement; four scenes | `TotalIsDelivered`, `CorpusIsOnce`, `CorpusIsWhole`, `AnswerIsOwn` |
| `monolith` (`MCMonolith`) | one or two bills, up to five requests, with and without Pub/Sub, a failed save, a restart, a refresh; four scenes | `StornoOfOne`, `SnapshotIsJournal`, `BooksAgree` |
| `ledger_crash` (`Ledger`), `saga_second_reversal` (`StornoSaga`) | | violations, see *Findings* |

A *scene* is what is looked at together in one behaviour: operations, faults and
processes. `Init` chooses one and it never changes, so that a run is a union of
smaller ones; the scenes are the sets of operations that touch the same objects.

### Why the bounds are enough

*Outbox.* Two rows in one batch of each process, and a request next to a timer,
give every overlap of two dispatchers and of two calls in one process; two
faults let a send and the update in its `catch` both fail, which is the only
way out of the loop through `finally`.

*Ledger.* Topics of three hold a posting, a payment and a reversal, or two of
them and a duplicate of one, in any order, and restarts read them again
(`OneCopy`: at most one event is sent again with another id, as the same event
is delivered again by the restarts). Documents do not touch each other's
entries, so one of each kind shows what can happen to it; the old bill has codes
that the reports translate; the dates lie on both sides of the ends of the
quarters, on last days with a time (entries made since the start) and without
(those read back by a restart). `IgnoreInvoiceSent` has no counterpart for
bills, and a movement only has the posting.

*Saga.* `FewCommands` allows three commands and restarts of operations together,
two of them in flight at once, and one disturbance: a restart of either service,
a rebalance, a failed write, a refused delivery, or a list; two of them where
there are two commands and operations neither restarts nor lists. Three commands
are post, pay and reverse; a command and its repetition; or two posts that look
the bill up after a restart, each with an object of its own. One list can put an
older status in place of any newer one, which is all that the cache does wrong,
and `replaced` makes the properties leave it out from there on. `MaxTopic`
plays no role (the topic is written by the dispatcher). In `saga_delivery` the
list and the refused delivery may both happen.

*Invoices.* Five requests hold the whole life of an invoice: create, send, pay,
reverse, and one more that races any of these, a second send included. Two
restarts or rebalances read a reply again, and read one while the map is empty.
Invoices do not look at each other, nor do inventory items, so one of each is
enough. `SentWasShipped`, `ReversalExcludes` and `Lifecycle` are checked with
one process and proved for any number; `AnsweredIsSettled` holds, and is proved,
for one process only: a replica knows only the invoices it created or found when
it started, and skips a reply about any other.

*Inventory.* A receipt and two issues overlap, as do two receipts of different
cost and a reversal, which gives a moving average that differs from both costs;
with costs in tenths (`Scale` 10) a fraction is rounded just as it is with the
10000 of the column, such as 5/3, what an issue costs after receipts at 1 and 2.

*IAM.* Two requests, each at any of its awaits, and any number of logins, codes
and reads of what is in the map next to them; a login or a read that must query
the table, and a list, are requests themselves: what two requests can do to one
object or one unique column. `MaxAttempts` is 1 where the code allows 5 guesses:
nothing but the number depends on it. Company, password and number changes are
scenes of their own as they change different columns; in another one a user that
is being created logs in and changes.

*Purchasing.* Three posts, of a bill in the map or by a query, and a list, a
delivery, two imports and a list, or an import and posts of its bill, on one
object; a law that drops a category and adds one is every difference that a
document with one category can see, and the eight documents are a right one and
one for each way the service and the client differ.

*AI.* One pod shows what memory, rows and offset do over a crash, two pods how
the messages of one partition move between them, two entries that one reverses
the other; a bundle of which one text is replaced has as many texts as before,
which is what the seeder compares. Two bundles and two seedings, one of which
may fail, give a repeated and a half-done seeding.

*Monolith.* Five requests are create, post, reverse and two that overlap these.

Requests are interchangeable in `InvoiceService`, `Inventory`, `Iam` and
`Purchasing`, and these runs have no liveness property, so symmetry over them
is sound (their one action property, `Lifecycle`, does not speak of single
requests). The runs say `CHECK_DEADLOCK FALSE` since the system does stop: users
need not ask for anything, and every counter of commands and faults is bounded.

### What the properties leave out

Some properties speak only of behaviours in which something does not happen,
because the code does not keep them otherwise; each is written in the property
and in its hazard:

- `NoDanglingReversal`, `AnswerIsInTheBooks`: the ledger has swallowed no
  database error. With one, `persist` leaves an entry out of the table and the
  update of the original goes through (`ledger.service.ts:481`).
- `ReadIsApplied` says what the consumer does without restarts; that it does not
  survive one is finding 1.
- `ReportsAgree`: the balance sheet shows 0 where a class of accounts is
  negative, for instance when an invoice was paid and reversed. And an entry
  made on the last day of a quarter since the service started is after the end
  of its quarter and before the next one (`ledger.service.ts:234`): no profit
  and loss shows it, and the property counts these entries apart (`Between`). No
  other entry is left out or counted twice, and none after a restart.
- `NotPaidAndReversed`, `ImplementsReversal`: operations does not restart. Two
  commands on one bill save concurrently, a late save may put POSTED over PAID,
  and a process that restarts believes the table.
- these two, `PostedOnce`, `BooksAgree`, `NoBillWaits` and `ReversalSettles`: no
  list or lookup puts an object of another status in place of the one in the
  map, or replaces one that a post holds (`replaced`;
  `bill.repository.ts:41-52`). A list that overlaps a post makes a second DRAFT
  object, and `billPosted` goes out twice; one that overlaps a payment brings
  POSTED back, so that the bill can be reversed too; one that overlaps the save
  of a reply brings REVERSING back for ever. So do two lookups of one bill after
  a restart. Only the bills it happens to are left out. `RevertedHasStorno` and
  `BooksPostOnce` leave out none.
- `NoBillWaits`: no second reversal is requested, see finding 2.
- `OneBillPerItem`: two imports, or an import and a list of the inbox, do not
  overlap, and nothing fails or restarts.
- `PublishedOnce`: a post overlaps neither a list of bills, nor a post that
  looks the bill up (as each does until one is done, after a restart: each has
  an object of its own), nor the request that creates its bill, which puts the
  bill into the map before its save is answered.
- `AcceptedStaysAccepted`: the client has the categories of the law in force. A
  compliance service that was deployed again starts at version 1, and a client
  that has seen that version keeps the categories it has.
- `RegistrationIsWhole`, `CacheIsRow`: saves do not fail. A save puts its object
  into the map before the database answers, and it stays there, so that a user
  that was never stored can log in, and a company that was never stored can be
  found by its number. Nor do two requests about the same thing overlap, which
  are also a user that logs in before its row is there and the change it makes,
  and a list or a lookup (a login or a read after a restart) that awaits its
  query during a change: it puts the old object back into the map.
- `RegistrationIsWhole`: the admin's name is not blank. The company is stored at
  `auth.service.ts:139`, and `User.create` at line 141 throws for such a name,
  which passes the validation of the request.
- `AnsweredIsSettled`: an invoice is sent once, has one reversal, no save fails,
  and its reply was not read by a process that had not filled its map (`missed`;
  `invoice.service.ts:41-53` runs beside the hook of the consumer).
- `Lifecycle` excludes the steps in which a process stops or fills its map.
- `TotalIsDelivered`: an event that arrives while the rows are being read may be
  added from memory and again from its row.
- `CorpusIsOnce`: two pods do not seed at once, which they may (see *Findings*).
  `CorpusIsWhole`: the bundle does not change; a bundle with one text replaced
  is passed over.
- `BooksAgree` of `Monolith`: the posting of a bill is handled before its
  reversal is published; otherwise the reversal finds no original and is
  dropped.

### Fairness

Liveness is checked under weak fairness of what a running process does by
itself (`Outbox!FairSpec`, `StornoSaga!FairSpec`): each `flushOutbox` caller
(`setInterval` fires every 1500 ms, a started flush goes on), the end of a
backoff (60 s at most), the consumer loops, and commands that have begun.
Nothing is assumed of users, and no fault is ever forced. Weak fairness is
enough since none of these steps is disabled and enabled again by another one
for ever: a caller that finds the flag up is enabled once the call that holds it
ends. The other modules have no liveness property: their requests end by
themselves or with an error, and nothing retries them.

## Findings

Two statements of the repository do not hold of the code; each has a run in
which TLC finds the counterexample.

1. *Replay is not safe after a crash* (`ledger_crash`, `ReplayIsSafe`). The
   README says the markers make *replay and retries safe*. `shouldProcess`
   saves the marker before the handler runs; after a crash in between the
   message is read again, skipped as a duplicate, and its entry is never
   posted.
2. *A second reversal is never answered* (`saga_second_reversal`,
   `NoBillWaits`). `ledger.service.ts:347` says a request is answered by
   `stornoPosted` or `stornoFailed`. If a first request overtakes the posting
   and is refused, the bill is POSTED again; a second request has the same
   idempotency key (type, tenant, document), is skipped without an answer, and
   the bill stays REVERSING.

More is in the models as it is in the code, without a run of its own. These
disagree with a comment:

- `bill.service.ts:88` says that the bill stays REVERSING until the ledger
  replies. A list that has read the rows before a reversal was saved puts POSTED
  back (`BillService!FillBills`): the bill can be paid, and its stornoPosted is
  ignored.
- `kafka-ledger-saga.consumer.ts:30-31` says that stornoPosted and stornoFailed
  settle an invoice that is REVERSING. A reply read before `onModuleInit` has
  filled the map finds no invoice, is passed over and committed
  (`InvoiceService!SkipReply`).
- `auth.service.ts:109` says that a verified code creates the tenant and the admin
  user. With a blank name it creates the tenant and throws (`Iam!InsertTenant`).
- `compliance-corpus.seeder.ts:22` says that seeding never duplicates the corpus.
  Two pods that start together both find a key missing and both insert it
  (`AiService!FindKey`, `UpsertKey`).
- `ai.service.ts:102` and `app.module.ts:30` say that the vector store is ready
  before the corpus is seeded. The hooks of one module run side by side; a seeding
  that is reached before the migration has ended is left out (`AiService!Seed`).

No text of the repository claims otherwise of these:

- a dispatcher whose send fails writes FAILED over the PUBLISHED of another
  replica, and the event is sent again (`Outbox!MarkFailed`);
- a second send of an invoice that begins while the first awaits delivers and
  issues again, and puts SENT over SENT, PAID or REVERSING
  (`InvoiceService!SetSent`); a refused reversal puts a PAID invoice back to
  SENT (`InvoiceService!Settled`);
- two reversals of one inventory movement that overlap both go through
  (`Inventory!ReverseMovement`);
- a list that overlaps a post, or two posts that look the bill up after a
  restart, make a second object of the bill, and its event is published twice
  (`Purchasing!FillBills`, `BillFound`; the ledger books it once, `BooksOnce`);
  two imports make two bills;
- a list that overlaps a payment brings POSTED back, and the books then show the
  payment and a reversal; one that overlaps the save of a reply leaves the bill
  REVERSING in the map (`BillService!FillBills`);
- an entry of the last day of a quarter is in no quarter's profit and loss until
  the service restarts (`Reports!Date`);
- a login or a read that awaits its query while a password is changed puts the
  old object into the map, where it stays (`Iam!FillUsers`);
- compliance accepts a text that is an identifier, but not a longer text that
  holds one, since the digits of some look like a phone number
  (`compliance.service.ts:79`): an invoice with such a text is accepted and the
  bill it is imported into is not (`Compliance!Imported`), and as the notes of
  automatic movements name a bill, an invoice or a movement by its identifier,
  the receipt of a stored bill, an issue of a delivered invoice and a reversal
  are now and then refused (`Purchasing!Receive`, `InvoiceService!Refuse`,
  `Inventory!RefuseMovement`);
- a bill is in the map before its row is there, so it can be posted while its
  creation still saves; the late save puts DRAFT over POSTED, and the bill is
  posted and published again (`Purchasing!SaveBill`);
- a bill whose receipt is refused stays and can be posted without it
  (`Purchasing!Receive`);
- users and companies whose rows were refused stay in the maps
  (`Iam!SaveFails`);
- a text that replaces another is never seeded (`AiService!CountSource`);
- Pub/Sub may answer for a reversal before its posting, and its storno is then
  lost (`Monolith!Answered`).

## Proofs

| module | theorem | property |
|---|---|---|
| `Ledger_proofs` | `TypeCorrect`, `PostsAtMostOnce`, `AnswersOnce`, `ReversalsHaveStornos`, `AllThatIsReadIsApplied` | `TypeOK`, `AtMostOnce`, `OneAnswer`, `NoDanglingReversal`, `ReadIsApplied` |
| | `AnswersAreInTheBooks`, `ReportsAlwaysAgree` | `AnswerIsInTheBooks`, `ReportsAgree` |
| | `OldBillsAreSafe` | the properties of the first row, from a table with old bills |
| `Outbox_proofs` | `TypeCorrect`, `PublishedIsDelivered`, `FlagIsSound`, `SendsInOrder` | `TypeOK`, `PublishedWasDelivered`, `FlagIsHeld`, `InOrderWithoutFaults` |
| `StornoSaga_proofs` | `PostsOnce`, `RevertedIsBooked`, `NeverPaidAndReversed`, `SagaImplementsReversal` | `PostedOnce`, `RevertedHasStorno`, `NotPaidAndReversed`, `ImplementsReversal` |
| | `BooksOnce` | (`BooksPostOnce`, `AtMostOnce` of the ledger for whatever operations sends) |
| | `SettledBooksAgree`, `FirstReversalsEnd` | `BooksAgree`, `NoBillWaits` |
| `InvoiceService_proofs` | `TypeCorrect`, `SentIsShipped`, `PathIsFollowed`, `ReversalIsAlone`, `AnswersSettle` | `TypeOK`, `SentWasShipped`, `Lifecycle`, `ReversalExcludes`, `AnsweredIsSettled` |
| | `StockStaysCovered`, `ValueStaysBalanced`, `RestartsRestore` | `StockIsCovered`, `ValueIsBalance`, `RestartRestores` of `Inventory` |
| `Purchasing_proofs` | `NothingIsLost`, `AcceptedIsKept`, `BillPublishedOnce`, `OneBillOfItem` | `NothingWithoutBill`, `AcceptedStaysAccepted`, `PublishedOnce`, `OneBillPerItem` |
| | `FallbackIsWeaker`, `ImportIsAccepted` | (operators of `Compliance`) |
| `Iam_proofs` | `UsersHaveTenants`, `OneCompanyPerCode`, `CachesAreRows`, `RegistrationsAreWhole` | `UserHasTenant`, `OneTenantPerCode`, `CacheIsRow`, `RegistrationIsWhole` |
| `AiService_proofs` | `CorpusOnce`, `CorpusWhole`, `AnswersAreOwn`, `TotalsAreDelivered` | `CorpusIsOnce`, `CorpusIsWhole`, `AnswerIsOwn`, `TotalIsDelivered` |
| `Monolith_proofs` | `StornosAreOfOne`, `SnapshotSumsJournal`, `BillsAndBooksAgree` | `StornoOfOne`, `SnapshotIsJournal`, `BooksAgree` |

Each proof assumes nothing but the `ASSUME` of its module, which TLC evaluates
in the runs. The arguments:

*Ledger*, from `LedgerAssumption` (the bounds are numbers; bills, invoices and
movements are disjoint, as the prefixes of their references make them). `TypeOK`
is inductive as it stands. `AtMostOnce` says nothing of the markers and so is
not inductive: `Inv` adds that every entry, in memory or in the table, goes back
to an ingested message (`EntryIsCaused`); that the message being handled has
posted nothing yet, neither in memory nor in the table the memory would be read
back from (`HandlerIsFresh`); and that ids are fresh (`IdIsOld`), so that what
`persist` saves is the entry just made. That the marker is saved *before* the
handler runs, the cause of the first finding, is what makes this invariant
hold. `OneAnswer` rests on the same marker: an answer goes back to a request
that is ingested, and a request whose handler has not yet answered has no
answer; after a refusal nothing can open a storno. For `NoDanglingReversal` the
invariant keeps, for memory and table apart, that the storno of a reversed entry
is there before its mark is, which is the order of the two awaits. For
`ReadIsApplied`, `ReadInv` says that a message that was read has a marker with its
key, and that a message with a marker has had its effect or is in the hands of
the handler, a request to reverse until it is answered.

*Reports*, from `ReportsAssumption` besides (amounts are natural numbers; dates
are real ones, with no day after the last of its month; there is a copy to begin
with). The start differs, as the table may have rows of the old chart, so the
invariants above are proved from `ReportsInit` again (`OldBillsAreSafe`). For
`AnswerIsInTheBooks`, `PairInv` says that, unless an error was swallowed, memory
and table have the same entries but for the one that is about to be saved, and
that original and storno are both there before an answer is sent; by
`AtMostOnce` there is one of each, and their lines cancel in every account,
renamed or not. `ReportsAgree` holds in every journal that is finite
(`FiniteInv`), so it is mostly a proof about sums: the fold that the reports are
built from exists, is the same in whatever order it is taken, and may be split
over a partition. With that the entries' lines, each of which is balanced, add
up by account, by code and by class, and the profits of the quarters add up to
the equity: a date falls in one quarter, or it is a last day with a time, after
its quarter and before the next (`BetweenIs`).

*Outbox*, from `OutboxAssumption` (which process a caller runs in; there are
finitely many; the batch size is positive). Ranks are numbers because the set of
rows is finite at any time, whatever the set of possible events.
`PublishedIsDelivered` holds for any number of processes and callers: the send
and the update both refer to the row the loop is at; they mean the same row
because ranks are distinct (`RanksAreDistinct`), and `SentIsDelivered` carries
the send over to the update. `FlagIsSound` is proved from the same statement
without cardinalities (`OneRuns`). `SendsInOrder` adds what holds while nothing
has failed (`Smooth`): a row that is not PUBLISHED is due, so a batch leaves out
no older row that was not sent (`BatchIsNext`, from `BatchIsClosed`: whatever
its size, a batch has all that is older than what it has), and each send leaves
one process fewer that may send the event once more (`SendsAreLeft`).

*StornoSaga*, from `SagaAssumption` (the bounds are numbers, `MaxCopies` and
`BatchSize` positive). Four invariants, each with the one before it. `CacheInv`
is about the map: while a bill is not in it, what a lookup or a list in flight
has read of it is what the row says (`Cached`), so that a lookup only puts the
row into the map; and the posts of a bill that was not replaced hold the object
in the map. What a step of operations does to a bill that is not replaced is
then one of two things: nothing but that (`Quiet`), or a command or a reply
moves it on (`Moves`); the invariants after it need no more of the single
actions. `PostInv` follows a post from the command to its event (`PostingOf`,
for bills not replaced): one of them at a time, the row saved before the event.
`StornoInv` follows a STORNO the other way: when the handler is about to answer
with an entry the table has it (`HandlerKnows`), so a stornoPosted in
`ledger.events` is true (`AnswersKnow`), and so is a REVERTED in a map, in a row
or about to be saved (`BillsKnow`). An error that `persist` swallows breaks
this, hence `RevertedIsBooked` says `errors = 0 => RevertedHasStorno`. `SagaInv`
uses the invariant of `OneAnswer` as it stands in `Ledger_proofs`, instantiated:
whatever the outbox sends, it is one of the topics that module allows
(`SameLedger`, `TopicGrows`, `LedgerFacts`). `Follows` then ties a bill to what
is elsewhere: requested and unanswered means REVERSING, a payment that was
accepted means PAID, a STORNO means REVERSING or REVERTED. From it follows
`NeverPaidAndReversed`, with any faults of the ledger and the dispatcher.
`SagaImplementsReversal` shows that every step is a step of `Reversal` or a
stutter: a command moves the bill, the save of a STORNO is `BookStorno`
(`PersistIsBooking`; the bill is REVERSING by `HandledWaits`), a reply confirms
or cancels according to the books (`ReplyIsMove`), everything else stutters. It
is proved for `MaxErrors = 0`, as it is run, and up to the first restart of
operations, as `ImplementsReversal` says. `SettledBooksAgree` and
`FirstReversalsEnd` are about a saga that neither restarts nor fails to write
(`Undisturbed`) but whose deliveries may be refused, repeated and reordered;
they use the invariants of `Outbox_proofs` and `Ledger_proofs` together. `Calm`
says from which stored events a bill has its status (`Told`) and that a bill
that was answered and still waits has a second request under way (`Waits`). When
nothing is left to be done, each of these events was sent and read, so by
`ReadIsApplied` it had its effect, and there is no other entry (`BooksAre`). A
second request while the first one's marker is there is not answered (see
*Findings*), hence the hypothesis `AskedOnce` of `FirstReversalsEnd`. `Follows`,
`Told` and `Waits` are about bills that are not replaced. `StornoInv` is about
all bills, since a stale object is never REVERTED before the table has the
STORNO, and so is `BooksOnce`, which is the invariant of the ledger.

*InvoiceService*, from `InvoiceAssumption` (the bounds and the numbers of lines
are natural numbers). `SentIsShipped` holds for any number of processes,
invoices, requests, overlapping sends, restarts and failures. `Inv` adds that a
send that has passed the EDI inbox has delivered to the receiver
(`SendIsOnItsWay`), and that a status on its way to the table (`SavedIsShipped`)
or already in a map or in the table (`StatusIsShipped`) is past DRAFT only for
an invoice of which some send went through (`Sent`); `SentStays` says that no
step takes back what was delivered and issued. No assumption about the order of
sends, payments and replies is needed, which is why the property survives a
second send. `PathIsFollowed` and `ReversalIsAlone` are about invoices that are
sent once, and need a second invariant, `Path`: a draft comes before any other
request about the invoice (`DraftIsFirst`), a send that is on its way finds its
invoice in its map (`SendHasInvoice`), and a reversal keeps its invoice
REVERSING until an answer is handled (`ReversalHolds`). The one send that is
still on its way then is the only one, so by `Inv` nothing is past DRAFT yet,
and the SENT it sets without a test follows a DRAFT. A process that still fills
its map has an empty one, no request and no reply in hand, and what it has read
of the table is of invoices that were created (`LoadingIsFirst`). That one send
means one needs finitely many requests begun (`FewRequests`), which is all that
is known of a cardinality when there may be any number of requests. Both hold
for any number of processes. `AnswersSettle` is for one process (`OnePod`):
while the row of an invoice says REVERSING the answer is still to come, and the
map says so too, or the answer is being saved and its offset is not committed,
so that a restart reads it again (`SettleInv`); where the map is still being
filled, what it will hold counts as the map, and a reply read meanwhile makes
the invoice `missed`.

*Inventory*, from `InventoryAssumption` (quantities are positive, prices natural
numbers, the bounds too), in the last part of `InvoiceService_proofs`, which
extends `Inventory` too: the stock is what invoices issue from, and no name of
the one module is a name of the other. A fraction has the least denominator it
can have, so equal fractions are equal (`FracEqual`), `Plus` is commutative and
associative, and a sum of fractions over a finite set does not depend on the
order. `StockInv` speaks of the time up to the first restart: the item has a
natural quantity and a cost that is not negative, a request that waits for
compliance has not moved the stock, and quantity times average is the sum over
the movements; `AppliedIs` is the step, a receipt or an issue that the stock
covers. After a restart rounding and order may differ, and `RestartInv` keeps
what still holds: `createdAt` numbers the movements, the item is what they make
of it in this order (`ItemIsApplied`), and every row is of a movement that the
map has. The quantity does not depend on the order of a replay (`ReplayAdds`, as
a sum of signed quantities), and where the rows are in order and no cost was
rounded both replays are of the same list (`OrderIsCreatedAt`).

*Iam*, from `IamAssumption` (founders are not requests and have addresses, names
and numbers of their own). The first two properties are about rows only, but a
row is written from an object that may have been in a map, in a list read
earlier or in the hands of a request, possibly detached from the map by a list
in between. `Inv` therefore says what an object may be wherever it is: a user is
of a company that is stored (`Members`), and a company has the name that was
mailed with its code (`Company`). Its two witnesses are the set of stored
companies, which only grows, and the names mailed so far, which only a new code
extends. `HoldsSome` says that an object a request holds in a map is still
there, which the shared and detached objects of `Detach` and `PutBack` keep.
Names are unique among rows (`NamesDiffer`), and two companies of one code have
one name. The other two properties have an invariant of their own, `CalmInv`:
the columns are unique (`Unique`), and while nothing was raced and no save
failed there is `Peace`. Requests that run touch different things (`Apart`), so
what one has read, put into a map, or found to be free stays so until it is
stored (`RequestOK`), and where a map and a row differ a request is about to
store the difference (`UserOK`, `TenantOK`, `RowOK`). What a request touches is
therefore all it reads and changes; a list or a lookup touches what it has read,
so that in peace what it puts into the map is what the row still says
(`PeaceReads`). A company whose admin had a blank name is remembered in its
request (`Thrown`, `PeaceThrown`). The proof failed at first where a created
user logged in and changed before its own row was there: the two requests touch
the same user, and `CreateUser` now says so, as `VerifyRegistrationCode` says
what it claims.

*AiService*, from `AiAssumption` (entries have tenants; bundles map sources to
finitely many keys; the pods of a scene are pods). `CorpusInv` adds that at most
one pod is seeding unless two have overlapped (`OneSeeder`), and that what a
seeding has found of a key is still what the store has of it (`FoundIsCorpus`):
the upsert then inserts only what is missing. For `CorpusWhole`, `WholeInv` says
that as long as only the first bundle was seeded, the store has no other keys;
with one chunk each, as many chunks as the bundle has texts are all of them,
which is what `CountSource` compares. `AnswerInv` follows an entry from its
delivery through the pod that handles it (`HeldIsDelivered`) to total and chunk
(`BooksOK`), and says what a question has read so far (`ReadIsOwn`). For
`TotalsAreDelivered` each delivery of an entry has a place, with a pod that is
saving its row, in the table, or gone (`Fates`), so there are never more rows
than deliveries to add at a start; a pod that is alone misses none of what the
table and its own saves have (`Alone`).

*Monolith*, from `MonolithAssumption` (requests and bounds are natural numbers).
A reversal marks an original that is open with the place of the storno it
appends, and no earlier mark names that place, since marks name places that
exist. The first open original exists because the natural numbers are
well-founded (`FirstExists`). `Sound` adds that the snapshot and the events of
the ledger that are still on the bus sum up to the journal, bill by bill, and
that no two of these events are the same. `Life` follows a bill whose commands
kept out of each other's way: who has it in hand (`Alone`), from the map to the
row (`Kept`), and from what the bus was told to the journal (`Booked`). When
nothing is under way, that is `BooksAgree`.

*Purchasing*, from `PurchasingAssumption` (laws are sets of categories that all
know VAT-00-NO, the first of them the built-in; ids of items, bills and nothing
differ; a document has an account of the chart). Two facts about the rules of
`Compliance` for every document and every law come first: the fallback of the
client refuses nothing that the service accepts, and the bill made of an accepted
invoice is accepted unless its text is a bare identifier. `Inv` says what a
request has in hand, cached or a copy of its own, and that what it holds is of
the object it began with (`Linked`); from it follow `NothingIsLost`, with any
overlaps and faults, and `AcceptedIsKept`. The other two are about objects that
were not raced: requests about one do not overlap unless they post and find it in
the map (`Apart`). A
bill is then DRAFT until one post finds it so in the map, and that post alone
writes and publishes it (`BillLife`); other posts and restarts see DRAFT or
POSTED. An item is PENDING until the import that has it in hand has its bill
(`ItemLife`, while nothing fails or restarts). The proof of `BillPublishedOnce`
found the post that overlaps the creation of its bill (see *Findings*): TLC had
not been given such a scene, and the requests that create a bill now touch it.

Folds are recursive over data, which TLAPS has no induction for that could be
applied to them; the proofs about sums and replays do it by hand: the recursive
function exists, since it can be built up by the size of the set (`IterExists`),
and a smallest set that contradicts a law leads to a smaller one.

Each inductive invariant was first checked with TLC on the instances of the
runs, but for `Inv` of `Iam`, whose witnesses TLC cannot enumerate (its `CalmInv`
was checked, also with all operations in one scene), and `PostInv` and
`StornoInv` of `StornoSaga`: there TLC checks the properties. `TypeOK` of
`Outbox` and `InvoiceService` are theorems and need no run.

Only model-checked: liveness (`EventuallyPublished`, `ReversalSettles`), which
TLAPS does not do under fairness. Only proved: `BooksPostOnce`, which is
`AtMostOnce` of the `ledger` run carried over to the saga. `BooksAgree` and
`NoBillWaits` are run and proved without restarts and failed writes: a restart
may lose a command between its save and its event.

No module declares a RECURSIVE operator.

## Plan

Done, the most important behaviour first: the saga (`Outbox`, `Ledger`,
`BillService`, `StornoSaga`, `Reversal`), invoices, inventory, the ledger's
reports, bills and EDI with the compliance rules, IAM, AI, the monolith's core.

Left: several processes for bills, for stock and for the ledger, each with a cache
of its own; the start of the ledger beside its consumer.

## Not modelled

- Delivery over HTTP without Kafka, and the HTTP ingestion and saga callback:
  the deployment has Kafka, and they call the same handlers. With both away a
  reply of the ledger is lost (`ledger.service.ts:537`).
- A message lost because the consumer group of operations or of the ledger
  subscribes with `fromBeginning: false` before it has an offset; several
  partitions.
- Several replicas for bills and for stock (`bill.repository.ts:33`: each keeps
  its cache and never reads a cached bill again).
- The two replicas of the ledger, each with its own journal in memory. The
  replica that a partition moves to does not have the entries that the other one
  has posted since it started: it finds no original and answers stornoFailed.
  In `Ledger` a rebalance leaves the partition with the same process.
- The start of the ledger beside its consumer (`ledger.service.ts:126-143` and
  the hook of `kafka-operations.consumer.ts`): a message may be handled before the
  rows have arrived, with the same effect on a reversal, and its entry may then be
  read once more as a row. `Ledger!Crash` has the journal read before the consumer
  goes on.
- The monolith's copies of invoices, inventory, EDI and IAM, which repeat those
  of the services, and its activity log.
- Embeddings and the language model, and what they answer; the deadlines and the
  wording of violations of compliance; tokens, hashes, mail and the audit log of
  IAM; the CSV layout of the reports.
- The gateway, the frontend and the manifests: user interface and configuration.
