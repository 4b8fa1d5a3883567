# UcoGestion, modelled and checked

A multi-tenant commercial management system: sales, cash sessions, stock, purchases and expenses on
a PostgreSQL server (`apps/api`), a web client (`apps/web`), and points of sale that keep selling
while they are offline and deliver later what they sealed. Three things in it are hard. A device has
several tabs, no network, and history that the server must accept honestly and late. A back office
has several people who change the same rows, from pages that show what was true some time ago, with
retries. And some work is done by processes that die: letters, exports, expirations.

Everything here is translated from the source. Where a comment names a TypeScript method or an SQL
function, the definition under it is that method or function. `PROJECT.json` maps each definition to
the lines it stands for; about a third of the TypeScript is covered. What is not is said in section
7.

## 1. The system

| Part | State it keeps | Operations | Interacts with | What is hard |
|---|---|---|---|---|
| **Offline device** `apps/web/src/offline` | one IndexedDB per device, shared by its tabs: sequence lease, chain head, delivery queue, receipts, sessions, cash projection, revocation knowledge, freezes, close checkpoints, authorizations | open a session, confirm a sale (both *seal* an operation), accept an answer, purge, wipe, learn of a revocation, freeze, checkpoint, release, complete, refresh an authorization | the server through delivery; the cash page through the close barrier | cryptography cannot run inside an IndexedDB transaction, so every command reads, takes a 30-second lease, computes, and commits later; tabs crash, leases expire |
| **Opaque delivery** `opaque-delivery.ts`, `offline-delivery.service.ts` | what each run has still to send; challenges | start on an event, send batches, accept answers, fail | device, ingestion | random order, batches of 50, lost, late and refused requests, two senders; nothing retries |
| **Envelope ingestion** `historical-*`, `offline-envelope-order.ts`, `revocation-checkpoint.ts` | applied operations, stored answers, recorded revocation knowledge | apply, answer again, wait, reject; record knowledge | cash openings and offline sales run in the same transaction | any order, replays, forks, cutoffs of revoked users |
| **Cash sessions** `modules/cash`, migrations 0064-0104 | sessions, movements, transitions, attempts, final syncs, closures, reviews, exceptional closures, late recoveries | open, move, begin/sync/close/abort, reconcile, close without the device, review | ingestion, sales, purchases, expenses | concurrent movements, late data, lost devices, stale forms |
| **Cash page** `features/cash`, `offline-close.ts` | the view each tab last loaded, retry keys, the freeze | begin, synchronise, confirm, abort, consolidate | device, cash sessions | reloads and lost answers between any two steps |
| **Configuration** `modules/offline-sync/configuration-barrier*`, `offline-setup.ts`, `offline-configuration-barrier.ts`, migration 0042 | epochs, grants with their snapshots, barriers, device checkpoints, the freeze, the users' authorizations | reserve, prove, authorize, install; begin, checkpoint, complete, resume; change an item, a price, a category, the currency; lose a device | device freeze, catalog, currency | an epoch is closed while devices still seal under it; users of one device share its chain but not their grants |
| **Stock and documents** `modules/inventory`, `sales`, `purchases`, `expenses` | the projection, the ledger, incidents, documents, refunds, cash movements | confirm, pay, cancel, adjust, transfer, compensate, consume offline, review, deactivate a branch | cash sessions, ingestion | read, then lock: a cancellation prepared before a payment committed; stock that is not there |
| **Commands and directories** `core/idempotency`, `modules/customers`, `suppliers`, `catalog`, `expenses`, `branches`, `organizations` | rows with versions, idempotency records | create, edit, price, structure, status, delete; profile, timezone, currency | each other by reference and by lock | two requests with one key, two editors of one version, unique codes, a parent that goes while a child comes |
| **Memberships and invitations** `modules/users`: `membership-administration.service.ts`, `invitation-*.ts` | memberships, invitations and their tokens | invite, resend, revoke, accept, expire; change role, status; revoke | commands, outbox | the last owner; acceptance against expiry, revocation and mail |
| **Pages** `apps/web/src/features` | the list last received, the fetch under way, forms and what they were filled from, requests | load, revalidate, open, edit, submit, take an answer | commands | everything a page shows may be old |
| **Outbox, exports, mail, sign-in** `core/outbox`, `modules/reports`, `modules/auth` | jobs, leases, attempts, files and their rows, letters, sessions, reset tokens | claim, handle, complete, fail, give up; put, publish, delete; sign in, use, reset | object storage, the mail provider | a lease that ends during the handler, a process that dies between two effects |
| Audit, observability, backup, infrastructure, shared packages, platform administration | records, files | | | little control of their own |

What makes them correct, and is therefore stated as a property:

* a device seals **one** chain, loses nothing it sealed, counts its cash once, and stays silent for a user once it knows the user is revoked;
* the server applies an unbroken chain per device, each identifier once, answers truthfully, and never applies anything beyond a recorded cutoff;
* together: what an honest device seals takes effect in order, once, is never rejected, and is not deleted before it took effect; and one event of the browser after it was sealed is enough for it to be answered, unless a request is lost or the server refuses something on the way;
* a register belongs to one session, a closure stays true for ever, only the last attempt closes, and what arrives after a device was given up is accounted for;
* a session stays frozen on its device as long as the server is closing it, and nothing is left behind when it is closed;
* what was sealed keeps the meaning it was sealed under, a closed grant is spent, and what a barrier relies on holds;
* a stock is its ledger, a shortage is under review, a cancelled document has had no effect, an inactive branch has no work in progress;
* no accepted change is lost or made twice, an organization keeps an owner, an invitation is what became of it;
* a page shows what it announced and does what its buttons said;
* every job ends, once; every file is accounted for; no session outlives the password it was opened with.

## 2. The modules

```
SealedOperation             operations, knowledge, answers
 |- EnvelopeIngestion       the server's ingestion      -> MCEnvelopeIngestion
 |- OfflineDevice           tabs and their IndexedDB    -> MCOfflineDevice, OfflineDevice_proofs
     OfflineDelivery        = OfflineDevice + EnvelopeIngestion + requests
                            implements LegitimateDelivery -> MCOfflineDelivery (two configurations),
                                                           OfflineDelivery_proofs (with the ingestion)
CashSession                 the server's cash sessions  -> MCCashSession
 |- CashClose               = CashSession + the device's barrier + cash pages
                                                        -> MCCashClose (two configurations),
                                                           CashClose_proofs (with the server's)
Configuration               grants, barriers, changes   -> MCConfiguration (two configurations),
                                                           Configuration_proofs
BranchStock                 stock, ledger, incidents
 |- Trade                   = BranchStock + documents + their cash -> MCTrade, Trade_proofs
Outbox                      jobs, claims, leases
 |- Commands                transactions, locks, idempotency, authorization
 |   |- Directories         lists of rows with versions
 |   |- Memberships         people, invitations, their jobs
 |       Workspace          = Directories + Memberships
 |       Pages              = Workspace + browser pages -> MCWorkspace, Workspace_proofs
 |- Exports                 report files
 |- Access                  sign-in, sessions, resets, letters
     Runtime                = Exports + Access + processes that die -> MCRuntime, Runtime_proofs
Sums_proofs                 sums over finite sets, for CashClose_proofs and Trade_proofs
```

**SealedOperation.** The record an envelope opens to (`operationSchema`) and the knowledge a device
signs. `genuine` stands for the agreement of an envelope with its grant and the signed history: a
fact of the envelope, not of when it is examined. Hashes are names, distinct for distinct contents.

**EnvelopeIngestion.** Variables are the tables `sync_operations`, `offline_delivery_results`,
`offline_revocation_checkpoints` and two status columns. Every transaction starts with `SELECT ...
FOR UPDATE` on the organization, so each is one step. `Apply` is the whole of
`HistoricalDeliveryIngestion.ingest` for an envelope that is ready; `SecurityReject` is its refusal;
an envelope that waits, is answered again, or whose transaction throws changes nothing and is no
step here; in `OfflineDelivery`, where the sender sees it, a throw refuses the push. `LinkConflict`, `MissingLink`, `SessionConflict`, `MissingSession` and `SessionOverrun` are
the exits of `validateEnvelopeOrder` in its order. Envelopes come in any order, any number of times,
from devices that do not follow their protocol.

**OfflineDevice.** Variables are the object stores of the device's database (`chain` is the lease
row of `meta`), the tabs, and `log`, a history variable of everything ever sealed. A command is
`Start...`, `Acquire`, then its commit, with `Expire`, `Crash`, `Fail` and the other tabs' steps in
between. Each commit is one IndexedDB transaction and re-asserts the lease (`Holds`). The server's
answers and revocations are arbitrary here: what a device guarantees by itself does not depend on an
honest server.

**OfflineDelivery** composes the two. An event of the browser (`Wake`) asks a sender for a run; one
that comes during a run asks for another after it (`requested`). A run reads the rows, pushes batches
of `BatchSize` chosen without regard to the chain (the code reads them in the order of random UUIDs),
and accepts the answers one by one. The server handles a push in several transactions: the challenge
and the knowledge, then one for each envelope. It refuses the push (`Refuse`) when some of the
knowledge cannot be recorded, in `Consume`, or when an envelope throws, in `Ingest`: `Throws` has the
exits of `ingest`, and `refused` the pending operations whose effect an importer or the trigger of
migration 0042 would refuse now, which `Hinder` and `Relieve` change as a session is closed or
reopened and epochs advance. What was ingested before stays, its answers are not sent, and the run
ends (`ReceiveRefusal`). `GiveUp` ends a run at any point; its request may be lost or be handled
later, and a closed tab forgets the event too. Nothing but another event starts the next run. **LegitimateDelivery** is what this promises: a sequence of sealed operations, of
which ever longer prefixes take effect, answered afterwards.

**CashSession.** Variables are the tables of migrations 0064, 0065, 0082 and 0098-0104, reduced to
what decisions read: statuses, expected cash, the sum of movements, the device's applied chain,
attempts, final syncs, closures, reviews. One action per service method, each a transaction that
locks the organization and the session or register. Session identifiers stand for openings that may
be requested (`Opening`), because a row's register, device, owner, origin and opening cash are
immutable. The unique index on active sessions is deliberately absent: `OneActivePerRegister` says
the commands do not need it.

**CashClose.** `CashSession` with the device that seals, the freeze and the kept checkpoint of
`OfflineCloseBarrier`, and tabs that show what they last loaded (`Shown` is
`CashWorkspaceService.read`). A command of the page is several steps, because `prepare`,
`checkpoint`, the request and the release are separate transactions. `Reload` may happen anywhere.
`Losable` names the commands whose answers may be lost after the server acted.

**Configuration.** A grant is the snapshot of catalog and currency a user was given on a device,
under an epoch. Managers change items, prices, categories and the currency, guarded as in
`ResourceSafetyService`, the services and the triggers of migration 0042; a barrier is begun,
checkpointed by each device, completed, and lifted device by device. A refresh of an authorization
is four steps (reserve, prove, authorize, install), because its requests and answers may be lost or
late. `late` marks what is sealed under a grant that was already closed.

**BranchStock** and **Trade.** The projection and the ledger of stock, adjustments, transfers and
incidents; then sales, purchases and expenses with their cash. A session is OPEN, or CONFLICTED when
it was opened offline on a register that is in use; an offline sale is taken by either, and by one
closed without its device. A cancellation or a payment is two
steps, `Begin...` and `Commit...`, where the code reads the document before it locks it; a
confirmation is one.

**Outbox.** `outbox_jobs` and the claims on them; what a handler does is left to the modules that
extend it. **Commands.** An HTTP request of the back office is a transaction: `Begin`
(authorization, its locks, the idempotency key), the step of its service, then `Commit` or
`Rollback`. Locks are not variables: `LocksOf` derives from the open transactions which rows they
hold, and `OrganizationFree` and `AloneInOrganization` say what `FOR UPDATE` on the organization
waits for. **Directories** has one action per operation of each list; **Memberships** those of
people and invitations, with the handlers of their jobs. **Pages.** For each tab the list its query
last received, the fetch under way, the editor of each row and what it was filled from, and the
requests sent. `SubmitPage` is a page that waits as a whole, `SubmitRow` one whose rows wait for
themselves, as in the source.

**Exports**, **Access**, **Runtime.** An export puts a file, which no transaction covers, then
commits. A sign-in verifies the password outside a transaction and commits under the account's lock.
`Runtime` has the loop of `worker.ts`: jobs, then letters; a process may die between any two steps.

## 3. The runs

| Run | Instance | Distinct states | What it shows |
|---|---|---|---|
| `ingestion` | 2 devices, 2 users, 11 envelopes, 8 knowledge points | 46 k | all orders and replays of an honest chain of four together with a fork, its continuation, identifiers and sessions reused by another device, an ungenuine envelope and a session with a hole |
| `device` | 2 tabs, 1 user, 2 sessions, 2 drafts, 3 operations, lease taken 5 times | 4.8 M | sealing, freezing, checkpointing and releasing while tabs race, crash, log out and learn of revocations |
| `delivery` | 1 tab, 2 users, 2 sessions, 1 sender, single-row batches, 1 fault, a reactivation, an opening that may be refused | 2.3 M | safety of the composition, and the refinement |
| `delivery_live` | 1 tab, 1 user, an opening and a sale that may be refused, 2 concurrent senders, 1 fault, a revocation and a reactivation, fair | 0.5 M | one event after the seal is enough for an operation to be answered, unless obstructed |
| `cash_sessions` | 3 openings for one register (two offline from one device, one online), 2 actors, 3 operations, 2 attempts | 2.3 M | the server's cash invariants |
| `cash_close` | 1 session, 1 page, 3 operations, 3 attempts, 3 keys; answers to abort and close lost | 0.1 M | the device and the server agree about a closing session |
| `cash_close_lost_begin` | the same, with the answer to begin lost | violated | section 6 |
| `configuration` | 1 device, 2 users, 1 item, 2 kinds, 2 currencies, 3 epochs, 3 grants, 2 barriers, 2 operations | 5.7 M | what is sold offline keeps its meaning |
| `configuration_stranded` | the same, 2 epochs | violated | F1 of section 6 |
| `trade` | 2 branches, 1 item, 2 sessions, 3 documents, 2 open transactions | 3.0 M | stock, cash and cancellations |
| `workspace` | 2 owners and a guest, 2 rows, 2 keys, 2 workers, 1 tab; some 30 agendas | 0.7 M | commands, directories, invitations, pages |
| `runtime` | 2 processes, 1 export, 2 sign-ins, 2 resets, 1 fault, fair | 0.5 M | jobs, letters, sessions, files |

All runs are exhaustive.

**Bounds.** *Device and delivery.* `MaxSequence`/`MaxOperation` = 3 gives an opening, a sale and one
more of either kind: the shortest chain where a session's order differs from the device's, where a
row can be delivered before both of its dependencies, and where something is sealed between a
checkpoint and its use. `MaxFence` = 5 is a lease for each command of an opening, a freeze, a
checkpoint, a release and a sale; a tab whose lease was taken loses it sooner. Two users of one
device are in `delivery`. Two tabs and two senders are what every race in the code is between: a
commit re-checks a lease, not a set of tabs. `BatchSize` = 1 makes every order of delivery possible,
a batch of 50 fewer. `MaxFaults` = 1 is a request that fails midway and may still be running when
its successor is pushed; `faults`, what is left of it, is drawn at the start, so that `faults = 0`
says that no request is lost any more. `Revocable` names whose revocation is explored, `Refusable`
whose effect may be refused: one opening, with what waits for it, in `delivery`; in `delivery_live` the sale, of a chain of two
whose batches wait for each other. In `delivery` the device and the user are
not revoked at the same time (`OneRevoked`); the knowledge of one may still be there when the other
is, and knowledge of several targets together is the subject of `ingestion`. Without that bound the
run passes as well, with 3.9 M states, but takes longer than a run should. *Cash.* Two attempts (`MaxAttempt`) are an aborted one and its successor,
three in `CashClose`, where the second is begun twice. `MaxCash` = 1 bounds deposits; zero, one and
the refused withdrawal below zero all occur. *Configuration.* Two barriers, so that a device may
still be frozen for the first when the second begins; three grants, so that one of two users is
refreshed and the other is not; three epochs, so that an operation may be two behind. An instance
with two devices and three users passes too, but takes longer than a run may. *Trade.* Three
documents are a purchase, a sale and what cancels, adjusts or transfers; every race is between two
open transactions; the second branch receives transfers and may be deactivated. *Workspace.* An
agenda bounds one execution to the commands of one theme: two owners against each other, one
directory or two that refer to each other, invitations and their mail, or a page beside one command
of somebody else, or a page that sends two requests. Two rows and two keys make every pair of
commands collide in row, code, version or key. The page's properties are about one page against
everything else: what a second page would do is a command of somebody else here, and the
specification has any number of pages. *Runtime.* Two processes compete for one job; `MaxAttempts` =
2 reaches the dead letter after a retry; `MaxFaults` = 1 is a death or a lease that ends under a
live handler.

Symmetry is used for tabs, branches' sessions, keys, rows, workers, kinds and currencies where the
specification does not tell them apart, and never in a run with a liveness property.

Deadlock is not checked in the runs of cash, configuration, trade, workspace and runtime, because
there the system may stop: everything done and answered, within the bounds. In the others a logout,
a login or an administrative step is always possible. Database deadlocks are not stops: PostgreSQL
rolls one victim back, which is `Rollback`.

**Fairness.** *delivery_live*: weak fairness of the senders and the server together: while a run has
been asked for or is under way, one of its steps, or one of the server's on its push, is taken. That
is the loop of `startOpaqueDelivery`, which runs `deliver` as long as `requested` is set and clears
`running` whatever happens, the `while` of `send`, and a server that handles or fails what it
received. Nothing is assumed of browser events, and nothing in the code retries: so the property
starts from an event that is still to be served (`requested`) when no request is lost any more
(`faults = 0`), after the operation was sealed. It promises an answer unless the delivery is
`Obstructed` before: the device has knowledge of a user who is active again, or the effect of a
queued operation is refused. Without either exception TLC finds it violated (F14, F15). An
obstruction that is lifted later does not start a run; the next event does. *runtime*: weak fairness of each worker process, of clocks that make leases run out and files
age. `worker.ts` loops for ever and `infra/deploy/compose.yaml` restarts it (`restart:
unless-stopped`). Nothing is assumed of tabs, users, administrators or faults. Faults are bounded,
so what is shown is: once requests or processes stop failing, everything is answered or ends.

## 4. The properties

*EnvelopeIngestion*: `ChainUnbroken`, `SaleAfterOpening`, `AnswerMatchesEffect`,
`NoEffectBeyondCutoff`, and the action property `CutoffNeverMoves`. *OfflineDevice*: `OneChain`,
`NothingForgotten`, `SessionsInOrder`, `CashCountsSales`, `SilentOnceKnown`, `CheckpointStillTrue`.
*OfflineDelivery*: `DeletedOnlyWhenEffective`, `HonestNeverRejected`, `HonestKnowledgeRecordable`,
the refinement `EffectsInOrderOnce` and the liveness property `EverySealIsAnswered`. *CashSession*:
`CashTypeOK`, `OneActivePerRegister`, `ClosureStillTrue`, `ClosedByLastAttempt`,
`LateDataAccounted`. *CashClose*: `FrozenWhileClosing`, `NothingLeftBehind`. *Configuration*:
`SealedKeepsItsMeaning`, `ClosedGrantsAreSpent`, `CheckpointHolds`. *Trade*: `LedgerExplainsStock`,
`ShortageUnderReview`, `CancelledNetsToZero`, `InactiveBranchQuiet`. *Directories*:
`NothingLostOrDoubled`. *Memberships*: `OwnerRemains`, `InvitationHonoured` and the action property
`NeverMailsDeadToken`. *Pages*: `ShowsWhatItDid` and the action property `ActsOnWhatItShows`.
*Access*: `NoSessionOutlivesReset`. *Exports*: `ExportsAccounted`. *Runtime*: the action property
`OverForGood` and the liveness property `EverythingEnds`.

Each module has one type invariant. A run or a theorem checks those of the server's ingestion, cash
and configuration; the others were checked once on the instances above and are in no run.

The chain of a device is kept twice over: with any lease that still lasts accepted at a commit,
`OneChain` still holds, because a session's sales also compare the cash they read; with the cash not
compared, the lease protects the chain but not in every case the cash. The mutant of `OneChain`
therefore drops both.

Each property comes with a mutant: a plausible bug written as an operator beside the definition it
replaces ("Mutated form: ..."), with which TLC finds the property violated.

## 5. What is proved

The proof modules hold for every value of the constants: any number of devices, users, envelopes,
sessions, registers, grants, barriers, amounts, memberships, commands, pages, workers. The only
assumptions are the named `ASSUME`s of the modules, which say that the constants have the types
their comments give them, and where a theorem has a hypothesis of its own, it is named below.

**OfflineDevice_proofs.** All six properties of the device are invariants, for any number of tabs,
sessions and users. The commands of a tab read, take the lease, compute and commit later, so the
invariant is about what a commit may still rely on. The lease row describes the end of the log
(`ChainMatchesLog`), and a commit asserts the lease it read: that is `OneChain`. A session's counter
and its projected cash are the counts of the log as long as the session has a record
(`SessionsFromLog`). Two openings under way never have the same session (`OpeningsApart`). What the
device signed lies behind the end of its chain, and a close checkpoint stands only while its session
is being closed (`SignedBehind`). The proof has two cases for every step: it leaves the log, the
sessions and the openings alone (`KeepsLog`), or it seals one operation.

**OfflineDelivery_proofs.** First the server's ingestion alone, for whatever devices send:
`ServerTypeOK`, `ChainUnbroken`, `SaleAfterOpening`, `AnswerMatchesEffect`, `NoEffectBeyondCutoff`
are invariants and `CutoffNeverMoves` holds of every step. The properties alone are not inductive:
that an opening *precedes* a sale in the chain needs that the applied sequence numbers of a device
have no gap (`PrefixApplied`), and the cutoff needs that a device and target have one checkpoint
(`OneCheckpoint`). The key lemma is `ReadyExtendsChain`: a ready envelope comes after everything its
device has applied, because its predecessor is applied, its own number is free, and there is no gap.
Then the composition. `DeviceAndServer` shows that its behaviours are behaviours of both parts, so
that what was proved of each alone holds here too. What joins them: the server has applied a prefix
of the device's log (`AppliedPrefix`); the answers on their way are about applied operations
(`AnswersTrue`); every copy of what the device signed still describes its chain (`SignedTruth`); and
an envelope beyond a signed cutoff travels only with that knowledge, or after it (`KnowledgeFirst`),
which is why the sender reads the knowledge after the rows. From these, `DeletedOnlyWhenEffective`,
`HonestNeverRejected` and `HonestKnowledgeRecordable` are invariants. That an envelope on its way
throws only for its effect (`HonestThrows`) needs in addition that the device's sessions number their
operations along its chain, so that one whose predecessor is applied finds its session as it left it.
Last the refinement,
`EffectsInOrderOnce`: sealing, applying and accepting an answer map to the three actions of
`LegitimateDelivery`, and every other step to a stutter (`SealsRefine`, `ApplyRefines`,
`AcceptRefines`, `StuttersRefine`).

**CashClose_proofs.** First the server's cash sessions alone. `CashTypeOK`, `OneActivePerRegister`, `ClosureStillTrue`,
`ClosedByLastAttempt` are invariants. The strengthening is `Books` (the projection `expected_cash`
is opening cash plus movements, kept by the trigger and needed when a close copies it into a
closure), `ClosingByLastAttempt` (the attempt of a closing session is the last begun for it, needed
because a close names any attempt) and `ClosureAttempts` (a closure names an attempt that exists).
`OneActivePerRegister` is kept because an opening counts conflicted sessions as occupants and a
conflicted session never becomes open again. `LateDataAccounted` has an
invariant of its own, `LateInv`: the marks are finitely many, each is of a session closed without its
device and of an operation that was there when it was made, so that the next is marked apart, and
such a session has its snapshot. Then the close from the device. With any number of pages the
server's invariant goes on holding and the stores keep their shapes (`CloseTypeCorrect`).
`FrozenWhileClosing` and `NothingLeftBehind` are invariants under two hypotheses, those of the run
`cash_close`: the device has one page, and the answer to begin-close is not lost. Then the page
knows of every attempt that is begun (`PageTrue`): it shows OPEN, or lifts the freeze, only while the
server has the session open, and a checkpoint it sends was not begun before. A kept checkpoint
covers all that is sealed (`DeviceTrue`), and so does the attempt the server is in (`ServerTrue`), so
that the continuity the server checks at the close is that nothing is left. Without the hypotheses
both fail (section 6).

**Configuration_proofs.** `ConfigurationTypeOK`, `SealedKeepsItsMeaning`, `ClosedGrantsAreSpent` and
`CheckpointHolds` are invariants. The strengthening: what a device has sealed names grants of that
device whose snapshot has the item, and so do its users' authorizations and requests (`Linked`);
grants and barriers follow the epochs (`Epochs`); an open grant agrees with the catalog and the
currency as they are now (`OpenGrantsAgree`), which is why a change that the guards allow cannot
alter the meaning of what is still to be sealed; and the device of a closed grant is frozen by a
barrier of that epoch or a later one, unless one of its users has been renewed and lifted the freeze
for all (`LeftBehind`).

**Workspace_proofs.** Of the back office with its pages, `OwnerRemains` and `InvitationHonoured` are
invariants and `NeverMailsDeadToken` holds of every step. The argument is about locks, which are not
variables but derived from who is under way. A change of a membership is staged only when no other
transaction has staged anything (`AloneInOrganization`), and nobody joins while it is
(`OrganizationFree`), so the other owner it counted on is still there when it commits
(`StagedMemberships`). A change of an invitation holds its row from its begin, the handler of a job
from the moment it has found it pending under the token of the job, and an acceptance waits for both
(`InvitationLocks`); so what they decided on is what they find (`StagedInvitations`), and a letter
is sent under a row that cannot change. `NothingLostOrDoubled` is an invariant for the same kind of
reasons (`DirectoriesInv`; TLC: 742 756 states). A key is inserted before anything else is done, so
one command of its scope has it, under way or completed (`KeysApart`). A staged change of a row
holds the row, its code in the unique index, and the organization where it takes it (`RowsApart`),
so what it checked is still true when it commits (`RowChecked`): the version its sender read, that
the code is free, that the category or branch it refers to is there, that no document refers to what
it deletes. And every completed command has raised the version of its row or brought it about
(`LeftItsMark`), so no later one finds that version. That commands are well formed (`WellFormed`,
the schemas of the controllers: roles, statuses, and which rows refer to another) is an assumption
for the agenda and a lemma for the pages; that the rows an execution starts with respect the unique
indexes and the foreign keys (`Consistent`) is an assumption too.

Then the pages: `ShowsWhatItDid` is an invariant and `ActsOnWhatItShows` holds of every step, by one
more invariant (`FormsInv`; TLC: the same 742 756 states). What the server's steps do to it is one
fact: a row that is there only gets a greater version, or is deleted for good (`Evolves`). So what a
page has read of a row is still so, or outdated, or the row is deleted (`Seen`), and a request for a
new status is about a row that has another, or it is outdated (`Switches`); a commit finds its row in
the version it names, so the outdated ones never commit. The forms of users and settings hold the
version that is shown (`UsersTrue`, `SettingsTrue`): an editor of a user is filled again when its
version changes, and settings that are shown change only by their own answer. The list a page
receives after an answer was read after the commit, because the answer drops the fetch under way
(`ChangesShown`); a refetch that joined it would break just this. The steps that only move a query
share one lemma (`QueryMoves`), those that settle a request another (`RequestSettles`). The
assumptions tell `Nothing` from keys, ids and lists, as the code tells null from values.

**Trade_proofs.** `LedgerExplainsStock`, `ShortageUnderReview`, `CancelledNetsToZero` and
`InactiveBranchQuiet` are invariants, for any number of branches, items, documents and open
transactions. The properties are about sums over two ledgers. `TradeInv` says besides that a source
has one entry per stock (`LedgerSound`), and none before its document is written or cancelled
(`SourcesKnown`), so that what a document posts is all it ever moved; what each document moved in
both ledgers (`SaleTrue`, `PurchaseTrue`, `ExpenseTrue`); what an open transaction read and still
holds (`TxTrue`), without which a refund would not match its sale; and that the stock and the
shortfall of an incident are made up for by the corrections linked to it (`Explained`). A step posts
for one source, and every other document stays as it was.

**Runtime_proofs.** `ExportsAccounted` and `NoSessionOutlivesReset` are invariants and `OverForGood`
holds of every step, however many processes die. The lease of a job is the number of its claim, so
no two claims of it are alike (`ClaimsApart`), and a handler holds the row of its job from the moment
it found the lease to be its own: what it has found and done stays true (`HandlersTrue`), and the
state of a job says what became of its export (`OutcomeTrue`). The sign-ins rest on the hash, which
grows with every change, so one that is as it was when the password was checked stands for that
password (`SignInsTrue`). A by-product is `NeverHandled`: the early return of
`ReportExportService.handle` for a job that is already handled is never taken, because the lease was
checked before.

**Sums_proofs.** The sums of `Trade` and of the late recoveries are folds, which are recursive
functions on sets. The library's induction theorems take an operator as a parameter, which no
installed prover can instantiate; these lemmas do without. A law of sums that failed for some finite
set would fail for a smallest one (`Smallest`), and that one with an element taken out would be a
smaller one still. So a sum can be taken apart at any element and at any split in two, and depends
on the summands only.

Each inductive invariant was first checked by TLC on the instance of the run of its component.

**Only model-checked.** Liveness (`EverySealIsAnswered`, `EverythingEnds`), which is beyond TLAPS.
Every other property of a passing run is a theorem.

## 6. Divergences

Two are shown by a run that expects a violation.

**RF-155** (`cash_close_lost_begin`). RF-155 (`specs/001-mvp-gestion-comercial-saas/spec.md:198`)
demands that the definitive close be blocked while an offline operation that may change the
session's expected cash is pending, and the plan (`plan.md:324`) that the local freeze persist
across tabs and reloads. `cash-closing.tsx:54` lifts the freeze when the view *it last loaded* says
the session is open after an aborted attempt. The run shows a way there: an attempt is aborted and
the page reloaded; the next begin-close reaches the server, which is now CLOSING, but the answer is
lost; the user clicks again; the page still shows OPEN and the aborted attempt, so the freeze and
the kept checkpoint are dropped before `prepare` freezes again; in that gap the POS seals a sale.
The server refuses it from then on (`offline-sale-importer.ts:17`), while its own chain still agrees
with the checkpoint, so after a reload final-sync and close succeed. The sale stays on the device
without an answer. The same stale view exists in a second open cash page. `cash_close` shows that
without that loss, with one page, the protocol keeps both of its properties.

**F1** (`configuration_stranded`). RF-307 (`spec.md:351`) demands that legitimate late operations be
applied under the version they were created under. The trigger of migration 0042 (`:114`) refuses a
receipt of any epoch but the current one, and the status, structure and deletion of an item and
every change of a category advance the epoch with no barrier: what was sealed before and is still
queued is refused on every delivery.

The others were met while modelling. They are in the models as the code has them, and the properties
are stated so that they say what does hold.

* **F2** `offline-configuration-barrier.ts` (resume): a user who is refreshed lifts the freeze of the whole device while another user's authorization is still the closed grant (RF-303, `spec.md:347`; `plan.md:200`). The second user seals under it; `late` in `Configuration`, and the exception in `ClosedGrantsAreSpent`.
* **F3** `offline-configuration-barrier.ts:19`: a device still frozen by one barrier when the next begins can send no checkpoint for it, so the second never completes; a barrier has no cancellation.
* **F4** `offline-setup.ts:100`, `:108`: the retry key of a bootstrap is kept until it is installed; once the epoch advances the replayed bootstrap is refused for ever, and once the sequence changes the device answers CASH_RETRY_PENDING for ever.
* **F5** `purchase-operations.service.ts:307`: a payment reads the purchase before it locks it, so one that waited for a cancellation is recorded against a cancelled purchase; `purchases-payment-cancellation-implementation.md:7` says it is found out. `paidLate` in `Trade`; `CancelledStaysUnpaid` is the claim, which does not hold and is in no run.
* **F6** the management pages send a new `crypto.randomUUID()` as idempotency key with every call: a creation repeated after NETWORK_ERROR makes two rows. `NothingLostOrDoubled` is about one key.
* **F7** `membership-administration.service.ts:333` finds its actor among all rows of a user: a person invited again may be refused because of the revoked row.
* **F8** `membership-administration.service.ts:299` and the catalog, branch and currency commands insert their idempotency key (KEY SHARE of the organization) and then take the organization FOR UPDATE: two of them at once deadlock, and no retry follows. One is rolled back, so nothing is lost but the request.
* **F9** `report-export.service.ts:121`: a file put before its transaction failed for the last time, or before its scope was revoked, is never deleted (`REPORT_EXPORTS.md`: "La limpieza de object storage se programa en outbox al vencer cada archivo"). The exception in `ExportsAccounted`.
* **F10** `identity-email-worker.ts`: a lost lease throws out of `processAvailable` and ends the process, which is why the restart matters to `EverythingEnds`.
* **F11** the editors of customers, suppliers and registers keep the values they were filled with while the version they send is the list's current one, and so do those of items and categories while they stay open across a reload: an older value overwrites a newer one, although VERSION_CONFLICT says "cambió desde que lo cargaste". Settings and users are right, and `ActsOnWhatItShows` says so.
* **F12** the customers and suppliers pages load the first 25 rows, ignore `nextCursor`, and search only those.
* **F13** a settings page that fails to reload while a save is under way may come back with the old version; hence the exemption in `ShowsWhatItDid`.

* **F14** `opaque-delivery.ts:46` sends the knowledge the device signed with every push, and `revocation-checkpoint.ts:20` refuses knowledge of a user whose membership is active. After a reactivation every push of that device fails, those of other users too, until that membership ends again: RF-129 (`spec.md:172`) demands that earlier legitimate operations be kept, RF-120 (`:163`) that they be synchronised. Today no page calls `OfflineRevocation.learn`; only tests do. The first disjunct of `Obstructed`.
* **F15** `historical-delivery-ingestion.ts:36` rethrows: one operation whose effect is refused (a closing or closed session, a stale epoch) fails its push each time, and `opaque-delivery.ts:50` ends the run, so that what comes after it in the order of the keys is not even examined, and the answers of the same batch are not returned. RF-120 makes no such exception. The second disjunct of `Obstructed`; F1 and RF-155 above show how it can last for ever.

Smaller: two concurrent sign-ins that both rehash refuse the second with INVALID_CREDENTIALS; two
concurrent provisionings with one request id answer PLATFORM_REQUEST_CONFLICT; a sale reads its
customer without a lock; `customer_history_references` has no writer; `OfflineConfigurationBarrier`
is used by no page, `revokeAllForUser` and `TemporaryObjectService.create` by nobody; the status
RUNNING of an export is never visible; payment methods have no version; a device that does not
follow its protocol can leave the successors of a refused operation waiting for ever, until it is
declared unrecoverable; `recover_owner` (migration 0028) serves an organization without an active
owner, which `OwnerRemains` shows the commands never produce.

## 7. What is not modelled, and why

* Cryptography: signatures, encryption, hashes and certificates are taken to work; an envelope that does not open never reaches `ingest`. So are the registration of a device's keys and the comparison of password hashes and tokens.
* Time: a lease, a token or a file may expire at any moment; validity intervals of grants are part of `genuine`.
* Tenancy: one organization; row-level security separates the others.
* Branch scopes: in `Commands` there is one branch and everybody has it; in `CashSession` the scopes are those of the instance and do not change; in `Exports` the reader's scope may be taken away.
* Replays of completed commands: steps that change nothing, except in `CashClose`, where their answers matter.
* In `CashClose` the barrier's lease is left out: the barrier's transactions are atomic there, and their races are the subject of `OfflineDevice`.
* Data: prices, taxes, rounding, quotes, receipts, searches, reports, dashboards and thresholds are computed from committed data and decide nothing that is modelled. Amounts are naturals. The prices a sale is confirmed with are left out.
* Drafts and the encrypted record store of the device, whose content no decision reads.
* Rate limits, cookies, security headers, observability, audit: no state a property depends on.
* The point-of-sale, purchase, expense, transfer, adjustment, report and payment-method pages only send commands. Invitations, the deactivation of a branch and lists longer than one answer are left out of `Pages`.
* Backup, restore, migration tools, deployment, provisioning scripts: I/O around tools.
* The back-off of retries: a failed job may be claimed at once, which allows more than the code does.

## 8. What could come next

Models of drafts, of branch scopes that change under a command, and of the registration of a device.
