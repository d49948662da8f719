# CoopEnergie: a TLA+ model of its core

CoopEnergie lets the members of an energy cooperative pay contributions by
mobile money, vote on proposals and withdraw money. A NestJS backend keeps the
records in PostgreSQL; CamPay, an external provider, holds and moves the money;
contracts on Celo repeat the accounts and the votes, and the backend reaches
them for its members through a gas relayer.

This directory models that core in TLA+, and around it the memberships, the
vendors' subscriptions and the offline queue of the mobile app. TLC checks it on
small instances, and TLAPS proves its safety properties and refinements for every
instance.
`PROJECT.json` lists the components, the runs, which source lines each
definition stands for, the hazards and the theorems.

File names below are relative to `src/apps/backend/src/` unless they end in
`.sol` (those are in `src/contracts/src/`) or start with `src/`.

## 1. Inventory

### What there is

| Part | State it keeps | Operations | Talks to |
|---|---|---|---|
| Withdrawals (`modules/withdrawals`) | `WithdrawalRequest` (status, `campayReference`), the status of its `Proposal`, `Cooperative.confirmedBalanceXAF`, audit rows | create; evaluate and process on each ballot; disburse; webhook | Votes (called by), CamPay, vault service |
| Votes (`modules/votes`) | `Vote` (one per user and proposal), `Proposal.status` | cast, with deletion of the ballot on an error | Withdrawals, relayer |
| Proposals (`modules/proposals`) | `Proposal`, its id on the chain | create, computed status | relayer |
| Payments (`modules/payments`) | `Payment` (unique idempotency key), last poll times in memory | initiate, webhook, poll | CamPay, Contributions |
| Contributions (`modules/contributions`) | `Contribution` (`paymentId` unique, or none), the balance | create for a payment or directly, confirm, mark failed | relayer |
| Relayer (`blockchain/relayer.service.ts`) | none of its own; nonces are on the chain | contribute, create a proposal, vote | GasRelayer |
| Event listener (`blockchain/event-listener.service.ts`) | next block to scan | poll six kinds of events and write what they say | contributions, proposals, votes |
| Contracts | nonces, whitelist (`GasRelayer.sol`); accounts, proposals (`CooperativeVault.sol`) | execute; contribute, createProposal, vote, releaseFunds; deploy | one another |
| Cooperatives, memberships, invitations | rows, number of admins | create with a vault; join, leave, promote; invite, accept, revoke | factory service |
| Platform administration and settings | suspensions, withdrawal lock, thresholds | set and clear | withdrawals |
| Vendors (`modules/vendors`, `tasks/vendor-expiry.task.ts`) | status and registration reference of a vendor, subscription records, cached rating | register, pay once or subscribe, webhook; nightly expiry | CamPay, by way of the payments controller |
| Mobile offline queue (`src/apps/mobile/lib/sync`, `lib/offline`) | queued actions on the device, their attempts | enqueue, process, retry, mark as failed | backend |
| The rest: users, authentication, guards, GraphQL, reports, ledger, mail, notifications, wallets, screens | rows read or written by one statement, or none | | |

### What is hard about it

Nothing in the backend holds a lock: each request is an async function that
yields at every `await`, so any two requests interleave between any two
database statements, and a transaction protects only the writes inside it, not
the reads before it. The hard behaviours follow from that:

* **Decisions on stale reads.** `cast` computes a status and writes it in a later
  statement; the decision on a withdrawal uses three queries; a webhook decides
  whether a success is new before the transaction that books it.
* **A provider that cannot be rolled back.** A transfer whose reply is lost, or
  whose booking fails, may have been carried out; the call that asks for a
  collection is repeated, so that somebody is asked twice; webhooks come late,
  repeated, contradicting one another, and with interim states.
* **Two records of one thing.** Votes and accounts exist in the database and on
  the chain; the event listener writes the second over the first.
* **One relayer for all.** Nonces are read long before the transaction is mined;
  retries leave the first transaction in the pool.
* **Errors that are swallowed or that arrive after the point of no return.** The
  notifications after a booking are in the try block of the transfer.
* **Restarts.** No job resumes what a handler was doing, and the event listener
  begins after the latest row it finds.
* **Devices that come and go.** The mobile app posts again what it is not sure of,
  from several runs at one time, to a backend that reads no idempotency key.

### What makes each part correct

* Withdrawals: money moves only with the mandate of the vote; what was rejected
  is never paid; what was paid is booked, once; a disbursement gets an outcome.
* Payments and contributions: a payment becomes a contribution only when its money
  was collected; each contribution, paid or made directly, counts once on the chain
  and once in the balance.
* Relay and contracts: each signed request takes effect at most once; accounts
  and tallies are those of the accepted calls; a release has a majority behind it.
* Event listener: it records every event, and confirms only what the vault counted.
* Memberships: a cooperative keeps an admin; a closed invitation admits nobody.
* Vendors: an account is open because of money or a waiver, and ends when what was
  paid for has ended.
* Mobile queue: nothing that is queued is dropped, each action is settled, and
  takes effect as few times as the retries allow.

`hazards` in `PROJECT.json` gives the places in the code where each can go wrong
and the property that watches it.

## 2. Modules

| Module | Models | Extends |
|---|---|---|
| `Governance` | the two tallies: `computeStatus`, the verdict of `evaluateWithdrawalThreshold` | |
| `Withdrawal` | withdrawals, the ballots that decide them, disbursement, webhooks, restarts | `Governance` |
| `Disbursement` | what a disbursement promises: agreed, ordered, accepted, booked | |
| `WithdrawalRefinement` | the mapping of `Withdrawal` to `Disbursement` | `Withdrawal` |
| `CooperativeVault` | the contract of one cooperative, as guards and successor vaults | |
| `Relay` | RelayerService, GasRelayer, CoopFactory and the pool of transactions, acting on the vaults | `CooperativeVault` |
| `Payments` | collections and the contributions they become; the listener as one step | |
| `Collections` | what collecting promises: collected, recorded, counted once, booked | |
| `PaymentsRefinement` | the mapping of `Payments` to `Collections` | `Payments` |
| `EventListener` | the polling loop next to the requests of `Payments`, with blocks and ledger rows | `Payments` |
| `VendorSubscriptions` | accounts of vendors, their payments and the nightly expiry | |
| `Memberships` | one cooperative: creation, members, roles, invitations | |
| `MobileSync` | the offline queue of a device, its runs, the backend it posts to | |
| `WithdrawalProofs` | theorems about `Withdrawal` and that it implements `Disbursement` | `WithdrawalRefinement`, `TLAPS` |
| `PaymentsProofs` | theorems about `Payments` and that it implements `Collections` | `PaymentsRefinement`, `TLAPS` |
| `EventListenerProofs` | theorems about the listener and that it implements `Payments` | `EventListener`, `PaymentsProofs`, `Induction` |
| `RelayProofs` | theorems about `Relay` and its vaults | `Relay`, `Induction` |
| `MembershipsProofs`, `VendorSubscriptionsProofs` | theorems about these modules | the module, `TLAPS` |
| `MobileSyncProofs` | theorems about `MobileSync` | `MobileSync`, `Induction` |
| `Induction` | least numbers, smallest sets and sums, for the proofs | `TLAPS` |
| `MCWithdrawal`, `MCRelay`, `MCPayments`, `MCEventListener`, `MCVendorSubscriptions`, `MCMemberships`, `MCMobileSync` | symmetry, surroundings and values for TLC | the module they are named after; `MCWithdrawal` and `MCEventListener` also the refinements |

`Collections` and `Disbursement` describe no code: they say what members may
expect of it, without handlers, errors or restarts.

### Withdrawal

A ballot being handled is a record `cast[h]` whose `pc` names the next
statement; each action is one database statement, one transaction, or one call
of the provider. The path of a ballot is

    insert -> tally -> write -> evaluate -> members -> count -> decide
           -> approve -> order -> call -> commit -> after -> finish
           -> reject -> finish
                           call/commit/after -> fail -> finish

`insert` to `write` and `finish` are `VotesService.cast`; `evaluate` and `members`
are the two queries of `getEligibleVoters` (who has a confirmed contribution; who of
them is a member), `count` and `decide` the two counts of
`evaluateWithdrawalThreshold` (a `Promise.all`, answered in either order); `approve`
and `reject` are the transactions of `processWithdrawalOnVote`; the rest is
`disburse` with its catch block. `CastRollback` is the outer catch of `cast`,
which deletes the ballot, before the processing (`rollback`, or a voter who has left)
or after it (`answerError`); `ProcessingError` the inner one, which only logs.

Each step of `disburse` fails in its own place. The order can be refused, or its
reply lost (`CallTransfer`); the booking transaction can throw although the order was
accepted (`CommitDisbursed`, counted in `unbooked`); so can what follows it
(`AfterCommit`). All three end in the catch block, and the catch block's own
transaction can fail (`FailDisbursement`), which leaves the request in `DISBURSING`.

The electorate, contributors who are members, changes both ways: members
contribute (`ConfirmContribution`), are removed, leave and join
(`ChangeMembership`). No vote prevents it, and ballots and contributions stay.

A webhook reads the request by the reference it brings (`HookRead`) and then
writes (`HookSuccess`, `HookFailure`), with whatever happened in between.
`transfer[a]` is what the provider did with the order of reference `a`.
References are made from `Date.now()`, so each disbursement takes a new one.

The surroundings are chosen per run by the constant `Environment`, so that a
property that needs some of them absent says so in its configuration. Its
members are documented in the module.

Reductions, each also stated at the definition:

* The checks of a ballot (proposal pending, no ballot yet) are one step. The
  insertion that follows checks uniqueness again, by the database's index.
* `createWithdrawalProposal` is one step: no other handler can refer to the
  rows before they are created.
* All withdrawals have one amount, so the listener's look-up by title can hit
  any of them.
* A user with a confirmed contribution keeps it (`FAILED` is written only to a
  contribution whose handler was still at work, which matters for `Payments`), but
  whoever is not a member has no say.
* Percentages are compared exactly. The code divides in floating point, which
  gives the same answer for integer percentages and fewer than 50 voters; the
  first difference is 29 of 50 at 58 %.

### CooperativeVault and Relay

`CooperativeVault` has no variables: a vault is a record, each function of the
contract a guard (its `require`s) and the vault it leaves. `Relay` has one vault
per cooperative, the nonces and the whitelist of `GasRelayer`, the pool of the
relayer's transactions in order, and for each call of `RelayerService` where it is:

    new -> submit -> wait -> confirmed      (or failed)

`RelayBegin` reads the nonce and fixes the deadline. `RelaySubmit` simulates on
the current state and puts a transaction into the pool; it may be repeated, which
is `withRetry`. `Mine` executes the first transaction of the pool, or reverts it,
and in either case completes the relay that waits for it, because the code does
not look at the receipt's status. A call that the vault refuses spends its nonce.

`removeWhitelisted` is left out: the owner of `GasRelayer` is `CoopFactory`, which
never calls it. A cooperative without a vault relays nothing and is not in the
module.

### Payments and EventListener

`handler[h]` is an initiation, a webhook, a poll, or a direct contribution
(`ContributeDirectly`: `POST /contributions`, which the offline queue of the phone
uses). A direct one, a member of `Direct`, has no payment and is not collected; from
`Record` on it goes the way of the others, to the vault and into the balance. The
unique idempotency key and the unique `paymentId` are the guards of `InitiateCreate`
and `Record`. `CampayService.request` calls again after a time-out or a status that
may pass: in `InitiateCollect` each call may reach CamPay, which then asks the member
once more. `prompts` counts these, and `answers` holds what the member said to them,
so that one payment can be both paid and refused. A relay has
three outcomes, which `Relay` justifies: it returns and the vault counted; it
returns and the vault did not; it throws, and the vault counted or not. The
listener confirms any contribution without a hash once an event exists, because it
looks only at the member and the amount, which the module makes equal for all.

In `Payments` the listener is one step, `SyncContribution`. `EventListener` is the
loop of `pollEvent` with its local variables: `Poll` asks for the events from
`next` to the latest block, `RecordEvent` writes a ledger row and looks for a
contribution, `UpdateContribution` writes it later, whatever a request did in
between, and `PollError` ends the round. `PollSwallowed` is the error that
`getEventLogsRobust` answers with an empty list. The requests write rows of the
same ledger (`ConfirmInLedger`), and `RestartListener` begins after the latest of
them. `lost` collects the events that the last two pass over. Each relayed
transaction has a block of its own; only the loop over `ContributionMade` is there.

`EventListener` implements `Payments` (`ImplementsPayments`): all that the loop
does to contributions is what the one step allows. So what is checked of
`Payments` holds with the real listener.

### VendorSubscriptions

A request runs `waive` or `reference -> collect` for a registration, `grant` or
`subscribe -> collect` for a subscription; a webhook reads first (`HookRead`) and
then runs the transaction of `activate`, `cancel` or `register`. Records are found
by their CamPay reference, which is made from `Date.now()` and taken to be new.
The nightly task is its query (`ExpiryBegin`) and one transaction for each record
found (`ExpireOne`); a mail that throws ends it. As in `Payments`, one initiation can
ask the vendor several times (`prompts`), and the refusal of one prompt may be told
after the payment of another: `Cancel` then hits the record of an active vendor.

* The fees and the payment model are found as they happen to be, so both a waiver
  and a payment are always possible.
* The payments controller hands over a webhook that matches no contribution. It takes
  the field `reference` before `external_reference` (`readReference`), so that a
  payload with CamPay's own identifier in `reference` finds no vendor and is answered
  with an error. Which fields CamPay sends is not in the repository. `HookRead` is a
  webhook that finds something to do; one that finds nobody changes nothing, like one
  that never comes, and since no webhook is obliged to come, everything that is
  checked and proved holds for either kind of payload. That a vendor who paid is ever
  activated is therefore not stated.
* `Collect` chooses the number of prompts at once: nothing is stored between the calls.
* No code sets the status `SUSPENDED`.
* Two things the code does that no property forbids: a success that is delivered
  again extends the subscription, and a vendor whose older record expires becomes
  `SUBSCRIPTION_EXPIRED` although a later one is active.

### Memberships

`handler[h]` is a request with what it has read so far. Each query is a step, so
`ReadTarget`, `CountAdmins` and `DeleteMember` of `removeMember` lie apart, as do
the three reads and the transaction of `acceptInvitation`. `Abort` ends a request
at any point: it is refused, a query fails, or the server stops.

* The guards of the routes read the requester's role once more before the services
  do; they refuse nothing that the services would not.
* A membership with the role `PLATFORM_ADMIN` could be given only by somebody who
  has one, so there is none; `VENDOR` is handled like `MEMBER`. Because an admin is
  never demoted, the count of admins in `changeRole` (lines 214-231) is not reached.
* A deployment that fails leaves the cooperative without a vault and its name taken.

### MobileSync

`run[r]` is one run of `processQueue` with the actions it has still to post. The
queue is stored synchronously, so `Failed` (count, look, mark) and `Delivered` are
one step each; a run yields while it waits for a post. `late` are the requests the
app has given up, which the backend may still carry out. The backend ignores the
`Idempotency-Key` header; only a second ballot on a proposal is refused.

* The network is not a variable: at each step there may be one or not.
* Runs start whenever there is something to do: each mounted screen and the app
  have a listener of their own, and nothing keeps two runs apart.
* A ballot whose reply was lost may be marked as failed although it counted: its
  repetition is refused each time.
* Only the action types for which there is an endpoint are ever queued.

## 3. Runs

| Run | Instance | Shows |
|---|---|---|
| `withdrawal_mandate` | 3 members of whom 2 contributed, 2 handlers, 2 orders, 1 webhook, 50 %, quorum 1 | `Mandate`, `RejectedNeverOrdered`, `OneOrderPerBallot`, `BookedMeansAccepted`, types; `Withdrawal` implements `Disbursement` |
| `withdrawal_webhooks` | 2 members, 2 handlers, 2 orders, 1 webhook, 60 %, quorum 2, fairness | `DisbursementSettles`, `DisbursingIsHandled` |
| `withdrawal_books` | 2 users of whom 1 contributed, who contribute, leave and join; 2 handlers, 2 orders, no webhook; errors before, in and after the booking | `BooksMatchTransfers`, `OneOrderPerBallot` |
| `withdrawal_paid_twice` | 3 contributors, 2 handlers, defaults (60 %, quorum 3), no failure | a violation of `TransferredOnce` |
| `withdrawal_passive` | 2 contributors and 2 others, 1 handler, no failure | a violation of `PassiveMembersCannotBlock` |
| `relay_chain` | 2 members, 1 vault, 3 relays, 2 submissions each, 1 proposal | accounts, tallies, releases, at most one execution, settled relays |
| `relay_in_sync` | 2 relays, 1 submission each | a violation of `ConfirmedIsAccepted` |
| `payments` | a payment and a direct contribution, 2 requests at a time beside the listener's loop, 2 calls of CamPay, all failures | `PaymentWasCollected`, `PromptsAreBounded`, `CountedOnce`, `BalanceIsConfirmed`, `EventsAreRecorded`; `EventListener` implements `Payments`, and both implement `Collections` |
| `payments_acknowledged` | 1 payment, 2 handlers, relays that throw | a violation of `AcknowledgedIsNotFailed` |
| `vendors` | 1 vendor, 2 references, 2 requests, 2 calls of CamPay, 2 webhooks for each reference, restarts, fairness | `ActivatedMeansPaid`, `StatusFollowsRecords`, `ExpiredWhenDue`, `WaitingVendorHasReference`, `LapsedVendorsExpire` |
| `memberships` | 2 users, 2 invitations, 2 requests, each user joins up to twice | `LastAdminLostByRaceOnly`, `AdminsDemotedByRaceOnly`, `ClosedStaysClosed`, `AdmissionsAreBounded` |
| `mobile_sync` | 3 actions of which two are ballots on one proposal, 2 runs, 2 attempts, 1 stop, fairness | `NothingDropped`, `EffectsAreCounted`, `EarlierBallotFirst`, `EventuallySettled` |

`CHECK_DEADLOCK FALSE` everywhere: the system rests when every member has voted,
every payment is settled, every relay is over, the queue is empty, or a bound is
reached. Runs without a liveness property use the symmetry of whatever is
interchangeable.

### Bounds, and why they are enough

* **Two handlers.** The races are between a read and a write of one handler and a
  write of another, so two at a time show them; a third adds only repetitions.
  Handlers are reused, so more than two ballots are cast in a run. `payments` has
  two besides the listener, which is a third that never ends.
* **One payment and one direct contribution** meet in the balance, the vault and the
  listener, which cannot tell them apart. `Attempts` of CamPay is 2 of the code's 3 in
  the long runs: one call that is repeated, one that is the last.
* **Two users** in `withdrawal_books`, of whom one has contributed: the electorate is
  any of none, one and two users in turn. `Share` is 0: the amount of the balance has no
  part in what is checked, and a contribution changes the electorate alone.
* **`answerError` and `catchError`**: the first makes `OneOrderPerBallot` false, the
  second `DisbursingIsHandled`, so `withdrawal_books` has neither. `withdrawal_mandate`
  has the second. The first is in no run: it lets ballots be cast again without end,
  which multiplies the states; `BooksMatchTransfers`, `DisbursingIsHandled` and
  `BookedMeansAccepted` are proved with it.
* **`withdrawal_mandate` without `bookingError`**: the request is left as by a lost
  reply, which is there; `withdrawal_books` and `withdrawal_webhooks` have it.
* **Two orders (`Attempts`).** One to overwrite the reference of the other, and
  a second to be made twice. When they are used up no disbursement starts and
  the handler stays at `order`; nothing checked depends on its going on.
* **`MaxDebits`** stops the reading of webhooks for a request once it was booked
  that often, because every late failure followed by a success would book again.
  It is 1 where the property is about the time up to the booking, and 2 in
  `withdrawal_webhooks`, where a webhook comes again after the booking.
* **Three members, two of whom contributed**, is the smallest electorate in which
  passive ballots, the members' tally and the verdict differ.
* **`BallotFloor`** is 5 in the contract. `relay_chain` sets it to 0, so that one
  ballot resolves a proposal and a second can come too late; with 5 there
  would have to be six relays. The guards and the comparison are the contract's.
* **`MaxTime` 1, `Lifetime` 0**: the deadline of a request passes before or after
  any step. `MaxTries` 2 of the code's 3: one retry makes the duplicate.
* **One vendor, two references**: vendors share no state, and two references are
  enough for a replaced registration, and for a record that expires while another
  is active. `MaxTime` 2 lets a cycle of one end and be renewed after it;
  `MaxDeliveries` 2 is a repetition.
* **Two users, two invitations, `MaxRows` 2**: two admins can remove one another,
  a member can be promoted while somebody removes or demotes them, leave, and come
  back by the same or another invitation.
* **`MaxRetries` 2 of the code's 5**: one attempt that is repeated and one that is
  the last. Two runs can overlap, in which case each counts its attempts on the
  same action, so that `attempts` can pass `MaxRetries` by one.

### Fairness

* `Withdrawal`: `FairSpec` is weak fairness of `CastStep(h)` alone: a handler that
  has started is resumed by the event loop, and the call of CamPay ends by its own
  time-out. Nothing is assumed of members, of the provider, of webhooks, of the
  listener. `withdrawal_webhooks` has no restart and no error of the catch block,
  since either loses the outcome and nothing in the code resumes a disbursement:
  under them, `DisbursementSettles` is not promised by the code.
* `VendorSubscriptions`: weak fairness of `ExpiryBegin` (the scheduler starts the
  task each night) and strong fairness of `\E r : ExpireOne(r)`: restarts may cut
  its runs short, but not each one before its first transaction. That a mail throws
  after every first record is allowed, and nothing is assumed of webhooks or vendors.
* `MobileSync`: weak fairness of starting a run (the member comes back to the app
  now and then) and of the steps of a run, since each request ends by its own
  time-out. Nothing is assumed of the network or the backend, so an action is
  settled by being delivered or by being marked as failed.

### Refinement

| Detailed | Abstract | What the mapping says |
|---|---|---|
| `Withdrawal` | `Disbursement` | agreed is the verdict on the stored ballots, an order has its request as its purpose, accepted is what CamPay took, booked is a debit. Requires a stable electorate, as `Mandate` does. |
| `Payments` | `Collections` | collected is what the member paid, recorded an existing contribution, the tally the vault's, the total the balance; a contribution in `Direct` is recorded without having been collected |
| `EventListener` | `Payments` | the same variables; blocks, rows and the loop are hidden |

The abstract specifications have no step that undoes anything, so each refinement
says that nothing is taken back, in addition to the order of the steps.

### The four violations

Each checks a sentence of the implementation addendum
(`src/docs/_extracted/CoopEnergie-Implementation-Addendum-EN.txt`) against the code;
`findings` quotes both.

1. `TransferredOnce`: two ballots that are handled together both approve, and
   each orders a transfer under a reference of its own.
2. `PassiveMembersCannotBlock`: the members' tally closes the proposal before the
   contributors have decided.
3. `ConfirmedIsAccepted`: a reverted transaction returns its hash like any other.
4. `AcknowledgedIsNotFailed`: a failed contribution keeps a later webhook from
   trying again.

What holds next to them limits them. A withdrawal can be ordered more than once,
but never without the mandate of the vote and at most once per ballot. A relay can
report too much, but never runs twice. A contribution can be lost, but not doubled.

Two more things that the code does are visible in the properties and have no run of their
own. A direct contribution enters the vault and the balance with no money collected for
it, although the same addendum says of the two accounts that "They are always in sync":
`PaymentWasCollected` and `Collections` exempt exactly these. And a vendor who pays one
prompt and refuses another of the same reference stays `ACTIVE` with a cancelled record,
which the nightly task never finds: `StatusFollowsRecords` and `LapsedVendorsExpire` exempt
exactly such records (`Overturned`).

### Mutants

Every property of a passing run has a mutant in `PROJECT.json`: a definition of
the code changed as a plausible bug would change it (the unique index of `Vote`
gone, the provider's answer not looked at, an uncaught error, a verdict over all
ballots, the nonce spent only on success, a poll that leaves a range it has not
recorded, a record expired without its vendor, an attempt that is not counted, a key
that is not unique, a ballot deleted after it ordered), for which the run reports the
property violated. The mutated forms are beside the originals, marked "Mutant of".

## 4. Proofs

TLC checks small instances; the theorems hold for every value of the constants that
meets the assumptions in the modules. These say that the sets that are counted are
finite (`Users`, `Keys`, `Refs`, the `Members` and the `Handlers` of the modules that
count them, the `Runs` of a device), that the first members and contributors are users
and direct contributions are keys, that amounts and bounds are naturals, that the
threshold is in 1..100, the quorum, `MaxTries`, `MaxRetries`, the `Attempts` of
`Payments` and the cycles are positive, that ballots are actions, that an environment has only the members that are
documented, and that `None` is none of the values it stands
in for. They are named, and TLC evaluates them in every run.

Every invariant and every action property that a passing run checks is stated by a
theorem, and each of the three refinements is proved; `TypeCorrect`, in each
module but `EventListenerProofs` (`ListenerTypeCorrect`), says that variables keep
their types.

| Module | Theorem | Statement |
|---|---|---|
| `WithdrawalProofs` | `BookingsAreAccepted` | `Spec => []BookedMeansAccepted` |
| | `BallotsOrderOnce` | `Spec => []OneOrderPerBallot` |
| | `OrdersAreMandated` | `Spec => []Mandate` |
| | `RejectionsAreNeverOrdered` | `Spec => []RejectedNeverOrdered` |
| | `DisbursementsAreImplemented` | `StableElectorate => (Spec => ImplementsDisbursement)` |
| | `DisbursementsAreHandled` | no restart, no error of the catch block `=> (Spec => []DisbursingIsHandled)` |
| | `BooksAreMatched` | no webhook, lost reply or restart `=> (Spec => []BooksMatchTransfers)` |
| `PaymentsProofs` | `PaymentsAreCollected` | `Spec => []PaymentWasCollected` |
| | `PromptsHaveALimit` | `Spec => []PromptsAreBounded` |
| | `PaymentsCountOnce` | `Spec => []CountedOnce` |
| | `BalancesAreConfirmed` | `Spec => []BalanceIsConfirmed` |
| | `CollectionsAreImplemented` | `Spec => ImplementsCollections` |
| `EventListenerProofs` | `EventsKeepRows` | `ListenerSpec => []EventsAreRecorded` |
| | `PaymentsAreImplemented` | `ListenerSpec => ImplementsPayments` |
| | `ListenerKeepsCollections` | `ListenerSpec => ImplementsCollections` |
| `RelayProofs` | `RequestsExecuteOnce` | `Spec => []ExecutedOnce` |
| | `ConfirmationsAreFinal` | `Spec => []ConfirmedIsSettled` |
| | `ReleasesHaveMajority` | `Spec => []ReleasedByMajority` |
| | `TalliesCountVoters` | `Spec => []TalliesAreVoters` |
| | `AccountsAreEvents` | `Spec => []AccountsMatchEvents` |
| `MembershipsProofs` | `LastAdminLostToRace` | `Spec => LastAdminLostByRaceOnly` |
| | `DemotionsAreRaces` | `Spec => AdminsDemotedByRaceOnly` |
| | `ClosedInvitationsStayClosed` | `Spec => ClosedStaysClosed` |
| | `AdmissionsHaveBound` | `Spec => []AdmissionsAreBounded` |
| `VendorSubscriptionsProofs` | `AccountsArePaid` | `Spec => []ActivatedMeansPaid` |
| | `RecordsExplainStatus` | `Spec => []StatusFollowsRecords` |
| | `WaitingVendorsHaveReferences` | `Spec => []WaitingVendorHasReference` |
| | `ExpiriesAreDue` | `Spec => []ExpiredWhenDue` |
| `MobileSyncProofs` | `ActionsAreKept` | `Spec => []NothingDropped` |
| | `EffectsAreBounded` | `Spec => []EffectsAreCounted` |
| | `BallotsInOrder` | `Spec => []EarlierBallotFirst` |

`Induction` holds what several of them need: that a set of naturals has a least
number and a collection of finite sets a smallest one, and from these how a sum over
a finite set changes with its elements.

Few of the properties are inductive. What each needs besides, and why:

### Withdrawal

* **`BookedMeansAccepted`**: a booking comes from a handler at
  `commit` or a webhook at `apply`. `BookingInv` adds that such a handler's order
  was made for its request and accepted, that a webhook's key refers to an accepted
  order of its request, and that a stored reference is one of an order for that
  request, which survives every overwriting of `campayReference`.
* **`OneOrderPerBallot`** needs that at most one handler works for a ballot once it
  is inserted. `BallotInv` ties each handler past `insert` to its stored ballot,
  makes two such handlers of one ballot equal, and says that a ballot whose handler
  has still to order has no order yet. It uses the unique index (`CastInsert`) and
  that no ballot is deleted once its order may exist. So it excludes `answerError`, but
  neither a changing electorate nor the deletions before the processing, of which the one
  for a voter who has left (`findById` throws) is such.
* **`Mandate` and `RejectedNeverOrdered`** rest on `VerdictIsFinal`: with a fixed
  electorate, more ballots never turn an approval into anything else, nor a
  rejection. `VerdictInv` then says that a handler past its decision agrees with
  the verdict on the stored ballots, that an order implies approval, and a request
  recorded as rejected implies rejection. Because the two counts are separate
  queries, it also bounds the counts in progress: a count taken earlier is at most
  the present one, and a verdict on such mixed counts is still the verdict of the
  stored ballots. That is where the non-atomic reads are shown to be harmless.
* **`ImplementsDisbursement`** takes its hypotheses from `VerdictInv` (an order is
  preceded by the agreement) and `BookingInv` (a booking by an acceptance), and shows
  of each action which one of the abstract steps it is, or that it is none.
* **`DisbursingIsHandled`** is inductive under its condition: each write of
  `DISBURSING` leaves its handler at `call`, and what another handler or webhook
  writes to the request is another status. With a restart, or an error in the catch
  block itself, it is false.
* **`BooksMatchTransfers`**: `BooksInv` adds that a handler about to call has an order
  of its own that the provider does not know of, and one about to book an order of its
  own that is not among `unbooked`, so that each acceptance is one booking to come, or
  one booking transaction that failed. Those are counted and not excluded: they are
  the only orders that the books miss. The condition, no webhook, no lost reply and no
  restart, is weaker than that of the run (the answer and the catch block may fail,
  too); each of the three can book late, or never.

### Payments and EventListener

* **`PaymentWasCollected`**: `MoneyInv` adds that whoever is past reading a success works
  for a payment that the member paid, or for a direct contribution.
* **`PromptsAreBounded`**: `PromptInv` says that one request at most asks for a payment,
  that it has asked no more often than it has tried, and tries less than `Attempts`
  times, and that nobody was asked before the payment was created. It rests on the
  unique idempotency key.
* **`CountedOnce`**: `CountInv` says that a contribution has one creator at a time,
  and that it has counted nothing while it has still to relay. It rests on the unique
  `paymentId`.
* **`BalanceIsConfirmed`**: a handler that is about to book does so for a contribution
  that may be marked as confirmed by the listener already. `BookInv` bounds the balance
  by the contributions that are confirmed and have no creator any more (`Settled`).
* **`EventsAreRecorded`**: `ScanInv` says the same of the events behind the poller in
  the middle of a round, and that a request knows the block of its transaction before
  it writes a row: so no row of an event appears before the event.
* **`ImplementsPayments`**: `UpdateContribution` uses what an earlier query found.
  `FoundInv` says that this is still a contribution of a counted event, and
  if a request has booked it since, one that is settled, so that the late
  write is a step that `Payments` allows. With `CollectionsAreImplemented` follows
  `ListenerKeepsCollections`.

### Relay

* **`ExecutedOnce`**: by `NonceInv` the i-th execution of a member's requests spent
  nonce i - 1.
* **`ConfirmedIsSettled`**: by `SentInv` every pooled request was executable once, or
  is settled. It is dropped only for its nonce or its deadline, and neither turns back.
* **`ReleasedByMajority`**: `TallyInv` (the two sides of a tally count its voters, and it
  is resolved exactly when it has to be) and `ReleaseInv` (what is released is approved);
  a proposal that is resolved stays as it is.
* **`TalliesAreVoters`**: `BallotInv` says of each member and proposal that there is one
  accepted ballot in the log exactly if the member is a voter.
* **`AccountsMatchEvents`** speaks of sums over sets of any size. `AccountInv` states it
  with `SumOf`, the fold of the community modules without its operators as parameters;
  an accepted contribution changes one summand of the total and adds one to its
  member's sum, and no other call touches either.

### Memberships

* **Types** need `Empty` and `Known`: nothing exists before the cooperative, and an
  invitation that a request names was issued.
* **`LastAdminLostByRaceOnly`, `AdminsDemotedByRaceOnly`**: `DecidedInv` keeps with each
  request that is about to write what its decision was based on. If that were still
  true when it writes, another admin would remain.
* **`ClosedStaysClosed`**: an invitation leaves `Pending` for good, and only an
  acceptance that read it before can still use it.
* **`AdmissionsAreBounded`**: by `BoundInv` everybody who was or may still be admitted
  by a used invitation was being handled when it was first used.

### VendorSubscriptions

* **`ActivatedMeansPaid`, `StatusFollowsRecords`**: `RecordInv` (an active or expired
  record is free or paid, and of a subscriber; the status of a vendor has its record,
  or one that was paid, refused and cancelled), `RefInv` (a reference that is of no
  record is of a registration), `VendorInv` (the stored reference is the vendor's own)
  and `HandlerInv` (what a request or webhook in progress knows stays true).
* **`WaitingVendorHasReference`** follows from `RefInv` and `VendorInv`: a reference is
  stored by the step that makes it, and it is cleared only by the steps that open the
  account.
* **`ExpiredWhenDue`**: `DeliveryInv` says that before a webhook has been delivered
  twice at most one transaction applies to its record, and what the task found is
  still overdue.

### MobileSync

* **`NothingDropped`**: by `ListInv` a run lists only what was queued, and what it has an
  answer for was carried out; nothing is known of an action before it is queued.
* **Types** bound the attempts: by `AttemptInv` a marked action is tried at most once
  more by each other run that has it in its list.
* **`EffectsAreCounted`**: `CountInv` balances, for each action, what was carried out,
  may still be, or is on its way against the counted errors, the stops, and the runs that
  wait for it or are done with it.
* **`EarlierBallotFirst`**: `PassInv` says that no run is past the earlier ballot, and no
  late request of the later one exists, before the earlier was given up or either
  has counted; `VotedInv` that at most one ballot counts.

### How they are laid out

A lemma describes what each kind of step does to the state a proof looks at
(`OrdersKept`, `StepCases`, `RunChange`, `ChangeStep`), so that the actions are gone
through once and the invariants are shown from these descriptions; then a step lemma
for each invariant, and a temporal step at the end. The strengthened invariants hold
on the instances of the runs, too, by TLC, except for `AccountInv`: its sums are
defined by an unbounded `CHOOSE`, and it says what `AccountsMatchEvents` does.

Only model-checked: the liveness properties `DisbursementSettles`,
`LapsedVendorsExpire` and `EventuallySettled`, which are out of the prover's reach
(fairness, `ENABLED`), and the four violations.

## 5. What is left out, and the plan

### Not modelled

Most of the repository is not in the modules: the screens of the web and mobile
apps, their translations, the seed data, installation scripts and generated
bindings make up more than two thirds of its lines and decide nothing that two
actors could disagree about. Modelling a screen would restate its layout. Of the
backend's service lines many are reads, mail texts and formatting. The share of
source lines that the map covers is therefore small; it is large in the services
that hold the logic. Of those, these parts are not modelled:

* **Creation of proposals.** The row, the relay, the id read afterwards
  (`proposals.service.ts:288-306`). That the id is the count after the relay, so that
  two creations can store the same one, is a hazard without a property: nothing
  limits the race.
* **Several withdrawals on one balance, thresholds that change during a vote.** The
  code compares with the balance once, at the creation, and uses whatever threshold
  it reads; no sentence of a document says what should hold.
* **The fields of CamPay's webhooks**, and whether CamPay recognises a repeated
  external reference: both are outside the repository. The modules allow either.
* **Floating point.** See the reductions of `Withdrawal`.
* **Platform administration** but for the withdrawal lock: single statements, and a
  count of platform admins that is the one of `Memberships`.
* **Reviews and the catalogue of vendors.** One aggregate read before it is stored,
  on which only a ranking depends.
* **Authentication, guards** (one read for each request, no state), **mail and
  notifications** (output; that they can throw is modelled), **reports, ledger
  views, GraphQL** (reads), **wallets and encryption** (pure functions), **S3,
  contract verification, scripts**.

`components` in `PROJECT.json` gives the status of each part.

### The plan

Every invariant, action property and refinement that a passing run checks is now
proved. What is left:

1. `StableElectorate` in the theorems about withdrawals: how much of `Mandate` remains
   when members become contributors during a vote, and whether the electorate at the
   time of the decision is a statement worth its own property.
2. Lemmas toward the liveness properties that need no fairness: that a started handler
   of `Withdrawal`, a lapsed record and a queued action always have an enabled step are
   statements about guards, though the conclusion stays with TLC.
3. The hazards without a property (`hazards` in `PROJECT.json`), where a document comes
   to say what should hold.

## 6. Running it

    tlc -workers 2 -config withdrawal_mandate.cfg MCWithdrawal.tla
    for m in *Proofs.tla Induction.tla; do tlapm $m; done

Each passing run takes less than four minutes with two workers, the
proofs of `WithdrawalProofs` between two and three and each other module less than one.
