# Formal models of Roomlog

Roomlog manages rented homes: tenants report defects, managers have vendors
repair them, and repairs are paid from a prepaid credit account, by card, or by
a transfer made outside. This directory holds TLA+ models of the parts of its
API in which several actors change the same rows, in which money moves, or in
which a message must not be lost, with the properties that make those parts
correct. TLC checks the properties on small instances; TLAPS proves all of
them but the liveness properties for every instance ("What is proved", below).

Paths below are relative to `apps/api/src` unless they start with `prisma`.

## The system

| Component | Code | State it keeps | Modelled in |
|---|---|---|---|
| Credit account and ledger | `credit/prisma-credit-command.repository.ts`, `prisma/migrations/20260714120000_vendor_credit` | balance, append-only ledger rows, automatic payment policy | `CreditLedger`, promise in `AppendOnlyLedger` |
| Payment request of a repair | the same repository and `roomlog/prisma-vendor-workflow.repository.ts` | completion reports, decision, request status, cost, attempts, receipts, announcements | `VendorPayment`, promise in `PaymentObligation` |
| Card payment of a repair | `credit/repair-payment-order.service.ts` and its repository | orders, the open key of a request | `RepairPaymentOrder` |
| Payment provider | `payment/toss-payment.gateway.ts` (the provider is external) | the provider's payment | `TossPayments` |
| Card top-ups and Gara payouts | `credit/credit.service.ts`, the credit repository | top-up orders, registrations, payouts | `CreditTopup`, `GaraPayout` |
| Event outbox | `domain-events/prisma-domain-event.repository.ts` | one delivery per event and consumer, with a lease | `DomainEventOutbox` |
| Notification dispatcher | `domain-events/domain-event.dispatcher.ts`, `realtime/realtime.gateway.ts` | a poll loop, the sockets of its process | `NotificationDispatch` |
| Completion credit worker | `roomlog/completion-credit-delivery.worker.ts` | a poll loop | `CompletionCredit` |
| Agent tool gate | `agent-tools/` | one row per tool call, one active key per principal | `AgentToolAction` |
| Vendor workflow of a ticket | `roomlog/prisma-vendor-workflow.repository.ts`, request of a vendor in `roomlog/prisma-tenant-vendor-connection.repository.ts` | ticket, repairs, estimates by version, schedule, reports and decisions | `VendorWorkflow` |
| Direct handling and the ticket's status | `roomlog/roomlog.service.ts`, the same repository | the manager's own handling, transitions of a ticket | `DirectHandling` |
| Trade contracts and their rooms | `trade/`, `roomlog/services/roomlog-contract.domain.ts` | contracts and listings, the tenant's contract and room, each in memory, file and database | `TradeContract` |
| Writing a store behind its memory | `roomlog/prisma-store-projector.ts`, `trade/trade-store.projector.ts` and the queues of the two services | a queue of snapshots, counters of what was written | `StoreProjection` |
| Vendor activation, search of vendors | `roomlog/prisma-vendor-activation.repository.ts`, `roomlog/prisma-manager-vendor.repository.ts` | invitations, connections | planned |
| Reconstruction orchestrator, splat assets | `reconstruction/`, `splat-asset/`, `scripts/reconstruct/remote/` | scans and their jobs on one GPU | `ReconstructionOrchestrator`, `ReconstructionJob`, `SplatAsset` |
| Mesh conversion of furniture | `tenant-furniture/` | the conversion's state | planned |
| The rest | listings, map, market, furniture catalog, auth, bills, messages, reports, the web and iOS clients, `services/` | | not modelled, see below |

How they interact. A **ticket** is given to a vendor by the manager or the tenant,
or handled by the manager in person. The vendor's **estimate** is approved, the
work is done and reported, and the report fixes the price that is billed. The
manager's or the tenant's **approval** of a completed repair creates or releases
a **payment request**. A manager's approval commits together with an **outbox**
row that asks the **credit worker** to evaluate the request: to pay it from the
account if the policy allows, or to leave it to the manager. The manager may settle it from credit or record a transfer; the
tenant may declare one, which the vendor confirms; either may open a **card
order**, which blocks the other ways while it is open. Every paid state
enqueues a notification, which the **dispatcher** emits over sockets. The
account is filled by **top-ups** and also emptied by **Gara payouts**. All of
them share `CreditAccount` and its ledger, and both card flows share the
gateway. The **agent** reaches these operations only through its gate. Apart from
these, an accepted **trade contract** takes its listing off the market and gives
the tenant the listing's room, which is how a tenant comes to have tickets and
bills; two services do that together, each with a store of its own in memory and
a queue that writes it to the database.

What is hard about it:

* Every settlement of a request is reachable from several handlers, a worker
  and retries of each. What keeps them apart is a row lock, a status guard, an
  idempotency key or an open order, and a different one each time.
* A card is captured by someone else, at a time the server does not see. The
  gateway stops waiting after ten seconds, and any process may restart between
  the claim, the answer and the booking. Nothing in the server resumes such an
  order: only a call of the payer does.
* Outbox deliveries happen at least once, under leases of a minute, from every
  process at once, and may come after the request has long moved on.
* The gate reads the current action, then lets the tool prepare its command,
  then writes; confirmation, cancellation, deadline and crash meet on one row.
* A repair's estimates are drafted, submitted, withdrawn, revised, visited and approved
  in any order, by a vendor, a manager and a tenant, before and while the work is under
  way; and some of those handlers ask for the estimate's status only.
* An acceptance or a termination of a contract changes memory, file and two databases
  one after the other, over several awaits. Any write may fail, the caller may repeat
  the call, the other party may act in between, and the process may restart and must
  find its way from whatever was written.
* The reconstruction loop reads a row, awaits the cloud and writes the row by its
  id alone, while callbacks and the owner write it too. Callbacks name the asset
  and not the command, so a command given up long ago can still finish an asset.

`PROJECT.json` lists each of these hazards with the line at which it bites and
the properties that cover it, or the reason why none does.

## The modules

The composition, each module extending those below it:

    MCRepairPaymentOrder   MCCompletionCredit   MCNotificationDispatch   MCCreditTopup   MCAgentToolAction
            |                  |                        |                     |                |
    RepairPaymentOrder   CompletionCredit     NotificationDispatch      CreditTopup     AgentToolAction
       |          |         |          |          |                      |        |
    TossPayments  VendorPayment     DomainEventOutbox              GaraPayout  TossPayments
                    |       \  (MCVendorPayment)                       |
                    |        \                                         |
                CreditLedger  PaymentObligation                   CreditLedger
                    |                                                  |
               AppendOnlyLedger                                   AppendOnlyLedger

    MCReconstruction - ReconstructionOrchestrator - ReconstructionJob - SplatAsset
                       (ReconstructionOrchestrator_proofs)

    MCVendorWorkflow - DirectHandling - VendorWorkflow
                       (VendorWorkflow_proofs)

    MCTradeContract - TradeContract - StoreProjection, instantiated twice
                      (TradeContract_proofs)

The proofs: `CreditLedger_proofs` is extended by `VendorPayment_proofs`, which is about
`VendorPayment` and `RepairPaymentOrder`, and by `CreditTopup_proofs`, which is about
`CreditTopup` and `GaraPayout`. `DomainEventOutbox_proofs` extends `VendorPayment_proofs` and
is about the outbox and its two consumers. `AgentToolAction_proofs` and the two named in the
diagram above for the scans and the ticket are about the modules of those names, and
`TradeContract_proofs` is also about its two queues.

An action is one database transaction. The repositories run them Serializable
with retries, or lock the rows they decide on before they read them, so that
between two transactions nothing else of the same call is visible; a service
method that runs several, with a call to the provider or a tool between them,
is a *handler* with a program counter (`handler[h]`) that other actions
interleave with and that `CutOff` may cut off anywhere. A call that is refused
or finds its own earlier work returns without a change: a stuttering step.

**`AppendOnlyLedger`** (abstract) is what an account promises its readers. It
restates the CHECKs, unique indexes and triggers of the migration. The
concrete modules do *not* rely on those, so that implementing this module says
that the repository's own guards suffice. One exception is named in
`GaraPayout`: the key under which a payout is settled is only kept unique by
the ledger's index.

**`CreditLedger`** has the account of one manager. `Credit` and `Debit` are the
conditional update of the balance together with the ledger row. Accounts of
two managers share no row. The safe maximum is the constant `MaxBalance`.

**`PaymentObligation`** (abstract) is what the payment of a repair promises:
approved, then settled once and in full or cancelled, and at most taken back.

**`VendorPayment`** has, per repair: the latest completion report (`report`,
its version), its `decision`, the report the request points to (`linked`), the
request's `status`, `lastMode`, `entry` (`ledgerEntryId`) and `cost`, and for
all of them `attempts`, `receipts` (idempotency keys of corrections) and
`announced` (audit rows, whose key is also the event's). `openOrder` is the
order that holds the request's open key; in this module nobody sets it. Its
actions are named after the repository methods. The payload hash that detects a
key reused for something else is left out: such a call changes nothing, like a
replay. A repair whose cost the tenant bears but which the manager arranged has
no payment request in the code, so it has no state here.

**`TossPayments`** is the provider behind the gateway: a confirm request is
processed at any moment after it was sent, captured or refused, whether or not
the caller still waits; a payment may expire. `ConfirmAnswers` and
`LookupAnswers` are the gateway's reading of an answer. Two payments that share
an order id, or a webhook, do not exist in this code.

**`RepairPaymentOrder`** adds the orders and their handlers to `VendorPayment`
and fills `openOrder`. `ConfirmOrder` is the claim and the departure of the
request; `ReceiveAnswer`, `FinalizeOrder` or `FailToFinalize`, `MarkRejected`
and `MarkUncertain` are what follows. `authority` is the payer's active account
and link to the room, which every transaction checks again.

**`GaraPayout`** and **`CreditTopup`** do the same for the account: payouts debit
it at once, by policy, or when the manager settles them; a top-up credits it,
and one linked to a registration debits it again for the payout in the same
transaction. `GaraPayout` is a fragment that `CreditTopup` extends, because
the two share registrations and the account.

**`DomainEventOutbox`** has the deliveries, their leases, and workers that claim a
batch and work through it. Time is two facts, `due` and `expired`. A lock token
is told by the worker that took it: a worker drains one batch at a time, so a
stale token is one whose row is owned by someone else. Faults (crash, failed
statement, overrun lease) are counted by `faults`. **`NotificationDispatch`** and
**`CompletionCredit`** give a delivery its effect: an emission that requires all
target users to be connected to the dispatching process, and the evaluation of
an approved completion. `CompletionCredit` replaces `VendorPayment`'s free
evaluation by the outbox's and its approval by one that also enqueues.

**`AgentToolAction`** has the calls of one principal, the holder of the active key,
and `effects`, which counts how often a tool did its work. `Execute` lets the
tool work, refuse, or throw after having worked. `overdue` is the ten-minute
deadline having passed.

**`SplatAsset`** has the rows of the scans: `status`, `jobState`, `command`
(`jobCommandId`) and `attempts`. A request of an owner that reads the row, stores a
file and then writes is in `edits` between the two; what it read goes into what it
writes. Assets are numbered in the order of `createdAt`. **`ReconstructionJob`** has
the instance (`gpu`) and every command sent (`jobs`): the script works, posts its
result and succeeds, or posts a failure and fails; the two callbacks are steps of
the command that write the row whatever it says. **`ReconstructionOrchestrator`** has
the tick: `tick.at` is where it stands between two awaits, and `tick.command` and
`tick.attempts` are what it read. `emptyQueueTicks`, `backoff` and `successSeen` are
its memory, which a restart clears. A deadline may be found passed at any look.
`FaultKinds` says which faults a run admits: a callback or its answer lost, no
capacity, a cancellation or a lookup that fails, any other awaited call that
throws, a restart. One process polls, as the deployment has it.

**`VendorWorkflow`** has one ticket and the repairs it gets, one action per transaction of
the repository: `AssignVendor`, `RequestVendor`, `SaveDraft`, `SubmitEstimate`,
`ReviewEstimate` and so on to the decision on the completion. A repair's estimates are
functions of the version (`estimate`, `kind`, `reviewer`). `tenantAsked` and `bearer` are
what the code tells by whose work it is (`TenantWorkflowActor`); `billed` is the version a
payment request was made of, and `VendorPayment` goes on from there. The unique indexes
and triggers of the tables are not part of the actions: the properties say that the
transactions never need them.

**`DirectHandling`** composes it with the other way of handling a ticket and with the
store's methods that change a ticket's status (`TransitionTicket`, `ReopenTenantComplaint`).
The store's copy of the ticket is taken to be current, which is the best case.

**`StoreProjection`** is the queue by which a store in memory is written: every change is a
*generation* with a snapshot, snapshots are written in order, and a caller that must not
answer before its change is saved waits for its generation (`Settled`, `Saved`).

**`TradeContract`** has the contracts on listings. `status` is written to a file with every
change; `listing` and the tenant's side (`joined`, `home`) are memory, written behind it by
two instances of `StoreProjection` to `listingDb`, `joinedDb` and `homeDb`. A handler runs on
between its awaits, so an action is what it does up to the next one: `accepting[c]` and
`ending[c]` tell where the handlers stand and which generation they wait for. `Crash` may
cut them off at any await; the process hydrates from file and database (`Hydrated`), joins
the accepted contracts one by one (`BootEnsure`) and then takes calls (`Listen`).

A definition whose comment begins with *Faulty* is a deliberately wrong variant
of the definition after it: a dropped guard, a forgotten check, a swapped case.
No specification uses it. It is kept to show that a property can fail: with the
faulty variant in place of the real one, TLC finds the property violated
(`PROJECT.json`, `mutants`).

## What the runs check

| Run | Asks | States | Result |
|---|---|---|---|
| `VendorPayment` | Can two repairs of a manager, paid from a balance that covers one, and one a tenant pays by a transfer the vendor confirms be paid twice, wrongly, or out of step with ledger and books? | 74,494 | holds |
| `RepairPayment` | Can a card order race the other ways to pay, a crash, a lost answer, a retry or a declared transfer, so that captured money cannot be booked or a repair is paid twice? One repair the manager pays and one the tenant pays. | 175,304 | holds |
| `CreditTopup` | Can overlapping confirmations and reconciliations credit a top-up twice or tell two outcomes, and can a payout next to them be debited twice or under a key already used? | 2,683,392 | holds |
| `NotificationDispatch` | Do leases keep workers apart, and does an event reach users who stay connected? | 110,320 | holds |
| `CompletionCredit` | Is every approval evaluated, and is an evaluation that comes late or twice harmless? | 128,260 | holds |
| `AgentToolAction` | Does a tool work at most once, and only for a confirmed call? | 24,304 | holds |
| `Reconstruction` | Is one scan active at a time, is every scan that is processed in somebody's hands, and does it come to an end? | 690,285 | holds |
| `VendorWorkflow` | Can assignment, estimates, visits, work, reports and direct handling of a ticket come in an order that leaves two active repairs, two prices, work or a bill without an approval, or an ended repair taken up again? | 1,884,191 | holds |
| `TradeContract` | Is what tenant and landlord were told of a contract in the database, and does a late join undo a termination, through a failed write or a restart at any await? | 2,667,250 | holds |
| `CreditTopupLost` | Can money captured for a top-up always be found by checking again? | | violated |
| `ReconstructionTwice` | Does one command run at a time, through a restart or a failed lookup? | | violated |
| `TerminatedTenancy` | Is a tenant no longer linked to the room of a contract that was terminated? | | violated |

Three more configurations are kept beside the runs, for the theorems that delimit the three
violations (below). They ask what holds if one step never happens, so they have the same modules with
a narrower specification, and their result is what TLAPS then proved in general:

| Configuration | Module | Asks | States | Result |
|---|---|---|---|---|
| `ReconstructionAttended.cfg` | `MCReconstruction` | Does one command work at a time as long as no command is abandoned? | 548,063 | holds |
| `CreditTopupChecked.cfg` | `MCCreditTopup` | Can money captured for a top-up be found by checking again if no refused lookup is taken for a refused payment? | 451,740 | holds |
| `OneProcessTenancy.cfg` | `MCTradeContract` | Is a tenant no longer linked to the room of a terminated contract while one process lives? | 1,154,288 | holds |

The properties, by what they are about:

* *One payment.* `PaidAtMostOnce` and `PaidAtMostOnceWithCard` are refinements of
  `PaymentObligation`, where the money that left is told by the ledger, by the
  recorded transfer, or by the provider's captures. `StatusMatchesLedger`,
  `BooksMatchPayment`, `BalanceMatchesPayments` and `PaymentAnnouncedOnce` tie
  the request's status to the rows, costs, attempts and messages around it.
  `OnlyApprovedWorkIsPaid` ties it to the report that was approved.
* *The ledger.* `LedgerPromise` says that the account implements `AppendOnlyLedger`.
  It is checked of repairs' payments, of top-ups and of payouts.
* *Captured money.* `CapturedMoneyCanBeBooked`: from the capture to the approval of
  the order, the order accepts reconciliation and the request stays payable.
  `TossPaidMatchesCapture` and `GivenUpOrdersStayUnpaid` say that an order's end
  agrees with the provider. `CreditedOnceWhenCaptured`, `OneOutcomeTold` and
  `PayoutsMatchLedger` are their counterparts on the account.
* *Open orders.* `RepairPaymentTypeOK` has, besides the types, that the open key of a
  request belongs to its one order that can still be paid, so that the CHECK on the key
  never aborts a transaction.
* *Deliveries.* `LeaseRespected`, `EmittedOncePerFault`, `ReachableIsDelivered` of
  the dispatcher; `DeliveryStaysValid`, `DeliveredWasEvaluated`,
  `ApprovalIsEvaluated` of the credit worker, whose composition also implements
  `VendorPayment` (`ImplementsVendorPayment`).
* *The gate.* `OneActionAtATime`, `WorksOnceIfConfirmed`, `OutcomeIsFinal`,
  `ExecutionEnds`.
* *The ticket.* `OneActiveRepair`, `OneEstimateInForce`, `WorkRestsOnApproval`,
  `BilledPriceWasApproved` and `ClosedStaysClosed`: what the unique indexes and triggers of
  the tables enforce, and what they cannot, holds by the transactions alone.
* *Contracts.* `AcceptedIsSaved` and `TerminatedIsSaved` relate an answer to what the
  database holds from then on; `ContractedIsNotOffered` relates a contract to the listing
  a restarted process loads; `OnlyAcceptedIsJoined` is about a handler that is overtaken.
* *The reconstruction.* `OneActiveAsset`, `ProcessingIsInHand` and `ProcessingEnds`: the
  rows stay consistent although every writer is blind, and no scan is forgotten. `OneJobWorks`
  is about the commands behind the rows.

`VendorPaymentTypeOK` and `RepairPaymentTypeOK` are the type invariants that runs check,
the first for the bounds of the balance in it. Those of the other modules (`GateTypeOK`,
`OutboxTypeOK`, `VendorWorkflowTypeOK`, and those of the proof modules) are proved.

### Three disagreements between the code and what it says

`CreditTopupLost`. A caller whose confirmation could not be recorded is told that
the outcome is delayed and to check again. That check is `reconcileTopup`. It
takes any refusal of the *lookup* (every 4xx with a code) for a refusal of the
*payment* and ends the order as FAILED; if the provider had captured the
payment, nothing can book it any more. The repair orders' `reconcileOrder`, in
the same situation, marks the order uncertain, and `GivenUpOrdersStayUnpaid`
holds there. Its faulty variant `AfterLookupRejecting` is the top-up's rule.
There is no other way to lose the money: `CheckedTopupSpec` leaves out the one step
(`MistakesRefusal`), and there `CapturedTopupCanBeChecked` holds (`CreditTopupChecked.cfg`, theorem
`OnlyRefusedLookupsLose`).

`ReconstructionTwice`. The loop's header promises one job at a time, and that crash
recovery needs no code, since a restarted process attaches to the active job by its
command id. The loop keeps one *row* active at a time (`OneActiveAsset`). But the id is
written after the command is sent, and a restart between the two dispatches the job
again; and a lookup that fails puts the row back in the queue and leaves its command
running, with the same end. Both commands use one work directory and both call back.
`AbandonsCommand` lists the four steps after which nobody waits for a command that may still run:
its number is not recorded; it is given up because a lookup or a cancellation failed; its asset is
removed; a request that read its asset as failed queues it anew. Without them the header is right,
restarts at any other await included: no two commands work at a time (`OneJobWorks`,
`ReconstructionAttended.cfg`, theorem `AttendedJobsWorkAlone`). Commands that work (`WORKING`) are the
claim here; one whose failure report has been posted may still be on its way out when the
next one is sent.

`TerminatedTenancy`. Terminating a contract is to release the link between tenant and
room, and in memory it does. The projector writes the links by upsert and never deletes
one, so the row of the terminated tenancy stays. The next process loads it and the tenant
lives in the room again, while its listing is offered; and handlers that read the table
see the link without any restart. The test of the termination keeps the service in memory
only and cannot see it. In the memory of one process the link is released for good:
`UnbrokenTradeSpec` is `TradeSpec` without the restart, and `TerminatedIsUnlinked` holds of it
(`OneProcessTenancy.cfg`, theorem `UnlinkedInOneProcess`).

### Observed, without a text that says otherwise

The models contain the following behaviours. The repository does not say what should
happen instead, or not plainly enough, so no property denies them.

* An action of the agent in EXECUTING is answered with "the request is being executed"
  (`agent-tools/agent-tool-gate.service.ts:240`). After a restart in the middle of it nothing
  executes it, nothing resumes it, and its key keeps the principal from any other action.
* The reconstruction script reports a failure before it exits, and the report makes the row
  FAILED at once, at its first try, although FAILED is commented "retries exhausted": the
  loop retries only if the report was lost.
* A finished scan can become FAILED again: by a tick that read it before the completion and
  found its deadline passed, or by a failure report after the answer to its completion
  was lost.
* A tenant who approves a new price while the work is under way puts the repair back to
  ESTIMATE_APPROVED; a manager's approval does not. An estimate submitted while tenant's work
  is reported complete leaves the report undecided.
* A vendor who withdraws an estimate clears `costBearer`, and with it the tenant's part in
  the review of tenant's work. A tenant's request of a vendor does not ask whether the
  manager handles the ticket in person; `assignVendor` does.
* Two acceptances of one tenant may be joined out of order; the older contract is then
  never joined (`NewerHome`).
* A landlord's repeated termination terminates the next contract on the listing, if there is
  one by then, since the call names the listing. A listing may be deleted under an accepted
  contract, which can then not be terminated.
* A tenant who has declared a transfer can neither withdraw it nor pay by card, and once the
  vendor has confirmed it the payment can never be voided.

### Bounds

* Two repairs of the manager with one price and a balance that covers one show every
  contention on the account; one more would meet the same two cases, paid or refused.
  A third, of a tenant, is there for the declared transfer. Two payouts share two
  settlement keys, so that one may be settled under the other's.
  Card orders are checked with one repair under way (`OneRepairReported`, a constraint): orders of
  different requests share only the account, which a card payment does not touch.
* `Keys` has two idempotency keys: a repetition of one and a fresh one.
  `MaxReports` is 2: a rejected report and its replacement (1 in
  `CompletionCredit`, where reports are not the question).
* Two assets, two attempts each, one request of an owner besides the uploads, and one
  fault of any kind. The commands need no bound: attempts, faults and retries limit
  them. `KeepWarm` is FALSE, the setting under which the loop also stops the
  instance. `ReconstructionTwice` needs one asset and one fault. `ReconstructionAttended` admits
  two faults: a retry of an asset, a lost callback and a restart can then meet.
* One ticket with two repairs, two vendors and two versions of an estimate (`MaxEstimates`):
  a repair that ended and one that follows it, a price and the one that replaces it. Tickets
  share no row. Nothing else of that module grows.
* Two listings and a tenant, and two contracts (`MaxProposals`), on one listing after another
  or on both, so that a listing is let again and a tenant moves; one
  fault (`MaxFaults`), a failed write or a restart; one deleted listing (`MaxDeletions`).
  An edit of a listing only queues one more snapshot of what is there, as acceptances do with
  their change; it is admitted where a process has queued none yet (`MaxGenerations`), which
  is after a restart. `TerminatedTenancy` needs one contract and a restart.
  `OneProcessTenancy` has no restart and keeps the other bounds.
* Two orders per request or account and two handlers: an order and its retry, a
  confirmation and an overlapping reconciliation. `CreditTopupChecked` has them with one
  payout, which has no part in its question.
* `MaxBalance` is close to the amounts, so that the maximum is met.
* `MaxFaults = 2` in the outbox: two crashes, failures or overruns in a row, in any
  mix, which is enough to have a stale worker on each side of a claim. Two
  workers stand for two processes; a batch may hold both deliveries.
* `MaxCrashes = 2` in the gate.

The bounds are guards on counters (`MaxReports`, `MaxEstimates`, `MaxFaults`, `MaxCrashes`,
`MaxProposals`, `MaxGenerations`, `MaxDeletions`) or sizes of constant sets. `CHECK_DEADLOCK FALSE` stands in every configuration but the
dispatcher's: keys and orders are used up and the payment of a repair is over
at some point, so those systems really stop.

### Fairness

Only the runs with a leads-to property assume any. Both workers of the outbox
are driven by an interval in `onModuleInit`, so a claim, an effect and its record
are weakly fair for each worker, and so is time (a row becomes due, a lost lease
runs out). Faults, sockets, payers and managers are not fair. In the gate a
request that is not cut off runs to its end, which is weak fairness of each
handler's own steps. The card flows have none: nothing in the server resumes an
order, so that a captured payment is *eventually* booked is not claimed, only
that it always *can* be. The reconstruction loop sets its next timer in a `finally`
block, so its ticks go on (weak fairness of `Handle`); the instance boots and halts,
and every command ends, since the provider kills it at its `executionTimeout`. The
two deadlines that matter are strongly fair: looked at again and again, they are one
day found over. Owners and faults are not fair. The ticket and the contracts have no fairness
either: what happens next there is up to people, and a caller whose write failed may or may not
call again.

## What is proved

TLAPS checks the proofs of eight modules, for any values of the constants that the named
ASSUMEs of the modules admit: amounts are positive, the opening balance is within the
maximum, a payer is the manager or the tenant, bounds are naturals, a value that stands for
"none" is not one of the others.

**The payment of a repair** (`CreditLedger_proofs`, `VendorPayment_proofs`). All eight
properties of the run `VendorPayment`:

* `TypeCorrect` (in particular the balance never leaves `0..MaxBalance`), `StatusIsTrue`,
  `ApprovedWorkOnly`, `BooksAreTrue`, `PaymentsAreAnnouncedOnce`, `BalanceIsTrue`: the six
  invariants always hold.
* `LedgerIsKept`: `VendorPayment` implements `AppendOnlyLedger`. `ObligationIsKept`: it
  implements `PaymentObligation`.
* `InvHolds`: the inductive invariant they follow from.

`AppendIsPost` shows once, for any account, that appending a row
which continues the balance, has a fresh key, respects the sign of its type,
debits a reference for the first time and reverses only an unreversed debit of
the same amount turns a well-formed ledger into a well-formed one; `DebitPosts`
and `ReversalPosts` instantiate it. What a transaction must know to use them is
not in the ledger, so `VendorPaymentInv` adds to types, `WellFormed` and
`StatusMatchesLedger`:

* `KeysRecorded`: every key a ledger row carries is remembered by an attempt or a
  receipt. The code looks for the client's key among *those*, never in the
  ledger, and this is why a row's key is nevertheless new. An automatic debit is
  keyed by its request and is new because the request has no debit yet.
* `ReversalsKeepRef`: a reversal carries the reference of the debit it reverses, so
  that "this request has no reversal" implies "this row is not reversed".
* `ApprovalCompletes`: an approved repair is COMPLETED, so no later report can be
  submitted under an approved one, and `linked = report` stays true.
* `BooksOK`, per repair: cost, successful attempts and announcements by the request's
  status. What the properties count are sets of one element or none here.
* `DebitsInFull`: a debit is of the price. `StatusMatchesLedger` names a payment's rows but
  not their amounts; with them the money that left (`Outflow`) is told by the status (`Gone`).

The balance is a sum over however many payments stand. `Total` is a fold, and its
recursion is over sets; the library's rules of induction need an operator as parameter, so
`TotalIsSum` is shown otherwise. Tables of the sums of all subsets of at most *n* elements exist for
every *n*, or for some least *n* they would not, and at that *n* the table for *n* - 1 is
extended. From it follows what a step needs: adding or removing one payment
changes the total by its amount (`TotalWith`).

**The card payment of a repair** (`VendorPayment_proofs`, second part). All five properties of
the run `RepairPayment`:

* `OrdersTypeCorrect`, `CaptureIsNeverStranded`, `TossPaidIsCaptured`, `GivenUpIsUnpaid`.
* `CardObligationIsKept`: the request still implements `PaymentObligation`, with a capture
  counted from the moment the provider makes it.
* `LedgerIsKeptWithCard` and `RequestStaysTrueWithCard` carry the results above over to
  requests that have orders; `RepairPaymentInvHolds` is the invariant.

The invariant ties three things that no transaction sees together. `ProviderOK`: an order
that never left READY has no request at the provider, an approved one is captured, and one given up
will not be, whatever is still on its way (`NeverCaptured`). `PlaceOK`: a handler about to
book holds an order that was captured, and one about to give up an order that never will be;
both are final at the provider, so they outlive any delay between the answer and its use.
`ConfirmablePayable`: an order that may have been captured keeps its request payable. This is
where the open key matters: every other way to pay looks for an open order
first (`Free`), except the vendor's confirmation of a declared transfer, which was declared with
none open and lets none be opened. For the refinement, a step moves one repair at most, by one of the ways of `Moves` or by a capture (`CardMoves`).

**Top-ups and payouts** (`CreditTopup_proofs`). All four properties of the run `CreditTopup`:

* `CreditedOnce`, `OutcomeIsToldOnce`, `PayoutsAreTrue`, and `TopupLedgerIsKept`, that the account
  implements `AppendOnlyLedger`; besides `GaraPayoutTypeCorrect` and the invariant,
  `CreditTopupInvHolds`.

A linked order writes two rows in one transaction, which `AppendOnlyLedger` knows as one
posting: `PairPosts` of `CreditLedger_proofs` is the counterpart of `AppendIsPost` for it. `KeysRecorded` says
why a key is new: the keys of an order's rows are used only by approved orders, and those of a
payout only once it exists. The key under which a payout is settled is the client's, and
the ledger's index is what refuses it twice, as `GaraPayout` says. The amounts in
`CreditedOnceWhenCaptured` and `PayoutsMatchLedger` are part of the properties because the
proof showed that nothing else related them (`AmountsInv`). The rows refer to orders and payouts
by kind and id, and the first row of the account refers to an order named "opening";
`OpeningOrderAssumption` says that no order has that id.

* `OnlyRefusedLookupsLose`, from `CheckedTopupSpec`: captured money is lost by a refused lookup that
  is taken for a refused payment, and in no other way.

An order is given up when it is FAILED, or already when a handler has read the answer that it will
write down as a refusal (`GivenUp`). `RefusalsInv` says that the payment of such an order can no
longer be captured: neither is it, nor is a request on its way that might. The second half is why
nobody changes that later: a handler only works on an order that was claimed, and a claimed order is
never sent to the provider again (`RefusalsStand`); the provider itself does not go back
(`ProviderIsFinal`).

**The outbox and what it drives** (`DomainEventOutbox_proofs`).

* `CompletionImplements`: payments driven by deliveries implement `VendorPayment`, by the
  identity. Hence everything proved of payments holds of them: `ApprovedWorkOnlyHere`,
  `RequestStaysTrueHere` (status, ledger, books, announcements, balance) and `MoneyLeavesOnceHere`
  (paid at most once, and the ledger's promise) state it.
* `DeliveryStaysValidHolds`, `DeliveredWasEvaluatedHolds`, `OutboxTyped`, and
  `CompletionInvHolds`, the invariant.
* `EmittedOncePerFaultHolds`, and `DispatchInvHolds`, the invariant of the notifications.
* `NotificationLeaseHolds` and `CompletionLeaseHolds`: `LeaseRespected`, of either consumer.

A worker marks a delivery in another transaction than the one that evaluated its request, and
by then it may not own the row, nor be the one that evaluated it. What it relies on is
`MarkedWasEvaluated`: a worker on its way to mark comes from a request that is
in an evaluated status, and no step leads out of those (`Onward`). Of the outbox the proof needs
only that a step moves a delivery on as `Advances` says; the leases play no part, as the
evaluation is harmless at any time and any number of times.

An emission is not harmless, and there the leases matter. A bound on what was emitted is not
inductive: several workers may hold one event in their batches, each about to emit it. The
invariant counts these *chances* as well (`Chances`): each worker that may still try an event, and
one more while the row can be claimed without a fault. Every step of the outbox takes away as many as it
adds, except a fault, which may add one (`ChancesPass`); an emission spends one; and what was emitted
together with the chances left is at most one more than the faults (`Accounted`).

**The ticket** (`VendorWorkflow_proofs`, from `DirectHandlingSpec`).

* `OneActiveRepairHolds`, `OneEstimateInForceHolds`, `WorkRestsOnApprovalHolds`,
  `BilledPriceWasApprovedHolds`, `ClosedStaysClosedHolds`: all five properties of the run.
* `WorkflowTyped` and `WorkflowInvHolds`, the invariant.

Nearly every action is about one repair, so the invariant is a conjunction over repairs
(`RepairInv`) and a step is shown to leave the others untouched, or to cancel one that was
only requested. Two conjuncts are not in the properties: `SubmittedIsOpen` says that an
estimate is under review only while its repair is open for one, which is why confirming a
visit, a handler that never looks at the repair's status, cannot take up an ended
repair; and `ApproverBears` says that a price the landlord bears was approved by the manager:
the report bills the landlord for the approved price because he bears the cost, and never
looks at who approved it.

**Contracts** (`TradeContract_proofs`). All four properties of the run `TradeContract`, and
those of the queue:

* `ContractedIsNotOfferedHolds`, `OnlyAcceptedIsJoinedHolds`, from `TradeInvHolds`.
* `AcceptedIsSavedHolds`, `TerminatedIsSavedHolds`, from `SavedInvHolds`.
* `WaitingIsHonest`: a handler that waits for either queue is let through only if a snapshot as
  new as its own was written, and otherwise finds the failure (`GateIsHonest`).
  `NothingRepeatedInVain`: a failed projection is repeated only if no newer one is queued
  (`RepeatsWhenIdle`).
* `RoomsAreProjected`: `TradeContract` implements `StoreProjection` with the rooms' queue.
* `UnlinkedInOneProcess`, from `UnbrokenTradeSpec`: without a restart `TerminatedIsUnlinked` holds.

The invariant of the first two, `TradeInv`, has two halves. `InMemory`: a contract that the
database has joined, or will have from the queue, is joined in memory, so that a restart joins
nothing by itself. `NumberedInOrder`, with one live contract per listing: what a landlord
terminates is the latest of the listing, so that the listing it opens is no other accepted
contract's. `NotOffered` then excepts only the contracts that a starting process has yet to join.

The second invariant, `SavedInv`, says what an answer is worth. `QueueOK`: of the generations dealt
with, the last was either written, which clears the failure, or is the failure. `LastIsNow`: the last
snapshot taken is what the memory holds. `ListingsSince(g, X)` and `RoomsSince(g, X)` say that every
snapshot from generation *g* on is in `X`, and that if *g* has been written, so is the database. A
handler that waits for *g* has made its change by then, and nobody may take it back
while it stands (`ListingHeld`, `RoomHeld`, `ListingFreed`, `RoomFreed`); hence the database has it
when the wait ends well, and keeps it (`RoomsSince(0, X)`), however many older and newer
snapshots fail. A restart may lose queue and memory but not the database, and only what was never
told is lost. The table of rooms is written by upsert, so a snapshot without a link leaves the old
one: `Lasting(X)` asks of the sets in question that they survive this.

That a room is left with the contract needs a third, `HomesInv`: a tenant's room in memory is that of an
accepted contract of the tenant that has been joined. Another contract may take the room over
(`ConnectHomes`), and a termination gives it back to another accepted contract or to none
(`TerminateHomes`). A restart breaks it, as what it loads was written by upsert.

**The agent's gate** (`AgentToolAction_proofs`).

* `OneActionAtATimeHolds`, `WorksOnceIfConfirmedHolds`, `OutcomeIsFinalHolds`, `GateTyped`, from
  `GateInvHolds`.

What the properties do not say is where a request stands between two of its transactions.
`OneRequestPerCall` and `RequestKnowsItsCall` do: only one request works on a call, its row is
EXECUTING for as long, and whether the tool has worked is known from where the request
stands. A restart forgets the request and leaves the row EXECUTING, which no one can claim again;
that is why the tool cannot work twice, and why such a row stays.

**The reconstruction** (`ReconstructionOrchestrator_proofs`, from `ReconstructionSpec` without
fairness, for any admitted faults).

* `AtMostOneActive`: `OneActiveAsset` always holds.
* `ProcessingStaysInHand`: `ProcessingIsInHand` always holds.
* `ReconstructionInvHolds`: the inductive invariant they follow from.
* `AttendedJobsWorkAlone`, from `AttendedSpec`: two commands work at a time only after one was
  abandoned.

A row alone does not say why making it active is right: the tick that
does it looked at the rows several awaits before. The invariant therefore has
`TickHoldsActive`: between the first look and `PROMOTE` nothing is active; a tick that
took an active asset holds the only one; and any two active assets are the same. It
survives the others' steps since only the tick makes an asset active (`RowStep({})`,
for owners in `OwnerStep` and for commands in `GpuStep`), and the tick's own write,
however stale, since it names the asset the tick holds (`HoldsWhenWriting`). That every
writer leaves an asset in hand is `InHand` of the row it makes. It rests on two facts a
reader of the code may miss: a callback always writes status and job state together,
and a new file never writes back a PROCESSING that it read. The loop's own
writes can make a row active again that is no longer being processed; such a row is
still the only active one, and the loop works it off like any other.

The last theorem is about the commands, which outlive the row's knowledge of them. `CommandsInv`: a
command that runs is the one that its asset's row names, or has just been sent (`Known`), and while it
works the row says RUNNING or the tick is about to write it (`Attended`). As one asset is active
and a row names one command, no two work. A tick sends a command after several
awaits, so `TickKnows` says what it may rely on at each: between `PROMOTE` and `SEND` its asset has no
command, at `SENT` only the one just sent, at `FAIL` none that works. These would be lost
by the steps of `AbandonsCommand`, and by no others.

**Only model-checked**: liveness (`ReachableIsDelivered`, `ApprovalIsEvaluated`, `ExecutionEnds`,
`ProcessingEnds`), as the prover reaches neither fairness nor ENABLED. The three disagreements are
counterexamples, found by TLC; what holds instead is proved.

## Not modelled

* Serializable retries, row locks and deadlock retries: a transaction is a step.
  That the repositories do take the locks is read in the code, not checked.
* The wording, amounts and addresses of messages; money is a small number, ids are
  model values. Payload hashes and input validation only refuse calls.
* The top-ups and the repair payments of one account are checked in separate runs,
  not in one: both are shown to keep `AppendOnlyLedger`. Likewise the ticket and the
  payment: `VendorPayment` starts from repairs whose price is approved.
* Of the vendor workflow: messages, dates of visits, attachments and the amounts of
  an estimate. Of the store: that its copy of a ticket may be older than the database.
* Of trade: inquiries, the creation of listings and of their rooms at boot, the landlord's
  review of a contract and what follows from it (`confirmManagerContractReview` may make an
  expired contract active again), contracts from other sources; a failed write of the
  *file*; a failed write to the listings' database replacing the store's objects, so that a running
  handler holds a contract that is no longer in the store; a database that is unreachable at boot.
* Vendor activation (invitation, claim, expiry) and the search of vendors; mesh conversion of
  furniture: planned, below. Of the splat assets, files and alignments, and the
  notification of owners.
* Creating registrations; the demo data; storage of files.
* Listings, map, market, catalog: stored rows read, or edited by one party. The
  core service of rooms, bills, messages and reports is an in-memory store of one process
  that answers each call without an await; what can go wrong between it and its
  database is `StoreProjection`, and the rest of its 15,000 lines is validation and
  presentation of single calls. Clients, packages, scripts and the image services hold no
  shared state of this kind; the web and iOS clients are most of the repository's code.

## Plan

Done: `CreditLedger`, `VendorPayment`, `RepairPaymentOrder`, `GaraPayout`, `CreditTopup`,
`DomainEventOutbox` with its two consumers, `AgentToolAction`, the reconstruction,
`VendorWorkflow` with `DirectHandling`, `StoreProjection`, `TradeContract`, and the proofs above.
Left, in this order:

1. The landlord's review of a joined contract and the active contract it makes, in
   `TradeContract`, with termination after it.
2. `MeshConversion`: a dispatch that times out after the worker has accepted, against
   the worker's callbacks.
3. Which file an alignment was made for (`transform`, reset when the file is replaced), and
   whether a finished scan should be protected against late writers, in `SplatAsset`.
4. `VendorActivation`: invitation, claim, expiry, and the mirror of a tenant's vendor.
5. Proofs for what these add.
