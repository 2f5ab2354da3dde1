# Mercurio: a verification development

Mercurio moves parcels from hub to hub in the trips of private carriers. Nobody
holds anybody's money: every obligation is a Lightning *hold invoice* issued by
the payee's own wallet, paid by the payer's, and released or cancelled by a
coordinator that only knows the preimage. The program is therefore a protocol
engine: a pure state machine, an executor that turns its effects into rows,
ledger entries and wallet calls, and a worker that fires deadlines, observes
wallets and retries; around it are the routes that check, price and certify, and
the services they lean on. This directory models that system in TLA+, checks it
with TLC and proves with TLAPS every safety property that the runs check. File
and line references are relative to `src/`.

## The system

| Part | State it keeps | Operations | What makes it correct |
|---|---|---|---|
| State machine (`packages/core/src/state-machine`) | none: pure | `transition(state, event, ctx)`, 24 events | one custodian; every hold ends in the direction the outcome asks for |
| Executor (`apps/api/src/shipments/executor.ts`) | rows of shipments, stays, legs, claims, timers, intents, custody chain, outbox | `executeShipmentTransition` in three phases | snapshot and transaction agree; what phase 1 created is committed or given back |
| Context builder (`context.ts`) | none | `loadShipmentBundle` | the rows it picks as "the" stay, leg, arrival, bonus and claim are the right ones |
| Timer sweep (`timers.ts`) | `shipment_timers` | `fireDueTimers` | every wait ends |
| Wallet pump (`pump.ts`) | none | `pumpWalletEvents` | a leg is booked only with its money locked |
| Coordinator (`packages/escrow/src/coordinator.ts`) | `conditional_payments`, its journal entries | create, release, refund, pollOnce | ledger before row, wallet agrees with row, every payment resolves |
| Reconciliation (`reconcile.ts`) | `escrow_intents` | `reconcile`, `retryEscrowIntents` | verbs converge; the audit passes |
| Shadow ledger (`packages/db/src/ledger.ts`) | journal, postings, accounts | `postJournalEntry` | idempotent by key, sums to zero |
| Wallets (`adapters/*`, `lib/wallets.ts`) | invoices at the wallets, wallet connections | make, pay, settle, cancel, look up | idempotent verbs |
| Wallet transport (`nostr/*`, `adapters/nwc.ts`) | none | one request and one reply per call, over a relay | an answer is of this call, and true |
| Routes (`routes/shipment-lifecycle.ts`) | none of their own | HTTP handlers | the parties, secrets, prices and fees they put in events are right when the event commits |
| Economics (`packages/core/src/economics`) | none: pure | pool, boosts, pricing, split, estimates | money is conserved |
| Instant payments (`instant.ts`) | `instant_payments`, invoices | `settleInstantPayment` | a fee is paid once, before what it gates |
| Custody chain (`custody-chain.ts`) | `custody_events` | append, verify | one line; its last custodian has the parcel |
| Matching (`packages/core/src/matching`, `routes/trips.ts`) | none | board, route of a carrier | the price shown is the price frozen; the route is shortest |
| Road distances (`lib/road-routing.ts`) | `road_distances` | `resolveMatrix` | a pair has one value for ever |
| EUR rate (`lib/eur-rate.ts`) | a snapshot in the process | `snapshot` for two uses | what is frozen is recent and corroborated |
| Outbox, warnings (`outbox.ts`, `storage-warnings.ts`) | `email_outbox` | cron jobs | every mail settles, every warning is queued once |
| Photos (`routes/photos.ts`, `photo-purge.ts`) | `photos`, blobs | upload, purge, erasure | no orphan stays |
| Accounts (`lib/auth.ts`, `session.ts`, `account.ts`) | links, users, sessions, connections | sign in, sign out, erase, connect a wallet | signing in is atomic |
| Reviews (`lib/reviews.ts`) and pages (`apps/web`) | reviews | what is offered to whom | pages offer what the API takes; reviews are for those who took part |

They interact through the database. An HTTP request or a cron job calls the
executor with an event; the executor calls the coordinator or the instant
payments before its transaction, and the coordinator's verbs after it (through
`escrow_intents`); the coordinator calls the wallets; the pump polls the
coordinator and calls the executor again. Several executors run at once (API
requests and the worker) and meet at the row lock of the shipment. The hard
behaviour is all there: state read before wallet calls and used after them,
crashes between the three phases, timeouts that race with answers, wallets that
act on their own, several processes that poll the same payments. `PROJECT.json`
lists these hazards line by line with the properties that cover each.

## The modules

| Module | Models | Role |
|---|---|---|
| `Shipment` | state machine + context builder + what one executor transaction commits | rows, holds, timers and journal, one committed event per action |
| `Coordinator` | one conditional payment, await by await | the detailed escrow |
| `Commitment` | what `coordinator.ts:1-29` promises of a payment | abstract specification that `Coordinator` implements |
| `Executor` | invocations that overlap on one deposit request | the three phases taken apart |
| `Economics` | `economics.ts` | pure operators, used by the two below and by `Board` |
| `Pricing` | the routes that price, boosts and reroutes, the quotas | the amounts that `Shipment` abstracts |
| `Checkout` | double confirmation, check-in, cancellation, and `instant.ts` | fees paid before the transactions they gate |
| `Custody` | the checks of the routes and the transactions that follow | parties, secrets and the custody chain |
| `Pages` | EXTENDS `Custody` with closed rows; the web pages and reviews | a second statement of the rules, compared with the first |
| `Board` | EXTENDS `Economics`; the board, the shelf and the leg request, in both metrics | two paths to one price |
| `Itinerary` | `route.ts` (Held-Karp) and the stops of a trip | compared with every permutation that picks up first |
| `Roads`, `Rates`, `Nwc`, `Mail`, `Photos`, `Accounts` | the services of the same name | one specification each |
| `Trusted` | EXTENDS `Accounts`, `Roads`, `Nwc`, `Rates` | the services whose word is taken for good |
| `ShipmentProofs`, `MoneyProofs` | | theorems of `Shipment`: rows, timers and places; money |
| `CoordinatorProofs`, `ExecutorProofs`, `PricingProofs`, `CheckoutProofs` | | theorems of the module they extend |
| `CustodyProofs` | | theorems of `Custody` and of `Pages` |
| `ServicesProofs` | | theorems of `Trusted`, `Board`, `Itinerary` and `Mail` |
| `MCShipment`, `MCCoordinator`, `MCExecutor`, `MCPricing`, `MCCheckout`, `MCCustody`, `MCPlatform` | | instances for TLC |

`Shipment`, `Coordinator` and `Executor` are three views of one system at three
grains: `Shipment` takes an invocation of the executor and a verb of the
coordinator as atomic; `Executor` shows what is left of that atomicity when
invocations overlap, and `Coordinator` does the same for a payment. `Pricing`,
`Checkout` and `Custody` take the same events again for what `Shipment`
abstracts: amounts, fees, people.

### Shipment

State: the machine's `state` and the destination; the functions `stay`, `leg`
and `claim` are the rows of `hub_stays`, `legs` and `shipment_claims` by id;
`timers` is `shipment_timers` by its unique key (kind, ref); `pay` is the
`state` column of `conditional_payments` by idempotency key (purpose and ref,
which is how the executor builds it, `executor.ts:160`); `journal` is the set of
entries by idempotency key; `intents` is `escrow_intents`. Each event of the
machine is an action of the same name. Its guard joins the machine's guards with
what the context builder finds in the rows; its effects are the whole
transaction: row projections (`projectRows`), timers, entries (through
`Commit`), intents and status. The creates of phase 1 are part of the action.
Between events the wallets act (`PaymentHeld`, `HoldLapses`, `HoldDies`), verbs
are executed one by one (`ExecuteRelease`, `ExecuteRefund`) and time passes.

Abstractions. Amounts, parties, photos, e-mails and the custody chain are left
out; a final leg's hub bonus is a flag of the leg. `cancelled` stands for
`cancelled` and `expired`. `handoff_reject` and `boost` change nothing this
model has and are in `Custody` and `Pricing`. Time: a row waits on one deadline
at a time and `due` is ahead, now or past of it, so that no window has a length
and no two deadlines an order; at `now` the machine accepts both the event and
its timeout (`state-machine.ts:122-130`), and so does the model.

### Coordinator and Commitment

One payment: row, `bolt11`, its journal entries, the hold invoice at the payee's
wallet, whether it was dispatched, whether its window is over, the verb the
executor committed and its intent. A process is in at most one call (`task`,
`pc`) with the row it read (`seen`) and the cause it will record. Every await is
a boundary between actions. *Observers* run `pollOnce` and the verbs, *creators*
run `createConditionalPayment`; a call may be cut short anywhere by a crash or
an unreachable wallet (at most `MaxFailures` times). `HoldsDieLate` says whether
a hold may die although its release is committed. `moved` says that the payee
has connected another wallet. Two calls that create one payment share its
idempotency key.

`Commitment` is the promise: entries before rows, never two directions, a
payment dies only unjournalled or refunded. `KeepsPromise` is the refinement,
with `dead` for `cancelled` and `expired`.

### Executor

One deposit request at a hub that answers by hand, the accepts that answer it,
the hub's rejection or the carrier's withdrawal, the sweep with the timers of
the request, of the funding window and of storage, and the pump. An accept is a
snapshot, a create per payment, a transaction, and compensation if it fails; the
sweep is a snapshot and a transaction; the pump is a poll, a check and a
transaction. The payments that refer to the leg (sender's payment and carrier's
bond) are one payment, `LegPayment`: they are created, refunded and observed
through the same keys; the arrival hub's bond is the accept's own. A hold that
secures a leg is taken not to die by itself (that is `Shipment`'s `HoldDies`).

### Economics and Pricing

`Economics` has the functions of `economics.ts` with their floors, over msat and
whole units of distance; the loops over boosts are one recursive function
(`Loop`). `Pricing` runs them over the life of a shipment: the `shipment` row holds the destination, distance and work of the current segment;
`chain` the custody events that carry money facts, from which `SegmentBoosts`,
`Quota` and the others read back what `context.ts` accumulates; `job` is the leg
or claim whose price is frozen; `request` what a route computed on its snapshot
and has not committed yet. `Overlap` lets other events commit while a request is
in flight. `paid` is a history variable.

### Checkout

One parcel whose legs follow each other. A pickup handler reads the leg,
writes the caller's confirmation, reads both back, and goes on only when both
are in within the window; a check-in and a cancellation go straight to the
executor. There each takes a snapshot, runs `settleInstantPayment` (find or
create the row, ask the payee's wallet for an invoice, store it, pay it, look it
up) and commits if the transition still has the same effects. `invoice` is what
the wallets know: a payment may stay in flight and settle, or fail, much later.
`PayersAtOnce` bounds the requests between snapshot and end; `MayStall` lets a
request outlive its leg; `MayReroute` lets the compensation change.

### Custody and Pages

`Custody` has users, hubs and their owners, the secrets (`otp` and `token` are
the numbers of the stored hashes, `mail` who was sent which), the custody chain
as its length, whether it forks and its last custodian, and `pending`: the
requests that a route has let through with what it read, not committed yet. An
action of `Route` verifies (session, code, token, roles) and adds to `pending`;
an action of `Transaction` is the executor on the rows as they are by then, and
the worker's events come in between. `Racing` names the events whose requests
may overlap. What a route asks of the caller and the rows is an operator of its own
(`MayCheckOut`, `MayHandOver`), and so is what the machine asks of the bundle
(`Legal`). A request is taken to end before a journey that began after its
check does: between the check and the commit of an event other requests commit,
but not hours of funding and travel.

`Pages` adds the closed rows and the chain's events about claims, and for each
page of the web client what it offers to a user in that state. `PagesMatchApi`
compares with `ApiAccepts`: the guard of the route and the guard of the machine,
which are the operators that the actions of `Custody` are guarded by. A page is
taken right after loading.

### Board, Itinerary and the services

`Board`: one parcel at rest, one carrier with a declared trip, hubs that open,
lose a wallet or are erased; cards are computed by `matching.ts`'s path (best by
surplus, then detour, then id) and leg requests by the route's. A parcel keeps
the metric it was created with; a distance is a number of `Fine`-ths of a metre,
so the road metric is whole and the haversine metric is rounded where the code
rounds. `HubsApart` takes two hubs to be at one point or a metre apart, without
which half a metre is a way of one metre on one path and of none on the other.
`Itinerary`: the legs of a trip and a preview over any `Stop`s and `Parcel`s; `orderRouteWaypoints` is the
subset search, its table `dp` a recursive function of a subset of the sorted
waypoints and the last of them. `Rates`: rounds of fetches shared by callers, a
cache of two ages, one wrong ticker. `Roads`: read, ask the router, insert with first-writer-wins, read
again; the router's map changes and deployments come with or without a router.
`Nwc`: calls sign requests, the relay delivers any reply ever made or forged, the
wallet serves late. `Mail`: a stay's rows, the warner and the dispatcher. `Photos`:
rows and a blob, upload, purge and erasure statement by statement. `Accounts`:
links, verifications as transactions at READ COMMITTED, sessions, erasures and
wallet connections.

`MCPlatform` puts these services in one run. They share no state, so a behaviour
follows one of them (`focus`): their product would add only interleavings that
commute.

## What the runs check

| Run | Instance | States | Shows |
|---|---|---|---|
| `claims` | 3 hubs, 3 stays, 1 leg, 1 claim | 359,213 | rows fit the state (`BoardExclusive`, `RowsMatchState`), custodians are bonded (`BondedCustodian`), no open hold is orphaned (`OpenHoldsAccounted`), the journal passes the nightly audit once verbs are done (`JournalPassesAudit`), money settles only for what happened (`SettlementMatchesOutcome`) |
| `legs` | 2 hubs, 3 stays, 2 legs | 356,454 | timers are exactly the waits (`TimersMatchWaits`), a parcel on the board is never at its destination (`NeverIdleAtDestination`), the storage clock never moves back (`StorageClockMonotone`) |
| `live` | 2 hubs, 2 stays, 1 leg, holds may die | 59,245 | every wait ends (`EveryWaitEnds`), all money comes home after a terminal state (`MoneyComesHome`), committed refunds converge (`RefundsConverge`) |
| `single` | 1 observer, 2 creators, 2 failures | 84,963 | refinement of `Commitment` (`KeepsPromise`), ledger never behind (`LedgerNeverBehind`), wallet agrees with row (`WalletAgrees`), invoiced payments resolve (`InvoicedResolves`), verbs are carried out (`VerbCarriedOut`) |
| `funding` | 2 accepts in sequence, 2 failures | 38,604 | a booked leg is bonded (`BookedIsBonded`), an accept gives back its own (`GivesBackItsOwn`), the request ends (`RequestEnds`), a dissolved leg's holds come home (`DissolvedLegComesHome`) |
| `pricing` | 4 hubs on a road with bypasses, 2 boosts, 2 reroutes | 384,663 | no way of cutting a journey pays out more than was committed (`CommitmentConserved`), a parcel at rest can be priced (`AlwaysPriceable`), the dashboard's range brackets every fee (`EstimateBrackets`) |
| `handover` | hub, carrier, arrival hub, sender; 2 legs, 2 invoices, 3 ticks | 777,300 | fees are paid once (`FeePaidOnce`) and before what they certify (`CertifiedIsPaid`), a leg is picked up only when both confirmed that leg (`PickedUpWasConfirmed`) |
| `custody` | 4 users, 4 hubs, 2 requests in flight, 2 legs, 11 events | 1,073,017 | payer and payee differ (`SelfPaymentImpossible`), chain and rows agree (`ChainAgreesWithRows`), the recipient has the live secrets (`RecipientHoldsLiveSecrets`) and is who collects (`CollectedByRecipient`), pages offer what the API takes (`PagesMatchApi`), reviews are for those who took part (`ReviewsAreEarned`) |
| `platform` | each service with 2 callers, 1 or 2 outages | 867,535 | `AdvertisedIsKept` (board), `RouteIsShortest` (itinerary), `FrozenForLife` (rates and roads), `AnswersAreTrue` (nwc), `AtomicSignIn` (accounts), `MailSettlesOnce`, `OrphansSwept` (photos) |
| `double_fee` | hub, carrier, sender; 2 payers at once | | **violated**: `FeePaidOnce` |
| `compensation` | 2 accepts that overlap | | **violated**: `BookedIsBonded` |
| `lost_timer` | 1 sweep against the hub | | **violated**: `StorageIsTimed` |

Deadlock is not checked: a shipment, a payment and a request all end, and a
terminal state is meant to have no event; in the other models counters bound
the requests made.

Every property of a passing run has a mutant: an operator of the model marked
*Fault* that changes it as a plausible bug would, and that TLC must catch.

### What the violated runs say

* `double_fee`: when both parties confirm a pickup at once, each of the two
  requests finds the departure fee unpaid, issues an invoice of its own and pays
  it. `instant.ts:9-13` and `docs/ARCHITECTURE.md:552` say a fee is not paid twice.
* `compensation`: the losing one of two accepts cancels the winner's payments.
  `executor.ts:464` says they cannot belong to a winner.
* `lost_timer`: a sweep that conflicts with a rejection deletes the storage
  timer of a parcel that still rests there. `worker.ts:7` says no timeout is lost.

### Where code and words differ, besides

Met while modelling. The models follow the code, and the properties are stated
so that they hold of it; these have no run of their own.

* `release` throws for a dead hold (`coordinator.ts:182`), so the intent of a
  release committed before is retried for ever; `reconcile.ts:123` says both
  verbs converge. Hence `RefundsConverge` and not its like for releases.
* After pickup and return to the origin the sender can still cancel
  (`state-machine.ts:1613`); the comment says only before the first checkout.
* With a second poller a held entry may be posted for a row already dead
  (`coordinator.ts:287`). Its header assumes a single writer; three places poll.
  Hence one observer in `single`.
* A row with no invoice at the wallet is never expired: the lookup throws before
  the window is looked at (`coordinator.ts:139`, `237`). `InvoicedResolves`
  speaks of invoiced payments only.
* Verbs go to the payee's newest wallet, not to the one that issued the invoice
  (`coordinator.ts:191`); `routes/wallet.ts:59` says holds in flight are
  unaffected. `VerbCarriedOut` speaks of payees who stay.
* Board numbers are "EXACTLY" the msat frozen (`matching.ts:5`): so in the road
  metric. In the haversine metric one path rounds a difference and the other
  subtracts what it rounded; `ShownIsFrozen` allows the worth of a metre there.
* A boost of 1 msat passes the route (`boostBody`) and the machine, which refuses
  only what is not positive (`state-machine.ts:1465`). Its share of work is zero,
  and `remainingPool` throws for it (`economics.ts:308`): from then on no leg,
  claim or reroute to another hub can be priced until the segment ends.
  `docs/ECONOMICS.md:194` offers a boost as what unblocks a parcel.
  `AlwaysPriceable` is violated at once with such an amount; `pricing` and the
  theorem take boosts with a share of work (`BoostsReachThePool`).
* The ceiling of the shelf falls back to the haversine metric for a road pair that
  is unresolved (`hubs.ts:273`), in which no leg is priced. The ceiling of the model
  is in the metric of the parcel, of the whole segment at most (`hubs.ts:281`): the
  pair from where a parcel rests to its destination is stored when it is created,
  asked for or rerouted.
* The board shows drop hubs that the request then refuses: the storage ceiling
  is not checked for them, nor that the sender owns one (`lib/parcel.ts:2-3`
  says one predicate serves both).
* `trips.ts:230` says whole trailing groups go unrouted when the waypoints are
  too many; a smaller group after one that did not fit is routed.
* A boost or a reroute computed on a snapshot commits although the other did in
  between (`shipment-lifecycle.ts:849`, `942`): the new segment misses the boost.
  `pricing` takes priced requests one at a time.
* A checkout that stalls while its leg times out can pick up the next leg, which
  nobody confirmed (`shipment-lifecycle.ts:542`): `MayStall` is FALSE in `handover`.
* A reroute that commits between the hub's check of a code and the pickup lets
  the former recipient collect: reroutes are not in `Racing`.
* The purge deletes a blob after a check that no row refers to it
  (`photo-purge.ts:83`); an upload of the same bytes in between loses its blob.
  `OrphansSwept` is about the other direction.
* Several limits are a check followed by an insert (venue photos, links per
  hour): requests at once can exceed them.
* Pages. The claim form stays hidden after a claim has expired until the page is
  loaded again, since its state is the component's; nothing on the dashboard
  leads to the return of a parcel; the sender is offered to cancel wherever the
  parcel rests; a parcel left in DRAFT at a hub that accepts by itself mails
  nobody (`routes/shipments.ts:153`, `218`). `PagesMatchApi` is
  stated so as to leave these out.

### Bounds, and why they are enough

`StayId`, `LegId`, `ClaimId` bound how many rows a shipment may ever have. Three
stays are origin, arrival and return, or three hubs in a row; two legs are a leg
after a failed, expired, returned or completed one; a claim and a leg of any
order fit `claims`. Rows are used once and their ids are interchangeable, hence
the symmetry of the runs without liveness. `MaxBacklog` (3) bounds the verbs
committed and not executed in the two big runs: one event commits at most four,
so some states right after an event are examined but not continued until the
backlog would be executed; the `live` run has no such bound. In `Coordinator`
and `Executor` `MaxFailures` bounds the calls cut short: two suffice for a
failure in a call and one in its retry.

`Pricing`: four hubs with distances off the line, so that a leg's progress is
not its length; amounts with remainders at each division; two boosts and two
reroutes give a boost before, between and after reroutes. `Checkout`: two legs
are needed for a request that meets another leg, two invoices for a fee and
another (or for a fee paid twice), `MaxTime` 3 for a confirmation inside the
window, one outside, and a pickup deadline; the carrier may ask twice, which
with a crash is a retry. `Custody`: the recipient owns a hub and the sender
another that the parcel cannot be left at by the rules; two requests in flight are
a pair that races, two legs an onward journey or a return, two codes and two
tokens a reissue; `MaxEvents` 11 is long enough for the longest history the
other bounds admit to reach a terminal state. In `platform` two callers race,
three tickers out of which one is wrong make a quorum and an outlier, two map
versions make a pair change, two attempts make a mail that is retried and given
up, two shipments share a blob.

### Fairness

`worker.ts:47-73` schedules the sweep, the pump and the retries by cron, for
ever. So: time passes, the sweep takes a step while a timer can fire, a
committed verb that can be executed is (weak fairness on the whole of them). In
`Coordinator`, a call that has begun ends, and polls and retries start again and
again (strong fairness, since they take turns in one process). In `platform` the
dispatcher's and the purge's intervals recur, an upload or an erasure under way
ends (crashes aside, of which there are finitely many), and days pass. No
fairness is assumed of users, of wallets, of the relay, or of the pump in
`Shipment`.

## What is proved

Every theorem holds for all values of the constants that the named assumptions
admit: sets of any size, any amounts, distances, windows and bounds. The
hypotheses written before an implication are those under which the run checks
the same property, unless said otherwise.

### Rows, timers and places (`ShipmentProofs`)

For every set of hubs and every number of stays, legs and claims:

* `TypeCorrect`: `Spec => []TypeOK`;
* `BoardStaysExclusive`, `RowsAlwaysMatchState`, `TimersAlwaysMatchWaits`. The
  three share one inductive invariant,
  `BoardInv == TypeOK /\ BoardExclusive /\ RowsMatchState /\ TimersMatchWaits`,
  and none of them is inductive alone. An action that closes "the" active leg and
  "its" arrival keeps `RowsMatchState` only because the arrival is the one
  reserved stay (`BoardExclusive`); that a deadline's event may drop its timer and
  leave no other needs that the row is the only one of its kind and that the state
  is the one it calls for (`RowsMatchState`); and the sweep's guard tells the
  status of the row only through `TimersMatchWaits`.
* `NeverIdle`: `Spec => []NeverIdleAtDestination`. `Places` says where the parcel
  is in each state and where it is bound: an open leg does not start at the
  destination and the stay reserved for it is its end.
* `StorageNeverRewinds`: `Spec => StorageClockMonotone`, an action property.

The *effects* lemmas, one per event, say what an event does to the rows and the
money given `BoardInv` (which is the active leg, which holds are committed to
which verb); `StepEffects` joins them, and the proofs of `Places` and of all the
money invariants have a step per effect instead of per action. They assume
`IdsDisjoint` (ids of different tables differ, so a timer's ref names one row)
and `HubsAndFlag`.

### Money (`MoneyProofs`)

* `CustodianAlwaysBonded`: `Spec => []BondedCustodian`. While no
  hold dies at a wallet (`~HoldsMayDie`, written into the property) a hold is lost
  only to a verb; `VerbInv` says that verbs are out only for what is over
  (`NoEarlyVerb`) and that a row not used yet has no holds (`FreshRows`), and
  `Bonds` states the property payment by payment.
* `PaymentsMoveForward`: `Spec => [][MovesForward]_vars`, an action property. A
  hold is created only under a key that no payment had (`FreshRows` again: an
  event creates for rows it is the first to use), and then only moves onward:
  what is settled or cancelled stays so, and nothing settles that was not held.
* `SettledOnlyForOutcome`: `Spec => []SettlementMatchesOutcome`. A hold settles
  because a release was committed, so `ReleaseSettles` says the same of releases
  that wait.
* `HoldsAlwaysAccounted`: `Spec => []OpenHoldsAccounted`. `HoldInv` gives, table
  by table, the status of the row that each open hold without a verb secures;
  the bonus of a stay is of the leg or the claim that goes there (`BonusRow`).
* `JournalAlwaysAudits`: `Spec => []JournalPassesAudit`. `Standing` is the life
  of one payment: which entries and verbs go with each state of it. A release is
  committed only on a hold that is held, which for bonuses, the one hold that
  outlives its leg, is `BonusInv`.

### One payment (`CoordinatorProofs`)

For any observers, creators and numbers of crashes:

* `TypeCorrect`: `Spec => []TypeOK`;
* `WalletAlwaysAgrees`: `Spec => []WalletAgrees`, with however many observers and
  whether or not holds die late (`single` has one). `CallsKnowWallet` says what a
  call knows of the wallet when it is about to write the row.
* `LedgerNeverFallsBehind`: `OneObserver => (Spec => []LedgerNeverBehind)`, even if
  holds die late. The observer's view of the row is never stale (`NotStale`), and
  each step that posts or flips finds in the ledger what it relies on
  (`CallsKnowLedger`).
* `PromiseIsKept`: `OneObserver /\ ~HoldsDieLate => (Spec => KeepsPromise)`: the
  refinement of `Commitment`, step by step. `OneDirection` is the strengthening:
  a release is committed exactly if it is journalled, and then the hold lives;
  a refund is journalled only if it is committed or the hold is dead.

With a second observer a held entry may be posted for a row already dead (above),
so `OneObserver` cannot be dropped.

### One deposit request (`ExecutorProofs`)

* `GivesBackWhatItMade`: `Spec => []GivesBackItsOwn`, even if accepts overlap: a
  hub's bond is the accept's own (`BondsApart`), so what others undo is not its.
* `BookedStaysBonded`: `~Overlap => (Spec => []BookedIsBonded)`. What the pump saw
  before its transaction is still so in it (`PumpIsRight`), as no accept is left
  that could compensate (`NobodyUndoes`) and no verb is out before the leg is
  dissolved (`NoVerbYet`). `compensation` shows that `~Overlap` cannot be dropped.

### Amounts (`PricingProofs`)

For any distances that are zero only from a hub to itself (no triangle
inequality), any fees up to the cap, offer and boosts:

* `MoneyIsConserved`: `~Overlap => (Spec => []CommitmentConserved)`. What can
  still be paid is kept down by a rate: there are N and K so that the pool over
  any way r is at most N/K times r, and what was paid and the whole way left at
  that rate is within what was committed (`WorkIsBacked`). A leg pays out at most
  the rate times its progress; a boost with work w at a distance d from the
  destination changes the rate to (N d + K w) / (K d), which adds w to the way
  left; a reroute starts a segment with the rate its pool gives. `ChainIsRead`
  says that what `context.ts` accumulates from the chain is the segment's.
  `~Overlap` cannot be dropped: with overlapping requests TLC finds a reroute
  priced before another commit that pays out more than was committed (above).
* `ParcelNeverStuck`: `~Overlap /\ BoostsReachThePool => (Spec => []AlwaysPriceable)`.
* `EstimateAlwaysBrackets`: `~Overlap => (Spec => []EstimateBrackets)`.

The loops are recursive functions; what they compute is proved by induction over
their length, as a least counterexample (`LeastNatural`, `NaturalsInductive`,
`LoopExists`): the library's induction rules have an operator parameter, which
the provers cannot instantiate.

### Fees that gate (`CheckoutProofs`)

For any callers in any roles, any number of legs and invoices, any windows and
any clock:

* `CertificationIsPaid`: `Spec => []CertifiedIsPaid`, whether or not payers
  overlap, requests stall or reroutes happen. The double payment of `double_fee`
  costs money; it never certifies what was not paid. The invariant `Reliable`
  says that a row never stores more than its wallet knows (a settled row's
  invoice is settled, a stored hash is an invoice of that key) and that a request
  carries only what it read from such a row; invoices only grow and a settled one
  stays so, which keeps what other requests carry true.
* `PickupIsConfirmed`: `~MayStall => (Spec => []PickedUpWasConfirmed)`. The
  executor acts on the current leg, not on the one that was confirmed; `AllAgreed`
  says that they are the same while no leg is booked behind a request's back.
* `FeeIsPaidOnce`: `PayersAtOnce = 1 => (Spec => []FeePaidOnce)`. `OnlyInvoice`
  says that every invoice ever issued for a key is the one its row stores, which
  holds because the only request that may be about to issue one has read the row
  without an invoice, and nobody else is between. A second payment would need a
  second invoice, and a wallet refuses to pay one invoice again.

The two hypotheses are those under which TLC checks `handover`; `double_fee`
shows that the second cannot be dropped.

### People, chain and secrets (`CustodyProofs`)

For any users, hubs, owners and bounds and whatever events race (`Racing` is
arbitrary unless said):

* `PartiesDiffer`: `Spec => []SelfPaymentImpossible`. The machine does not check
  the parties again, so the invariant `RolesInv` also speaks of every leg request
  still pending: wherever the parcel may have moved to since its route checked
  it, and wherever it would be returned to, its roles are apart
  (`RequestsApart`). `RowsOfState` tells which rows are open in which state and
  `RowsApart` that the committed ones keep their parties apart.
* `CustodyIsWitnessed`: `Spec => []ChainAgreesWithRows`. The executor reads the
  tail again under the shipment's lock, and not the one of the bundle, so an
  append extends the one line (`AppendsInLine`); and each event names the
  custodian that its rows give (`ChainFollowsRows`), for which the rows must be
  those of the state (`RowsOfState`).
* `RecipientIsInvited`: `Spec => []RecipientHoldsLiveSecrets`: what is live was
  minted by a transaction that mailed it to the recipient it wrote, and a change
  of either reissues it (`SecretsFollowRecipient`).
* `OnlyRecipientCollects`: `"reroute" \notin Racing => (Spec => []CollectedByRecipient)`:
  who shows the live secret is the recipient, and no reroute comes between.
* `ReviewersTookPart`: `PagesSpec => []ReviewsAreEarned`. `ReviewInv` says that
  closed rows and the chain name exactly those who had a part, at every moment:
  the funding of a claim is in the chain before its row says so (`FundingsTold`),
  and every hub the parcel was at is named by a leg (`HubsKnown`).

* `PagesOfferWhatIsLegal`: `"reroute" \notin Racing => (PagesSpec => []PagesMatchApi)`.
  Where page and API read the same row they agree at once; where the page reads
  what was and the API what is, an invariant has to join them (`PagesInv`): a
  closed row never looks live (`PastIsClosed`); the chain closes each claim it
  tells of before it tells of the next, so the dashboard, which counts the events
  about claims, finds the live one (`ClaimStory`); and the recipient of a parcel is
  a user (`RecipientKnown`). Who is let collect is `CollectedByRecipient`'s
  invariant, hence the same hypothesis about reroutes.

It assumes of the constants that the sender owns neither end of the shipment,
which `POST /shipments` checks, that names are names, and, for the pages, that a
person owns one hub at most (`OneHubEach`: `hubs.user_id` is unique).

### Services (`ServicesProofs`)

* `SignInIsAtomic`: `AccountsSpec => []AtomicSignIn`. Only the last account of an
  address may be alive (`OnlyLastAlive`), which a verification looks for again in
  the transaction that adds one.
* `PairsNeverChange`, `FrozenIsTrusted` and, joining them, `FrozenStays`:
  `RatesSpec /\ RoadsSpec => []FrozenForLife`. A stored distance is never written
  again, and what resolvers hold was read from the table. The median of three or
  more prices lies within the prices of the honest tickers if one is wrong; a
  round that is shared is recent for all who share it (`RoundIsRecent`). Assumes
  that there are as many tickers as the quorum, that the right ones quote within
  one range, and that the cache's age is within that of what may be shown.
* `AnswersStayTrue`: `NwcSpec => []AnswersAreTrue`: replies that match a request
  are the wallet's, and true while the call was in flight (`RepliesAreTrue`,
  `LookupWitnessed`); what is reported settled or cancelled stays so
  (`NothingUndone`).
* `AdvertisedStays`: `BoardSpec => []AdvertisedIsKept`. The two roundings differ by
  at most a metre, both paths agree on whether the destination is reached, and a
  metre more of progress adds at most the pool's worth of a metre and a satoshi
  for each of three roundings. Assumes `BoardConfigured` and `HubsApart`.
* `OrderedIsShortest` and, for the trips of a carrier, `RouteStaysShortest`:
  `ItinerarySpec => []RouteIsShortest`, for any hubs, parcels, distances, cap and
  number of legs. The canonical sort puts a pickup before its drop, so some order
  is feasible. By induction over the size of a subset, an entry of the table is
  there exactly if a feasible way through the subset ends at its last waypoint,
  and is then the shortest of them (`SearchIsBest`): each such way is one through
  the subset without its last waypoint, and a step (`EveryWayFromSome`). The way
  that `orderRouteWaypoints` takes at the full set is one of them
  (`ChosenIsShortest`). The feasible ways through the indices are the orders that
  visit each waypoint once and pick up first (`FeasibleIsOrder`,
  `OrderIsFeasible`), whatever the sort did with equal ids. The invariant is
  `LegsAreRouted`. Assumes `ItineraryConfigured` only.
* `MailsEndOnce`: `MailSpec => [](WarnedOnce /\ TriedEnough) /\ [][EndedStay]_mailVars`,
  for any limits and crashes: the safety half of `MailSettlesOnce`, and that a row
  sent or given up is never reopened. What the dispatcher holds in its batch is
  still pending in the table (`BatchPending`), since there is one dispatcher.

### Only model-checked

All liveness, since temporal reasoning under fairness is out of the prover's
reach: `EveryWaitEnds`, `MoneyComesHome`, `RefundsConverge`, `InvoicedResolves`,
`VerbCarriedOut`, `RequestEnds`, `DissolvedLegComesHome`, `MailSettlesOnce` (but for
its safety half), `OrphansSwept`. Every other property of a passing run is stated
by a theorem.

## Not modelled

* Encryption, signatures, hashes and wire formats: taken to be perfect.
* Postings and balances of the ledger (`ledger.ts:95`), the balance pass of the
  reconciliation and its limit of 50 intents; the limit of 50 timers per sweep.
* The time lock of a hold, and so what becomes of a late payment of a lapsed
  invoice (`coordinator.ts:258`).
* A second mail dispatcher, which a redeploy can cause.
* Coordinates and floating point: distances are given.
* Start-up, migrations, layout and texts of the pages, profiles and listings.

## What remains to prove

* The liveness properties, with a prover that reasons under fairness. What they
  rest on is there: each wait has its timer, each open hold its verb, each request
  its end.
* `Photos`. That a row has its blob is not an invariant of this code: an upload of
  the same bytes can lose it to the purge (see *Where code and words differ*), so
  there is only `OrphansSwept`, which is liveness.
* A refinement of `Shipment` by `Executor`: the two grains share names but not
  state, and are compared by what each promises of a booked leg.
