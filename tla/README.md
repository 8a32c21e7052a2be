# A formal model of dashfetchr

dashfetchr moves parcels the last mile: a customer books a delivery from a
parcel locker, a carrier is chosen and given the order, and on the way every
hand-over is recorded, with evidence, in an append-only chain of custody. This
directory models the Go program in TLA+, checks small instances with TLC, and
proves the main safety properties for every instance with TLAPS.

    tlc -config DeliveryFlow_races.cfg MCDeliveryFlow.tla
    tlapm DeliveryFlow_proofs.tla

`PROJECT.json` maps every definition to the lines it models and lists the runs,
the deliberate bugs (mutants) each property catches, the findings and the
theorems.

## 1. The system

### Components, their state and their operations

| component | state | operations | what makes it correct |
|---|---|---|---|
| delivery state machine (`core/delivery`) | one leg: state, carrier, shipment, times | New, Schedule, Transition, MarkPickedUp, MarkDelivered, MarkFailed, Cancel | stored states move along the graph; fields agree with the state |
| custody ledger (`core/custody`) | per delivery, a hash-chained list of events | Record (read tail, append), Verify, List | one append-only list; Verify never fails; a hash commits to the history |
| custody service (`app/custodyapp`) | none of its own | Record: load leg, append event, apply transition, save leg | a state is only shown with a record of its event; an event that implies a state leads to it |
| webhook service (`app/webhook`) | none | Process: per domain event, find the leg, record or save; answer 204 | a webhook is lost by an error only; repeated and reordered webhooks do no harm |
| dispatch service (`app/dispatch`) | none | DispatchDelivery, DispatchPending | every servable pending delivery is assigned, with one order at one carrier |
| dispatcher (`cmd/dispatcher`) | ticker | DispatchPending every 30 s, batch of 20 | progress despite failures |
| booking service (`app/booking`) | none | CreateBooking: validate, save parcel, save leg | atomic, final |
| parcel (`core/awb`) | package, state, tracking numbers | New, AttachExternal, Transition | follows its leg |
| routing (`core/routing`) | strategy | Decide: filter, ask for estimates, select | the choice passes the checks and is best; giving up is forced |
| pricing (`core/pricing`) | tariff | Quote | bounded, monotone |
| repositories (`infra/memory`, `infra/postgres`) | the tables | Save (whole-row upsert), Append, Get, List | see those who use them |
| carrier adapters (`adapters/carriers/bolt`), registry (`carrier`) | Bolt's API behind `ports.CarrierPort`; versions | CreateShipment, GetEstimate, ParseWebhook; Register, SetPrimary, SetEnabled | idempotent on the key; the words for events and for states agree |
| HTTP (`infra/http`), event bus, authentication, configuration | none that matters here | requests come in | |

### How they interact

    booking --saves--> parcels, deliveries(pending)
    dispatcher, POST dispatch --> dispatch --> routing --> carriers (estimates)
                                   |--> carrier (CreateShipment) --> delivery(assigned)
    carrier webhooks --> webhook --> custody service --> ledger, deliveries
    rider checkpoints -------------> custody service --> ledger, deliveries

Everything is a direct call in the goroutine of an HTTP request or of the
dispatcher's loop, possibly in several processes, and they share the database.
No transaction spans two repository calls, rows carry no version, and `Save`
writes back the whole row. That makes the hard behaviours: handlers of one
delivery that interleave between two calls, a process that dies between them,
answers from carriers that are lost, webhooks that are repeated or out of
order, and retries that start from the beginning. `PROJECT.json` lists them
under `hazards`, each at its line.

## 2. The modules

| module | models | state |
|---|---|---|
| `DeliveryStates` | the leg's graph, event types, evidence policy, event-to-state map | constants |
| `AppendOnlyLedger` | abstract: what a ledger promises | `history` |
| `CustodyLedger` | `custody.Ledger` over either repository | `log`, `pend`, `issued` |
| `DeliveryLifecycle` | abstract: a leg's public life | `state`, `evidence` |
| `DeliveryFlow` | webhook, custody and dispatch handlers of one or more legs; EXTENDS `CustodyLedger`, whose actions its own actions call | `rows`, `shipments`, and per handler `pc`, `job`, `want`, `copy` |
| `BoltJourney` | Bolt's orders and their webhooks, the mapper, the listener's answers, deaths of the process; EXTENDS `DeliveryFlow`, whose actions its own actions call | `happened`, `tries`, `hook`, `handled`, `answer`, `faults` |
| `Routing` | `Engine.Decide` and the strategies | `pc`, `todo`, `scored`, the scan |
| `DispatchOnce` | abstract: a booking gets one order, at one carrier, and its row comes to name that carrier | `booked`, `ordered`, `named` |
| `Dispatcher` | the loop, the endpoint and `DispatchPending` over many legs | `created`, `assigned`, `orders`, per worker `pc`, `todo`, `current`, `chosen` |
| `AtomicBooking` | abstract: orders appear whole | `bookings` |
| `Booking` | `CreateBooking` behind the API, and customers who retry | `awbs`, `deliveries`, per request `pc`, `trip`, `draft` |
| `Pricing` | `Engine.Quote` | `request`, `quote` |
| `MC*` | constants for TLC | |
| `*_proofs` | theorems | |

How state and actions correspond to the code:

* **CustodyLedger.** `ReadTail(r, d, q)` is Record up to the point where it has
  computed the event (`ledger.go:41-62`); `AppendOK` and `AppendFails` are the
  repository's Append, with the UNIQUE constraint (`Conflicts`) for Postgres and
  without it for memory. A hash is the list of payloads it commits to, so two
  hashes are equal exactly when a collision-free SHA-256 would be; the payload
  leaves out the sequence number as `computeHash` does.
* **DeliveryFlow.** A handler (goroutine) holds a `copy` of the row from its
  GetByID to its Save. One action per repository or carrier call: `LoadDelivery`,
  `ReadLedgerTail`, `AppendToLedger`, `SaveDelivery` for custodyapp.Record;
  `SaveRider`, `SaveCancel` for the webhook service's own saves;
  `CreateShipment`, `SaveDispatch` for dispatch. `Abandon` ends a handler
  between any two calls: an error return or a dead process. Webhooks may come
  any number of times in any order for a shipment the row names.
* **BoltJourney.** `Happen` moves Bolt's order on and begins a webhook with
  `MaxTries` attempts. `Deliver` is an attempt that starts a handler of
  DeliveryFlow with the event that `ToDomainEvents` makes of it; `Ignore` is one
  that finds no row or no case in the switch, and is answered with success all
  the same. `Work` is a call that succeeds; when it is the handler's last the
  listener answers 204, which may get lost. `GiveUp` is a call that returns an
  error, by a fault or because the sequence number is taken: Process swallows it
  and the listener answers 204 too. `Die` ends a handler with no answer.
  `Checkpoint` lets the phone report what has happened and nothing else. `Polled`
  is `fromBoltStatus`: the state Bolt would answer after an event. `happened`,
  `handled` and `answer` are history: only properties and Bolt read them.
* **Dispatcher.** `Tick` lists a batch, `Load` re-reads one delivery, `Route`
  decides among the carriers that answer, `CreateShipment` or `CreateTimesOut`
  place the order (a carrier answers a key it knows with the order it has, so
  orders are a set of records with the key), `Save` writes the row. `CallFails`
  and `LoadFails` are errors that DispatchPending logs before it goes on,
  `Crash` drops the rest of the batch. `Routing` details the one step `Route`.
* **Booking.** `Post` is everything before the first save; `Save`, `SaveFails`
  the two saves, which fail with or without having written; `Answer`,
  `AnswerLost` the response. `Carry` stands for all that happens to a leg later
  (`DeliveryFlow`), none of which touches the parcel.
* **Routing.** `Decide`, `GetEstimate`, `EstimateFails`, `Scan`, `Select` follow
  the function and its loops; carriers are asked in any order since the
  registry ranges over a map. The weighted score is multiplied by both spreads,
  so that it stays an integer. `buildShipmentRequest` and `buildCapabilities` are
  what dispatch asks and what Bolt declares.
* **Pricing.** `Quote` in one step. A slot is the hour at which it starts, as
  written, or none.

Definitions named `X_Something` and marked "Mutant" are X with a plausible bug.
No action uses them; each property's mutant, once put in X's place, makes TLC
find the property violated.

## 3. The runs

Runs that pass:

| run | instance | shows |
|---|---|---|
| `ledger_postgres` | 3 recorders, 2 chains, 4 events | chain verifies, hashes commit to the history, Record implements one atomic append |
| `flow_races` | 2 handlers, 1 leg, 4 events, checkpoints and webhooks of the rider, the delivery and the cancellation, some requests without their evidence | no state without a valid record of its event, rows coherent, shipments real, chain verifies |
| `journey_retries` | one leg with Bolt from dispatch to its end, 4 kinds of webhook, 2 attempts each, 3 checkpoints, two faults (failed calls, lost answers, deaths) at any points | rows and ledger never ahead of what happened; a webhook is recorded, and an order given up is shown in the row, unless a swallowed error or the end of the attempts loses the webhook; implements `DeliveryLifecycle` |
| `dispatcher_races` | loop and endpoint, 3 deliveries of which one is hopeless, lost answers and crashes | implements `DispatchOnce`; orders are adopted by their rows; every servable delivery is assigned in the end |
| `routing` | 3 carriers of which one is Bolt as shipped, 24 shipments, 8 estimates, 3 strategies | the choice passes the checks the engine makes and is best; giving up is forced |
| `booking` | 2 customers, 3 requests, 2 faults, 5 trips | atomic booking; answered means stored; a stored leg has a stored, readable parcel |
| `pricing` | 420 requests around all boundaries | bounded, monotone |

Bounds, and why they are enough. The ledger's conflicts are between two
recorders at one tail; a third lets a loser retry against a winner, and the
second chain shows that chains do not interfere. Four events reach `delivered`
by the shortest path (arrival, pickup, arrival at the door, delivery), and each
lost update needs two handlers. One carrier is enough there: no action
of DeliveryFlow looks at another carrier's shipments. Webhooks that report
a failure are in `journey_retries`; the theorems hold for all of them,
overlapping, with any number of carriers. Dispatcher needs an old delivery that
cannot be served, and two younger ones, to tell a batch that is smaller from one
that is larger; one fault per run already gives a retry that meets the traces of the
attempt before. There one carrier at most is eligible for a delivery, as when one
adapter is registered for each area; `dispatcher_second_order` shows what happens
when two are. BoltJourney needs one handler and one leg: in `RetrySpec`
handlers of a leg do not overlap, and legs share nothing. Two attempts and two
faults give every place at which a first attempt may end, by an error, a death or
a lost answer, and a second attempt that meets what the first left and may itself
end anywhere, the last one too. `MaxEvents` is large enough for every attempt to
be recorded, which the liveness properties would otherwise refute. Bolt posts four
kinds of webhook there: the rider, the delivery, the failure and the cancellation.
What the others would record the phone reports. The safety
properties are proved for all kinds and any number of handlers, attempts and faults.
In Booking three requests let one customer fail twice, or two customers
interleave. `MaxEvents`, `MaxReports`, `MaxFaults`, `MaxMoves` and
`MaxTime` bound the only counters and each stands in a guard.
`CHECK_DEADLOCK FALSE` appears where all is done once the bound is reached
(ledger, booking), the one quote is made (pricing) or the order has ended and
its webhooks are answered (journey).

Runs that find a violation, each of something a doc or a comment says:

| run | what the code does |
|---|---|
| `flow_illegal_transition` | a stale Save makes the stored state move against the graph (`state.go:20`) |
| `flow_event_not_applied` | an event the graph refuses is recorded and never applied (`custodyapp/service.go:42`) |
| `dispatcher_starvation` | a batch of hopeless deliveries starves the younger ones (`dispatch/service.go:97`) |
| `dispatcher_second_order` | two carriers are eligible; the first accepts and its answer is lost, the retry goes to the other, and a second order is placed with the same key (`docs/ARCHITECTURE.md:36`) |
| `journey_repeat` | the answer to `order.assigned` is lost, `order.failed` is handled, and the repeated `order.assigned` reopens the failed delivery (`docs/ARCHITECTURE.md:36`, `bolt/capabilities.go:60`) |

Fairness. `DispatchSpec` has weak fairness of the ticks of the loop
(`runLoop` waits for nothing but its ticker) and of every worker's next call
(calls to the database and to carriers return, or fail by their timeout).
`MaxFaults` makes transient failures finitely many: nothing can be promised of
a carrier that never answers. A loop that dies is taken to be started again, by
whatever runs the process; the repository says nothing about that. Crashes are
not fair; the endpoint's requests need not come. `RetrySpec` has weak fairness
of every handler's next call, which succeeds or fails, for the same reason, and of
Bolt's next attempt at each webhook while no handler is at work on the leg, which
is what `capabilities.go:60` says of Bolt. Nothing else is fair there: orders need not move on, deliveries need
not be dispatched, and a process may die at any point. The other specifications
promise safety only, and the findings about progress and about repetition are
found under this fairness.

What the two liveness properties of `journey_retries` do and do not say.
Process answers 204 whatever became of the event (`webhook/service.go:47`), so "an
answer means a record" is false of the code and no property claims it. A webhook
can be lost in two ways, which `IsLost` names: a call failed and Bolt was told
that all was well, or no attempt got an answer. `RecordedUnlessLost` says that
there is no third way, and `ShownUnlessLost` says the same of the row: a death
between append and save, a lost answer, an event that comes early or late, or
one that comes twice, only delays. Both are of `RetrySpec`, whose one restriction is
that handlers of one leg do not overlap; with overlap a stale save may undo what was
shown (`flow_illegal_transition`). `ShownUnlessLost` is about one moment: that the
row need not stay so is what `journey_repeat` shows.

## 4. The proofs

Every theorem holds for all values of the constants (any number of recorders,
handlers, deliveries, carriers, requests and faults) under the named ASSUMEs of
its module, which only give types and say that null values are not values.

* **CustodyLedger_proofs.** The invariant says that the list of each delivery is
  linked from genesis, that hashes are the lists they commit to, that ids are
  fresh, and that a pending event was computed from some prefix of the list.
  `ChainVerifies` alone is not inductive: an append keeps the chain only because
  a pending event with the next free sequence number must have been computed
  from the present tail; the UNIQUE constraint supplies exactly that.
  `LedgerImplementsAppendOnly` needs only fresh ids and validated events, so it
  holds for both stores. What an append does to a chain is a lemma about
  sequences (`AppendChained`), and so is what Verify finds in one
  (`ChainedVerifies`): the proofs of the serial system use them again.
* **DeliveryFlow_proofs.** `StateHasEvidence` is strengthened to the copies that
  handlers hold: every copy is coherent and backed by events on record or, at
  the point of saving, by the event just appended. As the ledger only grows, a
  stale copy stays backed. Each action of the flow is shown to be a ledger step
  or a stutter (`FlowImplementsLedger`), which carries over `ChainVerifies` and,
  for both stores, `ImplementsAppendOnly`.
* **DeliverySerial_proofs.** When handlers do not overlap, the copy of the one
  handler at work equals the row it is about to replace, up to its one
  transition, so every save is a step of `DeliveryLifecycle`,
  and no row leaves the graph (`SerialKeepsTheGraph`; the run
  `flow_illegal_transition` shows what overlap does). `SerialChainVerifies` has no
  assumption on the store. Its invariant, `TailInv`, is stronger than the ledger's:
  a pending event continues the chain as it is now, not as it once was, because
  nobody else appends between a handler's two calls. So the constraint in the
  schema is what the ledger needs against overlapping handlers, and nothing else.
* **BoltJourney_proofs.** Every step of the composition is a step of `FlowNext`,
  or of Bolt alone (`JourneyImplementsFlow`), and every step of `RetrySpec` one
  of `SerialNext`, which carries over all that is proved of DeliveryFlow.
  `NeverAhead` is not inductive, since rows are overwritten with copies and the
  ledger is extended with what handlers carry: `Truthful` says the same of every
  copy and of every event in flight. It is kept because what has happened to an
  order only grows (`KnownGrows`), and started because the mapper's two tables
  agree (`MapperAgrees`): what an event moves the row to is what Bolt would
  answer when it is polled.
* **Routing_proofs.** An invariant of the scan: the best so far is available and
  beaten by no candidate before `next`. `SortingFindsTheFit` shows that
  comparing sorted sides decides the existence of a fitting orientation.
  `BestByOneMeasure` is for cheapest and fastest. `ChoiceIsBest` adds the
  weighted strategy: the least and the greatest answer exist in every
  set of answers (`SmallestSubset`: a finite set has no endless descent of
  subsets), so the spreads are positive, and an answer that dominates another
  scores more (`DominatingScoresMore`). That takes positive weights, an assumption
  of the theorem: whoever builds a `WeightedScoreStrategy` sets its weights, nothing
  checks them, and a measure whose weight is zero is not looked at.
* **Dispatcher_proofs.** Every order bears the delivery's own key, and workers
  only go to eligible carriers. `DispatchImplementsDispatchOnce` needs, as an
  assumption of the theorem, that at most one carrier is eligible per delivery;
  `dispatcher_second_order` shows why. It maps the orders at the carriers and the
  rows to `DispatchOnce`: placing an order a second time is a stutter, and a save
  adopts the one order there is, since what a worker is about to save has an
  order already (`PlacedInv`). `AssignedRowsHaveOrders` is the part that holds
  for any number of eligible carriers.
* **Booking_proofs.** The invariant follows a request through its two saves; the
  step that inserts the leg finds the parcel stored, and is the abstract `Book`.
* **Pricing_proofs.** Rounding keeps the order of distances; the cases of the
  discounts do the rest.

Only model-checked: liveness (`PendingIsDispatched`, `OrdersAreAdopted`,
`RecordedUnlessLost`, `ShownUnlessLost`), which is beyond the prover as it rests on
fairness, and the violations. Every other property of a passing run is a theorem.
Only proved: that the chain verifies in the memory store when handlers do not
overlap; the runs are of the Postgres store.

## 5. What is not modelled

Authentication and middleware (they decide before any state is touched), JSON
and SQL encoding, haversine, floating-point rounding, logging, health checks,
configuration, the event bus (no subscriber), ports without an implementation
(payment, notification, locker access), the carrier stubs, retailers and the
routing log. Versions, primaries and switched-off carriers of the registry are
left out because no running code calls `SetPrimary` or `SetEnabled`: the
registry is filled once, with one adapter. Of the Bolt adapter the translation
of fields into Bolt's requests, the signatures of webhooks and the kinds of
errors (`client.go`) are left out: no caller's state depends on them. Hashes do
not collide and generated ids are fresh. DeliveryFlow starts from booked legs and Dispatcher books in one step; that booking is
atomic is what `Booking` shows. Dispatcher's rows only change by dispatch; that
other handlers race with it is what `DeliveryFlow` shows.

Observed on the way and not made into runs of their own. Changing a constant of
the runs above shows the first two:

* Over the memory store two concurrent Records read one tail, and the chain they
  leave is one that Verify rejects (`ChainVerifies`, `Store = "memory"` in
  `CustodyLedger_postgres.cfg`); what holds for that store too is
  `LedgerImplementsAppendOnly` and, without overlap, `SerialChainVerifies`.
* When the cheapest carrier refuses a delivery no other is tried, and the next
  tick chooses it again, although `docs/ARCHITECTURE.md:588` and
  `ports/carrier.go:255` speak of a fallback (`PendingIsDispatched`, with
  `Serves <- Competing` and the cheaper carrier in `Rejects`).
* Carriers declare the zones they cover, and `docs/ARCHITECTURE.md:581` and the
  comment of `eligible` (`engine.go:88`) have them filtered by zone. The code makes no such
  check (`engine.go:109`: "for v1 we trust caller"), Routing has no zones, and
  `ChosenCanServe` is about the checks that are made.
* Every error of a single event is logged and the webhook answered 204 all the
  same (`webhook/service.go:47`), so Bolt does not send it again: a webhook that
  meets a failing database or loses the race for a sequence number is lost
  (`GiveUp` in BoltJourney). So is one that overtakes dispatch's save and finds
  no row with its order (`service.go:63`, `Ignore`): without its condition that
  the row names the order `RecordedUnlessLost` is violated.
* Bolt's webhooks alone bring no leg to `delivered`: in-transit and arrival
  events are only logged (`webhook/service.go:92`) and `picked_up` has no edge
  to `delivered`, so the delivery is recorded and not applied. In BoltJourney it
  takes the checkpoint of the arrival at the door.
* A webhook that brings no photo or location is recorded with placeholders
  (`webhook/service.go:157-166`), where `docs/PRODUCT.md:306` says that a leg is not
  delivered before its photo is there. In the models `photo` and `gps` are what
  Validate counts, so `StateHasEvidence` cannot tell a placeholder from a photo.
* The request that dispatch builds names no recipient (`dispatch/service.go:121`)
  and Bolt's mapper refuses a request without the recipient's phone
  (`mapper.go:26`).
* Carrier errors are wrapped so that callers can inspect them "with errors.Is
  using the standard ports.Err* sentinels" (`client.go:163`), but no sentinel is
  in the chain.
* A customer who sends a booking again books twice: the key of a leg is its own
  fresh id (`booking/service.go:123`) and nothing reads the table of idempotency
  keys, although `docs/ARCHITECTURE.md:36` says that duplicates are no-ops.
* Dispatch and cancellation change the state with nothing in the ledger
  (`docs/ARCHITECTURE.md:33`).
* The carrier a booking names (`booking/service.go:58`) is overwritten by
  dispatch; nothing after booking moves the parcel, so that a delivered parcel
  is still `at_locker`.
* An evening slot written in UTC is quoted without the premium: the hour is
  taken as the client wrote it (`pricing.go:132`), though the tariff is Romania's
  (`pricing.go:49`). Pricing has slots as written, and no property about the evening: it
  would be false of such slots and restate the guard for all others.
* Booking creates the last-mile leg as leg 1 while `delivery.go:4-6` and the
  schema call it leg 2 (`booking/service.go:99`).
* With the present wiring no carrier is eligible for any booked leg: each begins
  at a locker (`booking/service.go:101`), Bolt is the one adapter registered
  (`wire.go:24`) and declares no locker pickup (`bolt/capabilities.go:33`, `:51`),
  and `eligible` refuses such a carrier (`engine.go:103-108`). `docs/PRODUCT.md:234`
  has Bolt's riders pick up at lockers. (`Carriers = {bolt}` in `Routing.cfg`: no
  request from a locker ends in `chosen`.)

## 6. Plan

Done, in this order: the ledger and its abstraction; the flow of one leg and its
lifecycle; routing; dispatching; booking; pricing; Bolt's orders and webhooks
composed with the flow; proofs of each.

Next, by importance:

1. Dispatcher with cancellations and webhooks between its calls, refined by
   DeliveryFlow's rows, and Routing as the refinement of `Route`.
2. Proofs: DeliveryFlow with the serial order per delivery weakened to row
   versions (what an optimistic lock would buy); uniqueness of orders with
   several eligible carriers under a routing decision that is kept.
3. `CarrierRegistry`, once something that runs switches versions.
