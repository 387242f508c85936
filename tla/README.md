# Trams: specifications and proofs

TLA+ models of Trams, an event-driven pair of TypeScript services behind an API
gateway: a **User Service** whose transactional outbox feeds a NATS JetStream
stream, and a **Notification Service** that consumes the stream and mails people.
TLC model-checks small instances; TLAPS proves the central properties for every
value of the constants. Paths below are relative to the repository root.

    client -> API Gateway -> User Service -> outbox_events -> OutboxPublisher
                                                                  |
                          dead_letters <- ConsumerRuntime <- stream USER_EVENTS
                          DLQ stream   <-        |
                                          notification handler -> notifications, mail

## 1. Inventory

| component | state | operations | hard behaviours |
|---|---|---|---|
| **Accounts and sessions** (`auth-service.ts`, `user-service.ts`, repositories, routes) | `users`, `refresh_tokens`, rows of `outbox_events` | register, login, refresh (rotation, reuse detection), logout (one or all), update profile, change password, delete account | a request reads, awaits, then commits one transaction: what it read may be stale; requests of several replicas interleave; a request may end anywhere |
| **Outbox** (`outbox-publisher.ts`, `outbox-repository.ts`, `publisher.ts`) | `outbox_events`, the batch of each publisher, the stream and its duplicate window | enqueue, claim, publish, mark published, record failure, start, stop | no lock on claimed rows, stale attempt counts, a lost acknowledgement, a message that arrives after its timeout, crashes and stops inside a batch, a statement that takes effect and throws, order per user by clock readings |
| **Delivery** (`consumer.ts`, `notification-handler.ts`, `notification-repository.ts`, `dead-letter-repository.ts`, channel) | the durable consumer's state of each message, `notifications`, `dead_letters`, the DLQ stream, the batch of each replica | fetch, parse, claim, send, mark sent or failed, ack, nak, park, term, start, stop | redelivery while a replica is still at work, duplicate messages, fire-and-forget acknowledgements, a budget counted on both sides, each await of a handler failing on its own |
| **Lifecycle** (`main.ts` of both services, `migrate.ts`, `streams.ts`, `shutdown.ts`, `connection.ts`) | tables, `_migrations`, the JetStream topology, registered teardown handlers, open resources, work in flight | migrate, provision, wait for the consumer, listen, shut down | replicas racing to migrate, a process dying half-way through a migration, services booting in any order, teardown order, a job that hangs |
| **API Gateway** (`proxy.ts`, `routes.ts`, `main.ts`, `discovery.ts`), with the guards and handlers behind it (`bearer-auth.ts`, `error-handler.ts`, the routes of both services) | calls under way, rate-limit counters | guard, limit, forward, relay, time out; in the service: guard again, validate, run the handler, reply | a 503 for a request the service commits later, and its repetition; a token that expires between the two guards, or outlives its account; a reply lost on the way back |
| Configuration, templates, correlation ids, health probes, cryptography | none | stateless | none |

The components meet in four places. Accounts and Outbox share `outbox_events`:
every transaction of Accounts that commits an event enqueues a row. Outbox and
Delivery share the stream: the one stores with `msgID = event.id`, the other pulls
with at-least-once delivery and claims `event_id` in a table with a unique index.
The gateway calls the handlers that run the requests of Accounts, and may give up
on a call that goes on. Lifecycle starts and stops the workers.

What makes each correct:

- *Accounts*: addresses are unique; the events committed tell exactly what became
  of the accounts; a rotated token is consumed for good; sessions end with the
  account, and with the password they were opened with.
- *Gateway*: a client is told what happened, or 503 or 500; a repeated request does not
  change anything twice; handlers run only for whom the API says they do.
- *Outbox*: `published` is never claimed of an event the broker does not have; no
  event is given up on early; a user's events keep their order; each row is resolved.
- *Delivery*: nothing is acknowledged without a mail or terminated without a
  record; a delivered event stays delivered; every message is accounted for.
- *Outbox and Delivery together*: every committed event ends mailed once, parked
  with a record, or given up on by a producer the stream never heard.
- *Lifecycle*: nothing runs before what it needs exists; nothing is closed under
  work in flight; everyone comes up in the end.

## 2. Modules

| module | models | variables and the state they stand for |
|---|---|---|
| `Delivery` | consumer, handler, sink | `status`, `deliveries`: the durable consumer; `pc`: the await each replica is at; `batch`, `cur`: its messages; `row`: `notifications.status` by event; `records`, `dlq`: where messages are parked; `emails`: history of accepted sends |
| `Outbox` | table, publishers, stream | `rowStatus`, `attempts`; `due` and `waiting`: pending rows on either side of `next_attempt_at`; `pc`, `batch`, `progressed`, `stopping`: each publisher; `stream`, `window`, `late`: the broker and the client's buffer; `tries`: history |
| `Accounts` | the writing requests | `status`, `email`, `name`, `password`: a `users` row; `token`: `refresh_tokens` by number of issue; `ledger`: committed events; `req`: what each request in flight has read and is about to do; `ended`: history |
| `Lifecycle` | two `main()`s, migrations, shutdown | `schema`, `applied`: tables and `_migrations`; `topology`; `at`, `todo`, `step`: how far `main()` is; `handlers`, `up`, `busy`: what a shutdown must get right |
| `EventLedger` | the abstract promise of the two services | `committed`, `stored`, `confirmed`, `givenUp`, `parked`: sets of events; `mails`: mails per event |
| `Pipeline` | Outbox and Delivery over one stream | extends `Delivery`, instantiates `Outbox`; a message can be pulled when its copy is on `stream` |
| `Gateway` | gateway, guards, handlers; extends `Accounts`, whose requests are the calls | `call`: what each call asks; `valid`: whose access token has not expired; `edge`, `back`: how far it is, or its answer, at the gateway and in the service; `actor`, `effects`, `latest`, `seen`, `outlived`: history |
| `Retries` | one outbox row against the clock | `rowStatus`, `attempts`; `wait`: seconds to `next_attempt_at`; `age`: seconds since the duplicate window opened; `copies` |
| `MCDelivery`, `MCOutbox`, `MCAccounts`, `MCLifecycle`, `MCPipeline`, `MCGateway` | instances for TLC | model values, small sets, symmetries |
| `DeliveryProofs`, `OutboxProofs`, `AccountsProofs`, `LifecycleProofs`, `PipelineProofs`, `GatewayProofs` | theorems | see section 5 |

In each module a step is what the code does between two awaits, so that other
replicas, timers and failures come in between. A database transaction is one step:
both dialects make it atomic, and the writes of each transaction here touch rows
that a concurrent one can only wait for. A definition that stands right before
another with a like name (`AlwaysSend` before `Verdict`) is a plausible mistake in
the code; it is used by no action, and replacing its neighbour by it shows that a
property notices.

### Correspondence in short

`Delivery.Fetch` .. `CopyAndTerm` are `ConsumerRuntime.loop`, `handle` and `deadLetter`
with the sink of the service's `main.ts`; `Claim`, `ReadExisting`, `Send`, `MarkFailed`,
`MarkSent` are the handler and the repository it calls, and `HandlerThrows` a rejected
await in it. `Outbox.ClaimDue` .. `RecordFailure` are `drain()` and `publishOne()`;
`SetPublished` and `SetFailure` the two updates, which name a row and ignore its status;
`JoinsDue` gives a row its place among the due ones, that of its `next_attempt_at`. A
publisher at `record` is in the catch of `publishOne()` after `publish()` threw, at
`unsure` after `markPublished()` did. In `Accounts` an operation is the read that
decides (`Login`, `Refresh`, `Update`, ...) and the commit that acts on it
(`LoginIssue`, `Rotate`, `UpdateCommit`, ...). `Lifecycle.Boot` .. `Listen` are `main()`
in its order, and `Signal` .. `ForceExit` `GracefulShutdown`. `Gateway.EdgeRefuses` is
the hooks of the gateway's `main.ts` and the guards of `routes.ts`; `Forwards`, `Relay`
and `UpstreamFails` are `proxy()`; `Rejects`, `Throws` and `TakeFails` the error handler
of a service, `TakeRegister` .. `TakeReadHistory` the first part of each route handler,
up to its first commit, and `Works` the rest. `Retries.Delays` is `backoffDelay()`. The
file and lines of each definition are in `PROJECT.json` under `map`.

### The refinement

`Pipeline` implements `EventLedger` under this mapping (`Pipeline.Ledger`): an event
is `committed` when it has an outbox row, `stored` when the stream has a copy,
`confirmed` and `givenUp` when its row says `published` and `failed`; `mails` counts
accepted sends for any copy of it, and it is `parked` when some copy has a record in
`dead_letters`. `MCPipeline` checks the ledger's specification (`KeepsPromise`) and its
liveness (`EveryEventEnds`); `PromiseKept` proves the former for any number of events
and messages. Steps of the ledger are where the hazards of both halves meet: `Confirm`
needs the stream to have the event and no one to have given up on it, `Mail` no earlier
mail, `Park` no mail at all. `Retract` takes a confirmation back, and `GiveUp` may: that
is the catch after a `markPublished()` which took effect and threw. An event given up on
stays so.

### Abstractions

- The order of `fetch()` results, message contents, rendering, log lines and metrics
  are left out. Rendering is total on what `parseEvent` accepts.
- `notifications.attempts` is written and never decides anything: left out.
- `claim()`'s branch for a row that vanished between the insert and the read cannot
  be taken, since nothing deletes notifications.
- In `Gateway` the counters of the rate limiter and the CORS allowlist are left open:
  any call may be refused by them. A connection that drops under a client is the 503
  it does not see. Calls are numbered in the order they are made; they overlap
  freely after that. Whether the owner's refresh token has expired is chosen at the
  start, for an expiry during two calls makes no other difference.
- The internal token always matches, since calls of the model come through the
  gateway. The Notification Service is read whatever rows it has.
- A statement that throws has had its effect by then, or never has it: the row is
  written or not when the catch runs, and nothing arrives later. Both are steps of
  `MarkPublished`, `RecordFailure`, `HandlerThrows` and `Park`; in `Gateway` a 500 may
  come after the commit (`TakeFails`, `Works`).
- The order of the outbox rows is that of `next_attempt_at`, a clock reading taken
  before the commit. `"stamps"` in `Faults` lets a new row take any place among the due
  ones, for commits that wait for one another, replicas whose clocks differ and equal
  milliseconds; without it a new row comes behind those enqueued before it. What is due
  is the same for all publishers.
- `app.close()` waits for open connections, so a handler whose client has disconnected,
  as the gateway does after 10 s, is not waited for. `Lifecycle.Awaited("http")` assumes
  that it is: `NothingClosedUnderWork` and `DrainedAtExit` speak of requests whose
  client is still there.
- Time, except in `Retries`: `ack_wait`, backoff delays, poll intervals, token expiry
  and the duplicate window are events that may happen whenever they are possible.
  `"expiry"` outside `Faults` stands for a deployment whose `ack_wait` exceeds any
  batch.
- A lost acknowledgement of a publish is either a stored message (`ackLost`), one
  not stored (`refused`), or one that arrives later (`late`).
- Passwords are numbers, a new one for each change; hashing has no state.
- The SMTP channel always registers its teardown in `Lifecycle`; the console channel
  has nothing to close, so it has fewer handlers and no other behaviour.
- `CREATE ... IF NOT EXISTS` that two Postgres sessions run at once may throw;
  this is `Die`, a step of `main()` that fails.

## 3. Runs

"Bound" below is what the instance cuts off; the bounds are constants of the
modules (`MaxDowns`, `MaxMishaps`, `LastEvent`, `MaxTokens`, `MaxBegun`) or guard
nothing but the environment. Runs that stop because a bound is used up or all work
is done switch deadlock checking off; `MCLifecycle` never stops and keeps it on.

| run | instance | shows |
|---|---|---|
| `MCDeliveryFaults` | 2 replicas, an event and a message that does not parse, budget 2, all 10 faults, 2 crashes or stops | `TypeOK`, `AckedMeansEmailed`, `TermedMeansRecorded`, `CopyMeansRecorded`, `DeliveredForGood` |
| `MCDeliveryTwoReplicas` | 2 replicas, 1 message, `ack_wait` runs out | `MailedAtMostOnce` **violated** |
| `MCOutboxFaults` | 2 publishers, 2 events of which one is corrupt, budget 3, all 8 faults, 2 mishaps | `TypeOK`, `PublishedMeansStored`, `GivenUpAfterBudget` |
| `MCOutboxOrder` | 2 publishers, 2 events, lost acknowledgements, failing database, crashes, stops, 3 mishaps, fairness | `FirstCopiesInOrder`, `StoredOnce`, `EveryRowResolved` |
| `MCOutboxRefused` | 1 publisher, the broker refuses a message | `FirstCopiesInOrder` **violated** |
| `MCAccountsConcurrent` | 2 accounts, 2 addresses, 2 names, 2 requests in flight, 3 tokens, 5 requests | `TypeOK`, `UniqueEmails`, `LedgerMirrorsUsers`, `ConsumedIsRevoked`, `NoOrphanSessions` |
| `MCAccountsSerial` | 2 accounts, 1 request at a time, 4 tokens, 6 requests | `OneLivePerFamily`, `EndedStaysEnded`, `SessionsMatchPassword`, `UpdatesChange`, `PasswordEventsChange` |
| `MCAccountsDoubleRefresh` | 1 account, 2 requests in flight | `OneLivePerFamily` **violated** |
| `MCPipeline` | 1 publisher with all 8 faults and 1 mishap, 1 event, 2 copies, 1 replica that stays up with lost replies, slow handlers, a failing DLQ and refused mails, budget 3, fairness | `NothingDroppedSilently`, `MailedAtMostOnce`, `KeepsPromise`, `EveryEventEnds`, `EverythingSettles`, `RowsMoveForward` |
| `MCGateway` | an account and one that can be registered, 2 calls of any kind, 2 addresses, 2 passwords, 3 tokens | `GatewayTypeOK`, `TruthfulAnswers`, `RepeatsChangeNothing`, `OutlivedTokensChangeNothing`, `CatalogueIsEnforced` |
| `MCRetries` | the default configuration: 10 attempts, 1 s to 60 s, a window of 120 s | `RetryLandsInWindow` **violated** |
| `MCLifecycle` | 2 User Service replicas and 1 Notification Service replica, 2 migrations of 2 statements, 3 mishaps, fairness | `TypeOK`, `RecordedIsBuilt`, `ReadyBeforeWork`, `NothingClosedUnderWork`, `DrainedAtExit`, `EveryoneServes` |

Why these bounds suffice. Two replicas are what every race of this code takes: the
tables and the broker arbitrate pairwise. Two copies of an event are a duplicate,
two events an order. A budget of 2 has a first, a last and no middle delivery;
budget 3 (`MCPipeline`, `MCOutboxFaults`) has all three. One event is enough in
`MCPipeline`, for events share nothing but slots and batches, and its copies do the
interleaving; that nothing is dropped for any number of replicas and messages is
theorem `NothingLost`. Two calls are a request and its repetition, or two requests
that overlap; a third would only precede them, and `MCGateway` starts from an account
with a session. The passing runs reach up to 2 million
distinct states; `MCRetries` finds its violation after some 7,000. Four tokens let a
session rotate twice beside another one, so an old token can be reused after its
successor was. The inductive invariants of section 5 do not depend on any bound.

What a property needs to hold is part of what the runs show: `MailedAtMostOnce` needs
one replica, a `markSent` that succeeds and no crash between send and mark;
`FirstCopiesInOrder` needs clock readings that follow the commits and a broker that
takes each publish it is given, `StoredOnce` a duplicate window that has not ended;
`NothingDroppedSilently` a `dead_letters` that accepts rows and processes that stay up;
the serial properties of Accounts need the requests of a session not to overlap.

### Fairness

The fairness of Outbox and Lifecycle (`FairSpec`) and of Pipeline (`FairPipelineSpec`)
is weak fairness of what goes on by itself:

- the next step of a live process (`Progress`): awaited promises settle, poll timers
  fire. A failing statement settles too, as a rejection;
- its start after it went down: `restart: unless-stopped` in `docker-compose.yml`;
- in Pipeline, those of the two halves, `PullStored`: the broker answers some pull while
  one can be answered, and `AckWaitEnds`: a timer of the broker; in Outbox,
  `BackoffElapses`;
- in Lifecycle, `ForceExit`: the 15 s timer of `GracefulShutdown.run`. Work in
  flight is *not* assumed to finish.

Nothing is assumed of faults: each may never happen, and crashes and stops end with
their bound, as the liveness properties ("once signals and deaths stop") say.

## 4. Disagreements with the documentation

Four runs exhibit one each; `PROJECT.json` quotes the sentences.

1. *One send regardless of replicas* (`docs/architecture.md:321`). The unique index
   admits one row, not one sender: a replica that finds the row `failed` while
   another is inside `channel.send()` sends too (`MCDeliveryTwoReplicas`).
2. *Order of a user's events* (`outbox-publisher.ts:143`). The drain goes on after a
   failed row, which comes back behind later ones (`MCOutboxRefused`).
3. *A session has one live token* (`auth-service.ts:240`). Two overlapping refreshes
   of a token both pass the check that is outside the transaction
   (`MCAccountsDoubleRefresh`).
4. *A retry always lands inside the duplicate window* (`subjects.ts:40`). One delay
   is at most a minute, but the window runs from the first copy and the delays add
   up: after a lost acknowledgement and six more failed attempts the eighth may come
   123 s later and be stored again (`MCRetries`). The consumer's index then keeps the
   copy from being mailed, as the same comment says.

Met while modelling and not kept as runs, each a short behaviour of the models:

- rows are taken by a clock reading that `enqueue()` takes before the commit
  (`outbox-repository.ts:34,63`). `deleteAccount()` enqueues and then waits for the row
  lock of an `updateProfile()` whose reading is later and whose commit is earlier:
  `user.deleted` is published first, with one publisher and no failure, against the
  sentence of item 2 (`Outbox` with `Faults = {"stamps"}`);
- a `markPublished()` that takes effect and throws is followed by a `recordFailure()`
  that has no condition on the status: with one publisher, a row goes from `published`
  back to `pending`, or to `failed` on the last attempt, where the diagram of
  `docs/architecture.md:159` ends with `published` (`Faults = {"db"}`);
- a `dead_letters` insert that fails on the last permitted delivery loses the message
  without a record, for the nak that follows cannot bring it back; `consumer.ts:297`
  says that such a failure leaves it eligible for redelivery;
- a mail is sent twice by one replica without a crash when `markSent` throws;
- each graceful stop uses up a delivery of what was fetched and not yet handled;
- of two publishers with the same row, the one that lost its acknowledgement turns
  the other's `published` back to `pending`, without a failing statement;
- `markFailed` of a slow replica lands after `markSent` of another one and turns a
  delivered row back to `failed`;
- a row ends `failed` although its event is stored, when every acknowledgement of
  it was lost;
- a refresh in flight outlives a logout of all sessions; two equal profile updates
  in flight emit two events; a password change whose account is gone emits an event;
- a logout with a rotated token clears its `replaced_by`, which nothing reads;
- a refresh repeated after a 503 presents a token the first call has rotated: it is
  taken for theft and ends all sessions of the user, the new one included;
- a 503 stands for "unreachable" in `docs/api.md:57`, but also for a request that was
  committed after the gateway's timeout; a 500 also for one whose commit took effect
  before its connection to the database was lost;
- two *overlapping* updates of a profile with the same content both emit an event;
  `RepeatsChangeNothing` is about repetitions after the first has committed;
- `changePassword` "revokes all other sessions" (`user-service.ts:132`); it revokes the
  caller's too;
- `discovery.ts:28` and `docs/api.md` say that every public route has the tight rate
  limit; `routes.ts:51` declares `/auth/logout` without it;
- `discovery.ts:50` says a test fails on a wrong authentication level; the test
  replaces both guards by stubs that do nothing and compares methods and paths only, so
  it cannot notice one.

## 5. Proofs

All proofs hold for any finite or infinite sets the constants may stand for, under
the named assumptions of each module (which TLC evaluates on its instances), and any
combination of faults unless the theorem says otherwise.

*DeliveryProofs.* `TypeCorrect`. `PersistFirst`: `AckedMeansEmailed`,
`TermedMeansRecorded` and `CopyMeansRecorded`; they are not inductive, since an
acknowledgement is sent two awaits after the mail. `PersistInv` adds what each
program counter has behind it: at `confirm` and `ack`, and under a row `sent`, the
event was mailed; at `copy` the message was recorded. `DeliveredOnceForAll`:
`DeliveredForGood` as an action property, by cases on the step. `OneReplicaMailsOnce`:
under `OneReplicaAssumption` and `NoLostAttempt`, from `OnceInv`: one mail at most,
and none while the row is not `sent`, except by the attempt that is at `confirm`.
`NothingLost`: `NothingDroppedSilently` when `MaxDeliver <= BrokerMaxDeliver`, the
table accepts rows and no process goes down; `DropInv` follows the holder of the
last delivery through the handler.

*OutboxProofs.* `TypeCorrect`. `NoFalsePublished`: `PublishedMeansStored`; `StoreInv`
adds that a publisher at `mark` has its event stored, and that what is in the window is
stored. `GiveUpIsEarned`: `GivenUpAfterBudget`, although publishers write back stale
counts; `BudgetInv` says that each count, in the table or in a batch, is backed by that
many real attempts. `NoDuplicates`: `StoredOnce` under `WindowLasts` (no `msgID` is
forgotten); `OnceInv` adds that the window then knows the whole stream.
`CommitOrderKept`: `FirstCopiesInOrder` under `PublishesArrive` (no row is corrupt, the
broker refuses nothing and nothing is late) and `StampsFollowCommits` (a new row comes
behind those enqueued before it); acknowledgements may be lost, statements fail with or
without effect, publishers crash, stop and overlap. `OrderInv` says where the rows that
the stream does not have yet are: among the due ones; and in the due list and in every
batch a row comes behind all earlier events that are not stored, so that whichever
publisher comes first publishes the oldest of them; a row that has a counted attempt is
stored, so one back from its backoff is in nobody's way. Both hypotheses are needed:
`MCOutboxRefused` shows the order breaking without the first, the deletion that overlaps
an update (section 4) without the second. `OnePublisherMovesForward`: `RowsMoveForward`
under `OnePublisherAssumption`, the hypothesis its name announces; `ForwardInv` says
that a publisher's rows are distinct and carry the count of the table, that they are
pending, except that the one in hand may be published at `unsure`, and that no row is
due or waiting twice. `NothingInvented`: what is on the stream was committed and stays
there, for any number of publishers; `OriginInv` follows a message back through the
client's late ones and the batches to a committed row. `ProducerKeepsLedger` uses both:
with one publisher each step is a `LedgerStep`, what a step of the producer may show of
the events. It needs `ForwardInv`, for a row that is confirmed must be pending at that
moment and not given up on; with two publishers a row goes from `failed` to `published`.

*AccountsProofs.* `TypeCorrect`: users, tokens, requests and the ledger stay
well formed, whatever requests carry across their awaits. `AddressesUnique`:
`UniqueEmails`, inductive with the types, for each commit asks the unique index.
`SessionsConsistent`: `ConsumedIsRevoked` and `NoOrphanSessions`, under concurrent
rotations, logouts and deletions. They need `IssuedInv`: a row, and the token a
refresh has in hand, was issued, so the token that a rotation inserts is a new one.
`LedgerTellsUsers`: `LedgerMirrorsUsers`, inductive as it stands, with any requests in
flight: each commit tests the row as it is then, and its event carries the row as the
commit leaves it, whatever the request had read.

The other five properties fail when two requests of one account overlap
(`MCAccountsDoubleRefresh`). `SessionsSerial` (`OneLivePerFamily`, `EndedStaysEnded`,
`SessionsMatchPassword`) and `EventsStandForChanges` (`UpdatesChange`,
`PasswordEventsChange`) say that this is the only way: they hold of every behaviour with
`[]OneRequestPerUser`, in which the requests of *different* accounts overlap at will.
The hypothesis is about the behaviour and not the program, which serialises nothing;
it is what one client that awaits its answers does. `SerialInv` is the invariant:
what a request has read of its account is still so (`FreshRead`), families belong to
one account (`FamilyInv`), live tokens are the last of their family, not ended, and of
the present password (`TokenInv`). `OneRequestIsSerial` is the case of one request in
flight, which is what `MCAccountsSerial` checks.

*GatewayProofs.* `GatewayTypeCorrect`, `ClientsAreToldTheTruth` (`TruthfulAnswers`),
`RepeatsAreHarmless` (`RepeatsChangeNothing`), `OutlivedTokensAreHarmless`
(`OutlivedTokensChangeNothing`) and `HandlersRunForTheirCallers`
(`CatalogueIsEnforced`), for any number of calls that overlap. `TruthfulAnswers` leaves
503 and 500 open, since either may stand for a commit whose reply was lost. All come
from `GatewayInv`: `CallInv` relates the two ends of a call (what the gateway may have
answered at each point of the handler, and that the request in `Accounts` is the
call's), `LatestInv` says what the last effect has left behind (the address is taken,
the token is not live, the row has the content asked for, the password has moved on),
which is what makes its repetition find nothing to do, and `HashInv` that passwords are
numbered by the events of the ledger, so that a new one is none that was had before.
`StepEffects` lists what any step of Accounts may do to what `LatestInv` is about, so
the cases of the proof are the steps of the gateway and not their product with those of
the accounts. `AccountsBehindGateway`: the steps of the gateway are steps of Accounts or
leave it alone, so what was proved of any number of requests holds behind it, from its
initial state with an account in it.

*LifecycleProofs.* `TypeCorrect`, `RecordedTookEffect` (`RecordedIsBuilt`),
`BootsInOrder` (`ReadyBeforeWork`), `ClosedAfterUse` (`NothingClosedUnderWork`),
`ExitsDrained` (`DrainedAtExit`). `Tails` says that `_migrations` holds the first n
migrations and that a booted process has a last part of them left, all before it
being recorded; without it not even the types are inductive, for the next migration
is the least of a set. `BuiltInv`: how far a process is with a migration is what is
built of it. `TopologyInv`: the consumer never exists without its stream, and a
process with a worker saw both. `StackInv`: the handlers left are a first part of
the order of opening, all of them open, and everything below the work in flight.

*PipelineProofs.* `ImplementsDelivery`: hiding the producer, the pipeline is a
`Delivery`, since each of its steps is a step of the consumer or leaves it alone. So
what was proved of Delivery holds behind the outbox, with its duplicates and crashes:
`PipelinePersistsFirst`, `PipelineMailsOnce`, `PipelineLosesNothing`. `ImplementsOutbox`
is the other half, hiding the consumer: `PipelineRowsMoveForward` follows from it.
Theorems about `Outbox` are cited under the instance `OP` of `OutboxProofs`, which
`SameOutbox` identifies with the instance that `Pipeline` has.

`PromiseKept` is the refinement, `KeepsPromise`, under three hypotheses, each needed by
steps of the ledger: `OnePublisherAssumption` by `Confirm`, which no event that was
given up on may take, and by `GiveUp`, which is final; `OneReplicaAssumption` and
`NoLostAttempt` by `Mail`, which needs that no mail was sent (`MCDeliveryTwoReplicas`
shows two). Every fault of the producer is allowed, statements that take effect and
throw among them, and lost replies, slow handlers, refused mails and a failing sink or
DLQ of the consumer. Two invariants relate the halves: `PulledInv`, what a replica has
in hand, mailed or parked is on the stream (`OnStreamStored` through `NextPulled`),
which `Mail` and `Park` ask for; and `UnmailedInv`, what is about to be parked was not
mailed, by any copy of it. The latter uses `PayloadAssumption`: copies of an event carry
one payload, so they parse or fail together (a retry publishes the same row).
`ProducerKeepsPromise` and `ConsumerKeepsPromise` are the two halves of the step.
`NoPhantomMail` uses `PulledInv` without any hypothesis: for any number of publishers
and replicas and any faults, what was mailed or parked was committed.

Model-checked only: liveness (`EverythingSettles`, `EveryRowResolved`,
`EveryoneServes`, `EveryEventEnds`), which is out of this prover's reach under fairness.
Every other property of a passing run is stated by a theorem. `Retries` has no theorem:
its one run exhibits a violation.

## 6. Not modelled

The counters of the rate limiter (a plugin's), correlation ids, the texts of the
discovery document, cryptography, configuration parsing, templates and infrastructure
scripts: `PROJECT.json` gives the reason for each under `components`. The rows a
listing returns: a page and its total are two statements in no transaction, and the
repository promises nothing about how they agree. The exit code of a shutdown and the
readiness probes (the gateway's asks `/health` of the services, not `/ready`) change
no state. Retention of the stream (`max_age`, `max_msgs`) and metrics are the broker's.

## 7. Plan

Done: `Delivery`, `Outbox`, `Accounts`, `Lifecycle`, `EventLedger`, `Pipeline`,
`Gateway`, `Retries` with their runs, and the proofs above. Left: what the ledger is
under several publishers and replicas, where an event given up on may be confirmed and
mails repeated; and a bound on the mails of an event then, by its deliveries.
