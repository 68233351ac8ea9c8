# Faythe in TLA+

Faythe runs *workers* for clouds: scalers that watch a metric and call an
autoscaling endpoint, healers that watch for dead instances and repair them,
schedulers that call an endpoint at given times, name resolvers that serve the
healers. Several nodes form a cluster over etcd and share the workers by a
consistent hash ring. This directory holds TLA+ modules of that system, the TLC
configurations that check them on small instances, and proofs of the central
theorems for instances of any size.

Paths below are relative to the repository (`pkg/...` is `src/pkg/...` in
`PROJECT.json`).

## 1. Inventory

| component | state | operations | who calls it |
|---|---|---|---|
| cluster membership, `pkg/cluster/cluster.go` | `members`, `ring`, `lease`, `state`, `stopCh`; the keys `/cluster/<id>` under leases in etcd | `New` (read, `join`: grant, put, keep-alive, build the ring), `Run` (watch, apply events, signal a reload), `Stop`/`leave`, `LocalIsWorker` | `main`; all managers ask `LocalIsWorker` |
| autoscale manager, `pkg/autoscaler/manager.go` | the registry `rgt`, `stop`, `state` | `load`, `Run` (watch of the scaler keys), `Reload`/`rebalance`, `Stop`/`save`, `startScaler`, `stopScaler` | `main`, the reload goroutine, etcd events |
| scaler, `pkg/autoscaler/scaler.go`, and alert, `pkg/alert/alert.go` | the alert, `state`, `mtx`, `done`, `terminated` | `run` (query, evaluate, fire), `do`, `Stop`; `Start`, `Fire`, `Reset`, `ShouldFire`, `IsCoolingDown` | the manager |
| healer, `pkg/autohealer/healer.go` | `chans`, `whitelist`, `silences`, `nodes`, `done`, `terminated` | `run` with one goroutine per instance, `do`, `Stop`, `updateNodes`, the silence handlers | the healer manager |
| healer manager, `pkg/autohealer/manager.go`, with `nresolver.go`, `wflexectracker.go` | the registry, the channels `ncin`/`ncout` between resolvers and healers | as the autoscale manager, for two kinds of workers; `pubSubNodes` | `main`, the reload goroutine, etcd events |
| scheduler manager, `pkg/scheduler/` | the registry of schedulers with their next times | `Run` (watch and 30 s tick), `rebalance`, `save`, `load` | `main`, the reload goroutine, etcd events |
| registry, `pkg/common/registry.go` | a locked map | `Get`, `Set`, `Delete`, `Iter` (holds the lock until the last item is taken) | all managers |
| etcd wrapper, `pkg/common/etcd.go` | `ErrCh`, the client | requests with retries, keep-alive, `Run` (first error stops the process) | everything |
| cloud store, `pkg/cloud/store/openstack` | a locked map of clouds | `Get` (with a fallback to etcd), `Set`, `Delete`, `Load` | scalers, healers, API |
| metrics backends, `pkg/metrics` | a registry of clients | `GetBackend`, `QueryInstant` | managers, workers, API |
| REST API of workers and clouds, `api/scaler.go`, `scheduler.go`, `healer.go`, `bulk_worker.go`, `cloud.go` | none of its own (etcd, the cloud store) | create, update, delete of every kind of worker, single and in bulk; register and unregister a cloud | users |
| REST API of users and policies, `api/users.go`, `policy.go`, `middleware/` | the policy engine of the node, and the users and policies in etcd | `Authorizer` before every request; add and remove users and policies, change a password; the administrator is made at the start | the administrator |
| REST API of silences, resolvers, tokens | none | one request each | users |
| start and shutdown, `cmd/faythe/main.go` | the process | start-up order, reload goroutine, `stopFunc`, signals | the operating system |
| configuration, exporter, helpers | settings, counters | parsing, reporting | everything |

How they interact. `main` joins the cluster, makes the managers (each *reads*
its keys), and starts their `Run` (each opens a *watch*). The API only writes
etcd; the writes come back as watch events. A change of the membership goes into
the ring inside `Cluster.Run` and then, over an unbuffered channel, to the one
reload goroutine, which rebalances the managers one after the other. A handover
of a worker is a put of the object by the old node, which the new node sees as
an event or reads in its own rebalance.

What makes it hard:

* the ring is changed by one goroutine and asked by others without a common
  lock, and every decision is *ask the ring, then ask the registry, then do I/O,
  then act*;
* reads and watches are two requests with a gap between them;
* the same worker is stopped by the watch loop, by rebalance and by save, while
  its own goroutine runs, queries and acts;
* scaler and alert, healer and healing goroutines share memory with partial or
  no locking;
* leases expire, nodes crash and come back, requests fail and are given up;
* the way in which an error stops the process is a chain of goroutines and
  channels of capacity one or none, and the same `stopFunc` is run by two of them;
* the handlers of the API write several keys one after the other, with no
  transaction, and share an unlocked policy engine that each of them empties and
  fills again.

What makes each part correct:

* *cluster*: the ring a node uses is the membership etcd had; every worker has
  one node; a node that is down leaves the rings; nobody joins over an old key;
* *managers*: the worker of a key runs it; what is registered runs; what is
  deleted stops; nothing runs twice;
* *scaler*: stopping closes a channel once and ends quietly and surely; actions
  need a breach of the duration and respect the cooldown;
* *healer*: never more than three instances at a time; an instance is healed
  after the duration, once per outage, and at last; what recovered is not healed;
* *scheduler*: no occurrence is passed over or executed again and again; what
  expired is gone and nothing hangs;
* *healer manager*: at rest the registry is what etcd and the ring say; no worker
  is stopped that is not there; a healer goes on to get the names of its nodes;
* *start and shutdown*: it terminates, closes nothing twice, and saves all
  workers before the node leaves the ring;
* *API*: what is answered with success is written; a cloud has one healer, and none
  of the scalers of a removed cloud stays;
* *users*: the administrator is not locked out, and the policies are those of the
  users there are.

`PROJECT.json` lists every component with its status, and under `hazards` the
lines at which these things can go wrong.

## 2. Modules

| module | models | composed with |
|---|---|---|
| `Worker` | what a manager relies on when it starts and stops a worker: the abstract specification | – |
| `Scaler` | one scaler with its alert, its actions and the manager goroutines that store and stop it | implements `Worker` |
| `Cluster` | membership of all nodes over etcd | – |
| `Autoscaler` | the autoscale managers of all nodes | extends `Cluster`: its actions are joined with the manager's where one goroutine does both |
| `Healer` | one healer with its healing goroutines | – |
| `HealerManager` | the manager of resolvers and healers of one node, the resolver, and the goroutines that hand names on | sees of a healer what its manager sees |
| `Scheduler` | the scheduler manager of one node, its tick, its registry with the lock of `Iter` | – |
| `Process` | start, requests to etcd, reloads, errors and shutdown of one process | a manager's work is a request |
| `Api` | the requests that write workers and clouds, and the cloud store with its lock | – |
| `Users` | the requests for users and policies on all nodes, with each node's policy engine | – |
| `MC...` | a ring, occurrences, dates, lists of workers, symmetry for TLC | extend the module they are named for |
| `...Proofs` | the theorems | extend the module they are named for |

The modules also hold *faults*: definitions, marked `Fault:`, that stand for a
plausible bug. None of them is used by a specification; replacing the definition
below it by a fault makes TLC find the property named in `PROJECT.json`
(`mutants`) violated. So each property is known to depend on the code it is about.

### Worker and Scaler

The goroutine `run` is cut where another goroutine can get in between: the outer
and the inner `select` (`OuterSelect`, `InnerSelect`; a closed `done` and the
ticker may both be ready and Go picks either), the query, `mtx.Lock`, the
evaluation, each end of an action, the unlock. `EvaluateBreach` is one step for
`scaler.go:126-166`, as all of it happens under the lock by one goroutine.
Callers of `Stop` come in two kinds: *savers* (`save` and `rebalance`) marshal
the alert field by field without the lock, put it and then stop; *removers* (the
watch loop) only stop. After the end the scaler may be restarted from what is
stored, which is how a handover between nodes appears to one scaler. Time is an
integer clock, and the ticker may fire at any instant. The zero time is far in
the past, as for `time.Since`. That the cloud is known to the store is an input
of the evaluation; the store's own lock is in `Api`.

`Worker` knows of a worker only whether it runs, was asked to end or has ended,
which of its actions are in flight, and which callers of `Stop` were told of the
end. It says that rounds of actions do not overlap, that the end comes after a
request and after the last action, and that nobody is told earlier.
`Scaler!ImplementsWorker` maps `pc`, `done`, `act` and `caller` to it; the lock,
the state field and the alert are hidden.

*Observers* remember what the environment did (when the unbroken run of breaches
began, when an action last succeeded), so that the properties compare the alert
with the facts, not with itself.

### Cluster

etcd is a history of put and delete events, each with the members it leaves;
a watch is a position in it. A process goes through `down`, `loaded` (New has
read), `joined` (its key is put), `running`, `leaving`. A watch response holds
one or more events, which `ApplyEvent` puts into the ring one by one, as other
goroutines see the ring in between; then the reload is offered to the reload
goroutine, which blocks `Run` while it is busy. A lease that is not renewed –
after a crash, a failed join, a broken keep-alive – takes its key along at any
later time. The ring is a constant function `Owner` from a set of members and a
key to a member of the set: nothing else is used of consistent hashing.

### Autoscaler

Every goroutine that works on the registry is a thread: the watch loop (also
`load`), one per key in a rebalance, one per registered scaler in a save. Its
stages are those of `startScaler` (ask the ring; look up the backend; register
and run), `stopScaler` (get; stop; delete) and of the bodies of rebalance and
save. A scaler is the identity of its goroutine; what happens inside is module
`Scaler`. That `Stop` returns is assumed here (`StopWaits`) and is the subject of
`ScalerStop` there. `load` starts its keys one after the other; the threads of the
keys are independent, so their order does not matter. `JoinHalfFails`,
`KeepAliveFails` and `WatchFails` of `Cluster` are left out of this composition
(what they do to the rings is checked in `Cluster`), which keeps it in reach.
When the watch of the scaler keys answers with an error `Run` ends
(`WatchScalersFail`): such a manager takes no more events and is never at rest, and
a reload after it still works. An API update is a delete and a create, in the code
as in the model.

### Healer

`run` is one action per event of its inner `select`, but for the tick, which reads
the maps `whitelist` and `chans` while the healing goroutines write to them. It is
four steps: `Query` (the result; what is up again leaves both maps), `AskWhitelist`
and `AskList` (what `run` asks for each instance at `healer.go:174` and `:177`), and
`Start` (the limit, and the goroutines). A goroutine may put its instance on the
whitelist just after the first question and take its channel from the list just
before the second (`Mark`, `Unlist`; `healer.go:235` and `:236`): `run` then starts
another goroutine for an instance that was just healed, and it is healed twice in
one outage. `HealedOncePerOutage` excepts this and no more than this, and a
goroutine that was told to end too late. That `run` asks for one instance after the
other makes no difference, as no goroutine writes for two and `run` decides only
when it has asked for all. `MapRace` ends the process whenever a write and the loop
may overlap. The result of a query says for each instance whether no, exactly
`EvaluationLevel`, or some other number of series reported it. `do` is a step that
may take any time or for ever. A failed query changes nothing that is modelled.

### HealerManager

One node and one cloud, with at most one resolver and one healer in etcd, as the
code derives their IDs from the cloud. `thr` has the goroutines that work on the
registry: `Run` (which first is `load`), the reload goroutine, and the two that
`save` starts. The stages of `startWorker` are `AskRing`, the backend, and then
for a healer `SetHealer`, `MakeChan` and `GoHealer` – registry, channel map and
`go` are three steps others get between – and for a resolver `StartResolver`,
which only `Run` takes. `stopWorker` is `StopResolver`/`ForgetResolver`, or
`GetHealer`, the question to the ring, `StopHealer` and `ForgetHealer`. A nil
worker, a second close, a missing cloud and a race on the channel maps end the
process (`NilWorker`, `ClosedTwice`, `CloudMissing`, `MapRace`). The two watches
are queues of events; events before they are open are lost (`failed`). A watch that
answers with an error is reported and no longer heard (`WatchFails`, `deaf`): the
`break` at `manager.go:199` and `:248` leaves the `select` only, so `Run` goes on
with the other watch. The API deletes a healer in one request (`RemoveHealer`), but
creates one in four steps, for which `create` says how far it is: it looks for the
cloud (`AskCloud`), counts the healers (`CountHealers`), tries the query, which
needs the cloud again (`TryQuery`), and puts (`CreateHealer`) without a last look.
The cloud may be removed in between: the healer is then put for a cloud that is
gone, and stays (`late`, which holds from the start if etcd is found like that). Each
goroutine of `pubSubNodes` (`pub`) waits at the channel it took from the maps,
whatever became of it since. Rings and API change at any time.

### Scheduler

One node, as nodes meet only through the ring and the keys in etcd, which change
here at any time (`RingMoves`, `CreateScheduler`, `DeleteScheduler`). `Run` and
the reload goroutine are threads with a stage each; `save` and the two goroutines
of `Iter` have their own variables. `Iter` sends on an unbuffered channel with
the registry's lock held: `IterLocks`, one `TakeItem` per turn of the loop, and
`IterCloses`; `Get`, `Set` and `Delete` need the lock to be free (`Free`). The
tick of `Run` is cut at the checks, the removal and the delete of an expired
scheduler, the start of `Do` and its end, for `from` and then for `to`. The loop
works on an object that may have left the registry meanwhile: `own` is that
object, `held` says whether it is still the registered one. Time is an integer
clock; the ticker's channel holds one tick. A name means the same dates and
schedules throughout, so an update only registers the scheduler anew. `Validate`
is assumed to succeed, as the API stores nothing that it refuses.

`Run`'s thread begins with `load`, of `NewManager`: it reads the keys (`LoadReads`,
`LoadFails`), and of each key asks for the cloud and then stores it (`LoadKey`) or
skips it (`LoadSkips`), as the API removes a cloud and leaves its schedulers. Then
the watch is opened (`OpenWatch`). What `load` skipped, and what was written
between its read and the watch, is remembered in `missed` until a rebalance has
read the key or an event of it came.

A schedule is what `cron.Next` makes of it. With five fields it is the set of its
occurrences (`occ`), and `Next` finds the first one after an instant, or gives the
zero time (`Zero`) if there is none within five years, as for 30 February. The zero
time is always due and always past, so the code executes such a scheduler in every
tick, for ever. An `@every`, which `ParseStandard` accepts, is due a delay after
whenever it is asked (`every`); one shorter than the interval is executed in every
tick as well, once.

### Process

`main` goes through the steps `Boot` in order: its own checks (`BootChecks`) and
those that ask etcd (`BootRequest`); an error of the steps in `Needed` ends the
process, the others go on. A request is `TryFails` (a timeout, retried while
tries are left, or another error) until it gets an answer or has put its error
into `ErrCh`, where it waits for room: `Answered` is both. `TakeError` is
`Etcd.Run`, which hands the error to the one goroutine `serve` that also runs
reloads (`TakeReload`, `Reload`) – `TakeStop` needs it to be in its select. Then
`StopFunc` is run by `serve`, and again by `main` when it returns: per manager
`Check` of the state, `Close` of the channel and `Save`, last `CloseClient`. A
rebalance or a save returns in a step of its own (`ReloadReturns`, `StopReturns`),
after its requests: it waits there for scalers to end and for the registry's lock,
which may take for ever (`Waits`). `saved` holds the managers whose put was made,
and the cluster when the member's key was deleted; `lost` those for which the
request was given up.
`serve` then sends the process a SIGTERM (`Kill`). After the client is closed
every request fails. One save is one request here, for however many workers.

### Api

A handler's state is a record: where it is, at which worker of its list, and the
answer its client will see. Single requests are lists of one: `api/scaler.go`
and `scheduler.go` differ from `bulk_worker.go` only in what `Requests` admits.
The handlers are `CreatesWorkers`, `UpdatesWorkers` (delete, then validate and
put), `DeletesWorkers` (of a prefix), `CreatesHealer`, `RegistersCloud` and
`UnregistersCloud`; each request to etcd is a step. `AsksStore` is the store's
`Get`, with the read lock it holds across etcd and `Set`, and `Lock`, of `Set`
and `Delete`; a waiting writer holds new readers off, as Go's RWMutex does. A
handler on another node does not touch this node's store (`local`). A handler
that panics is recovered by `net/http`: the client gets no answer.

### Users

Every request begins with `Authorizer`: `LoadPolicy` empties the node's engine
(`Clear`), fills it (`Load`) and asks it (`Enforce`). Then come the steps of the
handlers, `AddsUser`, `RemovesUser`, `ChangesPassword`, `AddsPolicies`,
`RemovesPolicies`, and of a starting node `GrantsAdmin`. The engine (casbin) and
its adapter are vendored and modelled from their source: the engine changes its
memory at once or not at all (`Grant` adds nothing if it has one of the rules,
`Revoke` removes nothing unless it has them all), the adapter then writes through to
etcd one policy at a time (`WriteGrant`, `WriteRevoke`); `SavePolicy` deletes all
policies there (`Destroy`) and puts those of the engine back one by one (`Save`).
Listing the users loads the policies once more. `addPolicies` and `removePolicies`
name any rules of the user, `/clouds` GET, which `addUser` granted, among them: the
observer `due` says which rules the user is to have.

## 3. Runs

| run | instance | shows |
|---|---|---|
| `Scaler` | 2 actions, 1 saver, 1 remover, duration 2, cooldown 1, clock to 4, 1 restart | `NoDoubleClose`, `StoppedIsQuiet`, `SustainedBreach`, `CooldownInBreach`, `ImplementsWorker` |
| `ScalerStop` | 1 action, with fairness | **violation**: `Stop` and `run` wait for each other |
| `Cluster` | 2 nodes, 2 workers, 3 joins, with fairness | `RingTracksMembership`, `OneWorkerPerKey`, `JoinsOnlyAfresh`, `DownNodesForgotten` |
| `Autoscaler` | 2 nodes, 1 key, 2 joins, 1 to 2 changes | `OwnerRunsKey`, `RegisteredIsLive`, `ExactWithoutChurn` |
| `Healer` | 2 instances, limit 1, 2 goroutines | `AtMostMaxInstances`, `HealedOncePerOutage`, `HealsAfterDuration` |
| `HealerLive` | 1 instance, 3 goroutines, silences, no Stop, with fairness | `DownIsHealed` |
| `HealerManager` | 2 identities of resolvers and of healers, 2 publishers, 3 changes | `ExactWhenQuiet`, `StopsOnce`, `HealerIsFed` |
| `Scheduler` | 1 scheduler, 2 pairs of schedules, interval 2, clock to 9, load within 2, 1 move, 1 change | `AtMostThrice`, `OwnerHasScheduler`, `ExactWithoutMoves`, `NothingSkipped` |
| `Process` | 1 other goroutine that asks etcd, 2 tries, `ErrCh` of 1, 2 faults, with fairness | `StopsOnce`, `SavedInTime`, `StopIsServed` |
| `Api` | 2 handlers, 2 requests, 1 failure, 8 lists of workers | `OneHealer`, `NoOrphanScalers`, `AcceptedIsStored` |
| `StoreHang` | 2 handlers, 2 requests, no failures, with fairness | **violation**: the store's `Get` waits for itself |
| `Users` | 2 nodes, 2 handlers, 3 requests, 1 failure | `AdminKeepsPolicy`, `PoliciesFollowUser` |

Every run of a safety property also checks the module's `TypeOK` (`ATypeOK`). The
violations are explained, with the comment they contradict, under `findings` in
`PROJECT.json`.

### What the code does not keep

Where a property cannot hold in full because of a weakness of the code, its
passing form names the excuse as an observer and not as a weaker statement. What
the models reach, and the observers leave out:

* *missed*, *smissed*, *failed*: an event between the read of `New` or `load` and
  the watch of `Run` is lost until the next reload; `load` of the schedulers skips
  those whose cloud it does not find; a request that was given up, or a watch that
  answered with an error;
* *inherited* and the cooldown: `Reset` forgets the last firing, so the cooldown
  holds within one breach only; a torn alert may be stored and restored;
* *churned*: while the ring changes, the scaler of a deleted key may run on, a
  key may run twice, `stopWorker` may meet a worker that is not there, and
  `pubSubNodes` may wait at the channel of a worker that was replaced;
* *stray*: a healing goroutine that ends late takes the entry of its successor
  out, so that the loop loses track of it;
* an occurrence is executed once only if the ticks fall so: one that is due less
  than an interval after a tick is executed in that tick and, if it lies on the
  next, again; a slow `from` action makes the tick look at `to` later than the
  next two do, three executions of the same occurrence (`AtMostThrice`);
* *late*: a tick of the scheduler that came while the one before was at work, which
  adds a fourth.
  With two schedulers of which one expires, `Run` removes from the registry inside
  the loop over `Iter`, whose goroutine holds the lock: both wait for ever;
* *early*: a healer that is started before its resolver makes `pubSubNodes` wait
  at a nil channel, and never gets a name from it;
* *overlap*: `main` and the reload goroutine both in `stopFunc` may close a
  channel twice, and `main` may end before the other has saved;
* *failed > 2* in `StopIsServed`: one error in the hands of `Etcd.Run`, one in
  `ErrCh`, and a reload that waits to add a third, which only its own goroutine's
  stop could make room for;
* *raced*, *late*: a scaler or a healer that was being created while its cloud was
  removed stays;
* an occurrence there is: the zero time, which cron gives when there is none, is
  executed in every tick; and an `@every` is counted from each tick anew, so
  `NothingSkipped` speaks of schedules with five fields;
* *Waits*: while a manager waits for a scaler's `Stop`, or for the registry's lock,
  neither a reload nor the stop of the process ends (`StopIsServed` speaks of
  processes where such a wait ends), and `Cluster.Run` applies no more events after
  the one at hand, as nobody takes its signal (`DownNodesForgotten` excepts nodes
  where a reload has not ended);
* *crossed*: requests that share an engine, or write at the same time, may make
  `SavePolicy` put back an engine that another has just emptied: any policy, also
  the administrator's, may be lost. *broken*: `addUser` puts the user before its
  policy, and `SavePolicy` deletes before it puts; a failure in between is not
  undone;
* crashes: `GetBackend` takes the first key of an answer that may be empty, and
  `stopScaler` calls `Stop` of what `Get` did not find.

Deadlock is not checked: every one of these systems may come to rest – the clock
or the requests reach their bound, all nodes are down, everything has stopped.

### Bounds

* `MaxTime`, `MaxRestarts` (Scaler): the clock must pass a duration, a cooldown
  and one more instant; 4 instants hold a firing and a second breach. One restart
  shows what a stored alert does; further ones repeat it.
* `MaxJoins` (Cluster, Autoscaler): three joins let both nodes join and one come
  back over an expiring key; two let a node join and a second one take over.
* `MaxChanges` (Autoscaler) counts API writes, failed requests and orderly stops
  together, and depends on the joins there were: one before the first, two with
  one join, one with two. The keys etcd holds at the start are any set.
* `MaxChanges` (Scheduler) counts API writes and failed requests; one with one move
  of the ring already interleaves an event, an expiry and a rebalance of the same
  key. `MaxTime` 9 with interval 2 holds two occurrences of `from`, between ticks,
  with a third one beyond the clock, and four ticks; the `to` beside them has no
  occurrence. The other pair has an `@every` shorter than the interval. The
  scheduler is not active at the first tick and expires at the last. `MaxLoad` 2
  bounds how long `load` and the opening of the watch take: a tick that falls
  meanwhile is one that the ticker, made by `Run`, does not send. Occurrences are
  two intervals apart (`OccurrencesApart`), as an expression of five fields has at
  most one a minute and the interval is 30 seconds. `runs` counts to five, one more
  than any property allows.
* One scheduler is enough for the properties of `Scheduler`, which speak of one
  key each; a second one adds the wait for the lock of `Iter`, see above.
* `MaxChanges` (HealerManager) counts writes of the API, moves of the ring, failed
  requests and watches and a Stop: three hold a worker created, deleted and created
  again, or any one of these between two others. A `createHealer` counts once, when
  it begins. `Resolvers`, `Healers` and `Pubs` are
  identities that are used again once nobody knows them: two let an old and a new
  one overlap. A step that finds none free waits.
* `Ids` (Autoscaler): identities are used again when nobody knows them any more;
  a run where all are in use at once cannot start another scaler, which two
  identities for one key leave room for: one registered, one orphaned or in the
  hands of a thread.
* `Slots` (Healer): healing goroutines alive at a time. Two show every overlap
  of an old and a new goroutine, three leave one when two are stuck in `do`.
* `MayStop` (Healer): the liveness run has no Stop, as `DownIsHealed` asks nothing of
  a healer that was stopped: no behaviour it could fail for is left out.
* `Duration` 1 or 2 instants; ages beyond it are not told apart, as no guard does.
* `MaxInstances` is 1 for two instances in place of 3 for four and more: the
  comparison is the same.
* `MaxFaults` (Process) 2 with one asker: an error while a reload or a stop waits
  for another one. `Tries` 2 in place of 3: a first and a last try. After the
  client is closed requests fail without counting, so three can have failed.
* `MaxRequests` (Api) 2: the properties speak of the last word of two writers. The
  lists hold one or two workers of two IDs, one that is not valid, one of an
  unknown type and the prefix of all IDs, which a path may also name.
* `MaxRequests` (Users) 3: a change and its opposite, and one beside them. One
  user beside the administrator, and two policies of it, of which one comes with
  the user and one by request.

### Fairness

* `Scaler`: every goroutine that can run runs (weak fairness); `sync.RWMutex`
  starves nobody (strong fairness of taking the lock); queries and HTTP requests
  return, as the clients have timeouts. Nobody is forced to stop a scaler.
* `Cluster`: etcd expires leases and delivers events; `Run` goes on. Nothing makes
  a reload end (`Scaler.Stop` may hang, see `ScalerStop`, and so may `Iter`), nor a
  node start, stop or fail.
* `Healer`: time passes; healing goroutines run, and `run` ends a tick it has begun
  (it waits for nothing there); a backend whose answer stays the
  same goes on to be asked. Fairness of the tick with any answer would force the
  answer to change and make `DownIsHealed` hold for want of a lasting outage.
  Healing actions need not end, names and silences need not come.
* `Process`: the goroutines run, requests get an answer or fail, and Go's select
  takes a case that is ready again and again (strong fairness of `TakeStop`, as
  reloads compete with it). Nothing forces requests, changes of the ring, faults
  or a signal, nor a manager's wait for its workers or its registry to end; the
  cluster's own Stop waits for nothing but its request.
* `Api`: the handlers run (weak fairness of `Serve`). The counterexample of
  `StoreHang` is a deadlock that no assumption about the scheduling could avoid.

## 4. Proofs

TLAPS checks, for all values of the constants allowed by the named assumptions
(sets of actions, callers, nodes, handlers and keys of any size; any ring that
maps to its own members; any duration, cooldown and bound):

* `ScalerProofs`: `TypeCorrect`, `NeverClosedTwice`, `StopIsFinal`,
  `FiresAfterDuration`, `CooldownHolds`, `ScalerImplementsWorker`,
  `ToldMeansQuiet`. The inductive invariant `IInv` joins
  - `LockInv`: who holds `mtx` says where `run` and the callers are, and actions
    are in flight only under the lock;
  - `StopInv`: `done` is closed iff one caller waits or the scaler is stopped, in
    whatever order `failed` was written over the state. This is the reason why a
    second close cannot happen although the flag that guards it is overwritten
    without the lock: while a Stop is under way the lock is held by it, and the
    write of `failed` after it would need a living `run`;
  - `AlertInv`: the alert's times are the observers' times.
  `CooldownHolds` is an action property that follows from `IInv` for one step.
  `ScalerImplementsWorker` is the refinement: under `IInv` each step of the scaler
  is one of `Worker` or leaves the mapped variables alone. `ToldMeansQuiet` carries
  `Worker!ToldIsQuiet` over to the scaler.
* `AutoscalerProofs`, on the ring of `Cluster`: `TypeCorrect`, `RingIsExact`,
  `JoinsAreFresh`, `WorkersArePartitioned`. `IInv` joins `HistInv` (each event
  leaves the members it says and puts only an absent node), `JoinInv` (a node about
  to join has no key: nobody else puts its key between its read and its put),
  `CursorInv` (how far the node has followed), `RingInv` (its ring at each stage).
  `WorkersArePartitioned` is a consequence: settled members all have the same
  ring, and `Owner` picks one member of it.
* `AutoscalerProofs`, on the managers: `RunsOnCluster`, `ATypeCorrect`,
  `RegistryIsLive`, `NoScalerLost`, `RunsExactlyItsKeys`, for any number of nodes,
  keys, identities, joins and changes (`AutoscalerAssumption` only adds that there
  is a key and that `NoId` is no identity). `RunsOnCluster` says that every
  behaviour of `ASpec` is one of `Spec` of `Cluster`, so that the invariants of the
  ring hold under the managers. `AIInv` is stated node by node, and `Roles` reduces
  each step to what it does to one node: it is a step of one goroutine, of the
  manager, of the ring, or of etcd and the other nodes, or the end of the process.
  - `Shape` and `Stands`: at which stage of the manager which goroutine is where.
  - `Live`: a registered scaler that has ended has a goroutine that is about to
    remove it. It is what `RegistryIsLive` needs.
  - `Owned`: a stored key of the node is registered, or an event that creates it is
    in the queue, or a reload is due that has not read the keys, or a goroutine is
    about to start it. Two more invariants keep the last of these from being lost:
    `Deletes` (a delete in the queue of a key that is stored again is followed by
    its create) and `HandsOver` (`rebalance` takes a key of its own node for
    another's only when the ring has moved since, and then another reload is due).
    At rest all but the first are ruled out, which is `NoScalerLost`.
  - `Queued` and `Exact`: the events still to come, read backwards from what is
    stored, say what was stored before them (`StoredAt`); as long as the ring stands
    still, what the manager runs of a key is what that calls for, up to the one
    goroutine that handles the key. At rest nothing is to come: that is
    `RunsExactlyItsKeys`.
* `ProcessProofs`: `TypeCorrect`, `ClosesOnce`, `StopSavesAll`. `IInv` joins
  `Shape` (the typed positions of the goroutines), `PendingInv` (a request is
  pending only where one is made) and `StopInv`: unless the two stoppers met, what
  is no longer active is dealt with or at its save (`SavedInv`), and whoever is past
  a manager in `StopOrder` has dealt with it. `Dealt` is what was put (`saved`) and
  what was given up because its request failed (`lost`).
* `HealerManagerProofs`: `TypeCorrect`, `RunsExactlyItsWorkers`,
  `StopsWhatItHas`, `NamesArrive`, for any number of resolvers, healers and
  goroutines of `pubSubNodes`, of writes, moves of the ring and failed requests
  (`HealerManagerAssumption` only). `Roles` divides `Next` by who takes the step.
  - `Stands`, `RunInv`, `OthersInv`: where each goroutine is at each stage of the
    manager. Goroutines other than `run` come only with a move of the ring or a
    Stop, so before either (`Alone`) `run` is the only one that moves.
  - `QueueInv`: the events of a watch alternate, and the last is true of etcd.
  - `SoloInv`: alone, `run` stops only what is registered and up. It carries
    `StopsOnce` from one step to the next.
  - `ChanInv`, `FedInv`: `ncin` and `ncout` are the channels of the registered
    workers, and a goroutine of `pubSubNodes` serves the pair, or is about to take
    it up; that is `HealerIsFed`.
  - `ExactInv`: while no request has failed and no healer came late, `ResolverDone` and `HealerDone` say for
    each place of `run` what it has made of the events so far, measured against what
    was stored before those still to come (`Seen`), and `OrphanOK` that the healer
    of a removed cloud is left to who handles the removal. At rest no event is to
    come: that is `ExactWhenQuiet`.
* `ApiProofs`: `TypeCorrect`, `HealerIsAlone`, `ScalersGoWithCloud`,
  `SuccessIsStored`, for any number of handlers and requests and lists of any
  length. `IInv` joins `StageInv` (which requests come to which step), `SetInv` (who
  writes the store for anything but a registration still reads it), `HealerInv` (all
  requests for a healer name one key, although each makes an identity of its own:
  that is why two that cross leave one), `OrphanInv` (no handler is about to put
  a scaler of a cloud that is gone, unless they crossed) and `LoopInv` (the workers
  before the one at hand are in etcd's history, or the answer is an error).
* `UsersProofs`: `TypeCorrect`, `AdminIsKept`, `PoliciesAreOfUser`. `IInv` joins
  `StageInv` (which requests come to which step), `ApartInv` (requests that did not
  cross have an engine each, and one writes) and `OrderInv`: for the one writing
  request, what it has made of etcd and of its engine at each step (`Progress`).
  `OneStep` reduces each action to the handler that takes it, since the others
  have engines of their own and only read etcd.
* `HealerProofs`: `TypeCorrect`, `LimitHolds`, `HealedOnce`,
  `HealsOnlyAfterDuration`, for any finite sets of instances and goroutines
  (`HealerAssumption`, `SlotsAssumption`; silences match only instances). None of
  the last three is inductive alone. `IInv` joins `DistinctInv` (no goroutine is
  listed twice, so telling one to end tells no other), `UniqueInv` (an instance has
  one living goroutine unless the loop started one although it had met another), `WatchInv` (a goroutine
  not told to end is listed, and its alert is no older than the outage) and
  `HealInv` (after a healing has begun its instance is being healed or is on the
  whitelist, and no goroutine waits for one on the whitelist) and `ChosenInv` (an
  instance the tick chose although it had met no goroutine has none since, and is
  not on the whitelist). `Start` is the step that takes work: `Injections` shows
  that there are goroutines for all it starts, `NewFacts` and `OldFacts` what becomes
  of each goroutine, and each part of `IInv` has its own lemma over them.
* `SchedulerProofs`: `TypeCorrect`, `RepeatsEnd`, `NoneSkipped`,
  `OwnersAreRegistered`, `ExactAtRest`, for any schedulers, interval, bounds and
  schedules, with the zero time and `@every` among them (`SchedulerAssumption`; only
  `NoneSkipped` needs `OccurrencesApart`).
  `TypeI` is inductive with the lock: what an `Iter` has left is registered as long
  as it holds the lock, and what `Run` holds is registered or was replaced. Two
  invariants stand on it.
  - `TimeI`, against the time of the last tick: `RepeatOK` counts the executions of
    the current occurrence and those the ticks in hand and in the channel may still
    add, each an interval further from the last tick, so that after the third (with
    a late tick the fourth) the occurrence is past and `Forward` moves on;
    it counts nothing for the zero time, which never becomes later. `LowerOK` says
    that without late ticks the next execution is not earlier than the last tick that
    has looked at it, and is an occurrence or the zero time. Both depend on where `Run` is within a
    tick, not on the clock.
  - `KeyI`, on the way from etcd to the registry: `QueueOK` (the events not yet
    delivered end with the state of the key in etcd), `HandOK` (an event in hand
    that is no longer true is followed by one that is), `ReloadInv` (what is handed
    over is not of this node, or another reload is due), `OwnInv` (a scheduler of
    this node that is not registered is on its way there, or to its deletion) and
    `ExactInv` (as long as the ring stands still, nothing else is registered); the
    last two except what is `missed`. `LoadInv` says what there is before the watch:
    no event, nothing registered and no reload until `load` has read, and then the
    keys it has yet to look at (`LoadHas`), which is one more way for a key to its
    registration; `RestFacts` rules it out at rest.
    `ReloadHasKept`, `RunHasKept` and `RemovedForAReason` show that no step takes
    the last of these ways from a key.
Every invariant that a run checks is proved here. Only model-checked: liveness
(`DownNodesForgotten`, `DownIsHealed` and `StopIsServed`, which hold, and
`StopTerminates` and `GetReturns`, which the code violates), as the prover has no
rules for ENABLED and fairness here. Not provable with the installed provers are
also facts by induction over data and modules with RECURSIVE operators; the
modules here have neither.

## 5. Not modelled

* The workflow tracker (`wflexectracker.go`): a loop of one goroutine that polls a
  workflow; for the healer it is an action that takes any time.
* The metrics backends beyond `GetBackend`, the action senders and the clouds:
  calls that return anything or fail.
* The API of silences, resolvers and tokens, listings, and the server's frame:
  one request each; what a silence does to a healer is in `Healer`.
* The configuration, the data model and its validation, exporter and helpers: no
  state that interacts with the rest. What validation refuses is an input of `Api`.
* Passwords and their hashes, and requests of the administrator against its own
  policies, in `Users`.
* Several clouds at once in `HealerManager` and `Api`: their keys, resolvers and
  healers have nothing in common but the lock of the store.
* Vendored code is seen through its use, but for casbin with its etcd adapter
  (`Users`) and cron's `Next` (`Scheduler`), which are modelled from their source.
