------------------------------ MODULE Scheduler ------------------------------
(***************************************************************************)
(* The scheduler manager of one node (pkg/scheduler/manager.go) with its   *)
(* schedulers (pkg/model/scheduler.go) and the lock of its registry        *)
(* (pkg/common/registry.go).  Three goroutines use the registry: Run, with *)
(* the watch of the scheduler keys and a tick every Interval; rebalance in *)
(* the reload goroutine; save, called by Stop.  Iter starts one more, which*)
(* holds the lock until the last item of the registry is taken.            *)
(*                                                                         *)
(* The other nodes appear as changes of the ring and of the keys in etcd.  *)
(* A cron expression is the set of its occurrences, or the delay of an     *)
(* '@every', and a name always means the same one and the same dates.  What*)
(* etcd holds of the next executions is left out: newScheduler computes    *)
(* them anew.                                                              *)
(***************************************************************************)
EXTENDS Integers, Sequences, FiniteSetsExt

CONSTANTS
  Keys,       \* names of schedulers
  Interval,   \* the period of the tick
  Crons,      \* the schedules of the edges to choose from: every is the delay of an
              \* '@every', and 0 for one that is due at the times occ, if any
  Dates,      \* FromDateTime and ToDateTime to choose from; a scheduler that is not
              \* Active is one whose FromDateTime is never past
  MaxTime,    \* bound: last instant of the clock
  MaxLoad,    \* bound: last instant until Run has opened its watch
  MaxMoves,   \* bound: changes of the ring
  MaxChanges, \* bound: writes of etcd keys by others and failed requests, together
  NoScheduler \* nothing is registered

Edges == {"from", "to"}

ASSUME SchedulerAssumption ==
  /\ Interval \in Nat \ {0} /\ {MaxTime, MaxLoad} \subseteq Nat
  /\ MaxMoves \in Nat /\ MaxChanges \in Nat
  /\ Dates \subseteq [from: Nat, to: Nat]
  /\ Crons \subseteq [Edges -> [occ: SUBSET Nat, every: Nat]]
  /\ NoScheduler \notin Keys \union [Edges -> Int]

\* The minutes of a cron expression of five fields are at least two ticks apart.
ASSUME OccurrencesApart ==
  \A c \in Crons, e \in Edges :
    c[e].every = 0 => \A o, p \in c[e].occ : o < p => p - o >= 2 * Interval

VARIABLES
  now,      \* the clock
  tick,     \* a tick lies in the ticker's channel, which holds one
  dates,    \* FromDateTime and ToDateTime of the schedulers
  cron,     \* FromCronSlices and ToCronSlices
  stored,   \* etcd: the scheduler keys
  watch,    \* Run has opened its watch
  todo,     \* the events the watch has not delivered yet, oldest first
  toLoad,   \* the keys load has not looked at
  mine,     \* the keys the ring gives to this node
  pending,  \* the ring has changed and the reload was not taken
  rgt,      \* Manager.rgt: the next executions of the registered schedulers
  lock,     \* whose Iter holds the registry's lock
  iter,     \* the goroutine of Iter, for Run and for save
  thr,      \* where load and then Run, and rebalance are
  own,      \* the next executions of the scheduler Run works on
  held,     \* its key, as long as it is the one registered there
  left,     \* the keys rebalance has not looked at
  save,     \* where Stop is
  moves, changes,
  (* Observers. *)
  runs,     \* how often the occurrence own holds was executed, up to five
  late,     \* a tick came when Run was not done with the one before, or load with all keys
  missed,   \* the keys load skipped for want of their cloud, and those written when load
            \* had read and the watch was not open yet
  failed    \* a request of the manager failed

inputs == <<now, tick, dates, cron, mine, pending, moves, late>>
etcdVars == <<stored, watch, todo, toLoad, missed, changes, failed>>
regVars == <<rgt, lock, iter>>
itemVars == <<own, held, runs>>
vars == <<inputs, etcdVars, regVars, thr, itemVars, left, save>>

Threads == {"run", "reload"}
Iterators == {"run", "save"}

\* The zero time: year 1.
Zero == -1
Moments == Nat \union {Zero}
NoNext == [e \in Edges |-> Zero]

\* cron's Next: the first occurrence after t, and the zero time if there is none in
\* the years it looks ahead, as for 30 February; for an '@every', its delay from t on.
NextOcc(k, e, t) ==
  LET coming == {o \in cron[k][e].occ : o > t}
  IN IF cron[k][e].every > 0 THEN t + cron[k][e].every
     ELSE IF coming = {} THEN Zero ELSE Min(coming)

Off == [at |-> "off", items |-> {}]

\* load is about to read the keys.
Init ==
  /\ now = 0 /\ tick = FALSE
  /\ dates \in [Keys -> Dates] /\ cron \in [Keys -> Crons]
  /\ stored \in SUBSET Keys /\ watch = FALSE /\ todo = << >> /\ toLoad = {}
  /\ mine \in SUBSET Keys /\ pending = FALSE
  /\ rgt = [k \in Keys |-> NoScheduler]
  /\ lock = "none" /\ iter = [w \in Iterators |-> Off]
  /\ thr = [run |-> [at |-> "load", key |-> NoScheduler, then |-> "select"],
            reload |-> [at |-> "idle", key |-> NoScheduler, then |-> "next"]]
  /\ own = NoNext /\ held = NoScheduler
  /\ left = {} /\ save = "idle"
  /\ moves = 0 /\ changes = 0
  /\ runs = [k \in Keys |-> [e \in Edges |-> 0]]
  /\ late = FALSE /\ missed = {} /\ failed = FALSE

-----------------------------------------------------------------------------
(* Time, the ring and etcd.                                                *)

\* The ticker, which Run makes, drops a tick that finds its channel full.
Clock ==
  LET fires == (now + 1) % Interval = 0
  IN
  /\ now < MaxTime /\ (~watch => now < MaxLoad)
  /\ now' = now + 1
  /\ tick' = (tick \/ (fires /\ watch))
  /\ late' = (late \/ (fires /\ (tick \/ iter.run.at # "off" \/ ~watch)))
  /\ UNCHANGED <<dates, cron, mine, pending, moves, etcdVars, regVars, thr, itemVars, left, save>>

\* The ring moves; Cluster.Run then waits until the reload is taken.
RingMoves ==
  /\ ~pending /\ moves < MaxMoves
  /\ mine' \in SUBSET Keys \ {mine}
  /\ pending' = TRUE
  /\ moves' = moves + 1
  /\ UNCHANGED <<now, tick, dates, cron, late, etcdVars, regVars, thr, itemVars, left, save>>

Change == changes < MaxChanges /\ changes' = changes + 1

\* The watch, once open, delivers an event; load sees a change if it has yet to read.
\* A key that comes or goes under the watch is no longer missed.
Tell(k, type) ==
  /\ todo' = IF watch THEN Append(todo, [type |-> type, key |-> k]) ELSE todo
  /\ missed' = IF watch THEN (IF type = "modify" THEN missed ELSE missed \ {k})
               ELSE IF thr.run.at = "load" THEN missed ELSE missed \union {k}
  /\ UNCHANGED <<watch, toLoad>>

Put(k) ==
  /\ stored' = stored \union {k}
  /\ Tell(k, IF k \in stored THEN "modify" ELSE "create")

Delete(k) ==
  /\ stored' = stored \ {k}
  /\ IF k \in stored THEN Tell(k, "delete") ELSE UNCHANGED <<todo, missed, watch, toLoad>>

\* The API creates a scheduler, or replaces it by force; another node hands it over.
CreateScheduler(k) ==
  /\ Change
  /\ Put(k)
  /\ UNCHANGED <<inputs, failed, regVars, thr, itemVars, left, save>>

\* The API deletes a scheduler; an update is a delete and a put.
DeleteScheduler(k) ==
  /\ Change
  /\ k \in stored /\ Delete(k)
  /\ UNCHANGED <<inputs, failed, regVars, thr, itemVars, left, save>>

\* A request of this manager fails.
RequestFails ==
  Change /\ failed' = TRUE /\ UNCHANGED <<stored, watch, todo, toLoad, missed>>

-----------------------------------------------------------------------------
(* The registry.  Get, Delete and Set hold the lock for themselves alone.  *)

At(t, l) == thr[t].at = l

Goes(t, l) == thr' = [thr EXCEPT ![t].at = l]

Free == lock = "none"

\* Fault: Run goes on with an item as if it were still registered.
RegisterHeld(k, s) == rgt' = [rgt EXCEPT ![k] = s] /\ UNCHANGED held

\* Whatever is registered under k from now on, it is not what Run holds.
Register(k, s) ==
  /\ rgt' = [rgt EXCEPT ![k] = s]
  /\ held' = IF held = k THEN NoScheduler ELSE held

Home(t) == IF t = "reload" THEN "next" ELSE IF watch THEN "select" ELSE "loading"

\* storeScheduler asks the ring ...
StoreCheck(t) ==
  /\ At(t, "check")
  /\ Goes(t, IF thr[t].key \in mine THEN "set" ELSE Home(t))
  /\ UNCHANGED <<inputs, etcdVars, regVars, itemVars, left, save>>

\* ... and registers a scheduler with its next executions from now on.
StoreSet(t) ==
  LET k == thr[t].key
  IN
  /\ At(t, "set") /\ Free
  /\ Register(k, [e \in Edges |-> NextOcc(k, e, now)])
  /\ runs' = [runs EXCEPT ![k] = [e \in Edges |-> 0]]
  /\ Goes(t, Home(t))
  /\ UNCHANGED <<inputs, etcdVars, lock, iter, own, left, save>>

\* removeScheduler.
Remove(t) ==
  /\ At(t, "remove") /\ Free
  /\ Register(thr[t].key, NoScheduler)
  /\ Goes(t, thr[t].then)
  /\ UNCHANGED <<inputs, etcdVars, lock, iter, own, runs, left, save>>

\* Iter's goroutine takes the lock, for all items ...
IterLocks(w) ==
  /\ iter[w].at = "wait" /\ Free
  /\ lock' = w
  /\ iter' = [iter EXCEPT ![w] = [at |-> "hold", items |-> {k \in Keys : rgt[k] # NoScheduler}]]
  /\ UNCHANGED <<inputs, etcdVars, rgt, thr, itemVars, left, save>>

\* ... and gives it back when the last one is taken.
IterCloses(w) ==
  /\ iter[w].at = "hold" /\ iter[w].items = {}
  /\ lock' = "none"
  /\ iter' = [iter EXCEPT ![w].at = "closed"]
  /\ UNCHANGED <<inputs, etcdVars, rgt, thr, itemVars, left, save>>

TakeItem(w, k) ==
  /\ iter[w].at = "hold" /\ k \in iter[w].items
  /\ iter' = [iter EXCEPT ![w].items = @ \ {k}]

-----------------------------------------------------------------------------
(* load, in NewManager; then Run begins.                                   *)

LoadReads ==
  /\ At("run", "load")
  /\ toLoad' = stored
  /\ Goes("run", "loading")
  /\ UNCHANGED <<inputs, stored, watch, todo, missed, changes, failed, regVars, itemVars, left,
                 save>>

\* load only logs an error; Run begins with nothing registered.
LoadFails ==
  /\ At("run", "load")
  /\ RequestFails
  /\ Goes("run", "opening")
  /\ UNCHANGED <<inputs, regVars, itemVars, left, save>>

\* The next key, whose cloud is there: storeScheduler.
LoadKey(k) ==
  /\ At("run", "loading") /\ k \in toLoad
  /\ toLoad' = toLoad \ {k}
  /\ thr' = [thr EXCEPT !.run = [at |-> "check", key |-> k, then |-> "select"]]
  /\ UNCHANGED <<inputs, stored, watch, todo, missed, changes, failed, regVars, itemVars, left,
                 save>>

\* CheckKey does not find the cloud, which the API may delete before its schedulers,
\* or its request fails: the key is skipped.
LoadSkips(k) ==
  /\ At("run", "loading") /\ k \in toLoad
  /\ toLoad' = toLoad \ {k}
  /\ missed' = missed \union {k}
  /\ UNCHANGED <<inputs, stored, watch, todo, changes, failed, regVars, thr, itemVars, left, save>>

LoadEnds ==
  /\ At("run", "loading") /\ toLoad = {}
  /\ Goes("run", "opening")
  /\ UNCHANGED <<inputs, etcdVars, regVars, itemVars, left, save>>

\* Run opens its watch, which tells what is written from now on.
OpenWatch ==
  /\ At("run", "opening")
  /\ watch' = TRUE
  /\ Goes("run", "select")
  /\ UNCHANGED <<inputs, stored, todo, toLoad, missed, changes, failed, regVars, itemVars, left,
                 save>>

\* Reload and Stop may be called.
Loaded == watch \/ At("run", "opening")

-----------------------------------------------------------------------------
(* Run: events.                                                            *)

RunStops ==
  /\ At("run", "select") /\ save # "idle"
  /\ Goes("run", "ended")
  /\ UNCHANGED <<inputs, etcdVars, regVars, itemVars, left, save>>

\* A watch that fails ends Run; ErrCh then ends the process.
WatchFails ==
  /\ At("run", "select")
  /\ RequestFails
  /\ Goes("run", "ended")
  /\ UNCHANGED <<inputs, regVars, itemVars, left, save>>

\* Fault: a delete event is ignored.
FirstStepNoDelete(e) == [create |-> "check", modify |-> "get", delete |-> "select"][e.type]

\* What Run does first with an event.
FirstStep(e) == IF e.type = "create" THEN "check" ELSE "get"

TakeEvent ==
  /\ At("run", "select") /\ todo # << >>
  /\ todo' = Tail(todo)
  /\ thr' = [thr EXCEPT !.run =
       [at |-> FirstStep(Head(todo)), key |-> Head(todo).key,
        then |-> IF Head(todo).type = "modify" THEN "check" ELSE "select"]]
  /\ UNCHANGED <<inputs, stored, watch, toLoad, missed, changes, failed, regVars, itemVars, left,
                 save>>

\* Modify and delete remove what is registered, modify stores it again.
LookUp ==
  /\ At("run", "get") /\ Free
  /\ Goes("run", IF rgt[thr.run.key] = NoScheduler THEN "select" ELSE "remove")
  /\ UNCHANGED <<inputs, etcdVars, regVars, itemVars, left, save>>

-----------------------------------------------------------------------------
(* Run: the tick.                                                          *)

TakeTick ==
  /\ At("run", "select") /\ tick
  /\ tick' = FALSE
  /\ iter' = [iter EXCEPT !.run.at = "wait"]
  /\ Goes("run", "range")
  /\ UNCHANGED <<now, dates, cron, mine, pending, moves, late, etcdVars, rgt, lock, itemVars, left, save>>

IsActive(k) == dates[k].from < now

IsExpired(k) == dates[k].to < now

\* The next scheduler; one that is expired is removed from the registry first.
TakeScheduler(k) ==
  /\ At("run", "range") /\ TakeItem("run", k)
  /\ IsActive(k)
  /\ own' = rgt[k] /\ held' = k
  /\ thr' = [thr EXCEPT !.run =
       [at |-> IF IsExpired(k) THEN "remove" ELSE "from", key |-> k, then |-> "delete"]]
  /\ UNCHANGED <<inputs, etcdVars, rgt, lock, runs, left, save>>

\* One that is not active yet is passed over.
SkipScheduler(k) ==
  /\ At("run", "range") /\ TakeItem("run", k)
  /\ ~IsActive(k)
  /\ UNCHANGED <<inputs, etcdVars, rgt, lock, thr, itemVars, left, save>>

\* Then its key is deleted ...
DeleteExpired ==
  /\ At("run", "delete")
  /\ Delete(thr.run.key)
  /\ Goes("run", "from")
  /\ UNCHANGED <<inputs, changes, failed, regVars, itemVars, left, save>>

\* ... or the request fails, and the tick goes on.
DeleteExpiredFails ==
  /\ At("run", "delete")
  /\ RequestFails
  /\ Goes("run", "from")
  /\ UNCHANGED <<inputs, regVars, itemVars, left, save>>

Doing == [from |-> "do from", to |-> "do to"]
After == [from |-> "to", to |-> "range"]

\* Less than Interval is left until the next execution, as always until the zero time.
IsDue(e) == own[e] - now < Interval

\* Do starts: an expired scheduler is executed like any other.
Execute(e) ==
  LET k == thr.run.key
  IN
  /\ At("run", e) /\ IsDue(e)
  /\ Goes("run", Doing[e])
  /\ runs' = [runs EXCEPT ![k][e] = IF held = k /\ own[e] # Zero /\ @ < 5 THEN @ + 1 ELSE @]
  /\ UNCHANGED <<inputs, etcdVars, regVars, own, held, left, save>>

NotDue(e) ==
  /\ At("run", e) /\ ~IsDue(e)
  /\ Goes("run", After[e])
  /\ UNCHANGED <<inputs, etcdVars, regVars, itemVars, left, save>>

\* Fault: the execution stays what it was.
ForwardedNever(e) == own[e]

\* Fault: the next execution is looked for an interval ahead.
ForwardedAhead(e) == IF own[e] < now THEN NextOcc(thr.run.key, e, now + Interval) ELSE own[e]

\* ForwardFromNextExec, ForwardToNextExec: only an execution that is past.
Forwarded(e) == IF own[e] < now THEN NextOcc(thr.run.key, e, now) ELSE own[e]

\* Do returns, after any time, and the next execution is moved on.
Forward(e) ==
  LET k == thr.run.key
  IN
  /\ At("run", Doing[e])
  /\ own' = [own EXCEPT ![e] = Forwarded(e)]
  /\ rgt' = IF held = k THEN [rgt EXCEPT ![k] = own'] ELSE rgt
  /\ runs' = IF held = k /\ own'[e] # own[e] THEN [runs EXCEPT ![k][e] = 0] ELSE runs
  /\ Goes("run", After[e])
  /\ UNCHANGED <<inputs, etcdVars, lock, iter, held, left, save>>

\* The channel of Iter is closed.
TickEnds ==
  /\ At("run", "range") /\ iter.run.at = "closed"
  /\ iter' = [iter EXCEPT !.run = Off]
  /\ own' = NoNext /\ held' = NoScheduler
  /\ Goes("run", "select")
  /\ UNCHANGED <<inputs, etcdVars, rgt, lock, runs, left, save>>

-----------------------------------------------------------------------------
(* Reload.                                                                 *)

TakeReload ==
  /\ Loaded
  /\ At("reload", "idle") /\ pending
  /\ pending' = FALSE
  /\ Goes("reload", "read")
  /\ UNCHANGED <<now, tick, dates, cron, mine, moves, late, etcdVars, regVars, itemVars, left, save>>

\* Fault: only what is registered is looked at.
RebalanceOwn ==
  /\ At("reload", "read")
  /\ missed' = missed \ stored
  /\ left' = {k \in Keys : rgt[k] # NoScheduler}
  /\ Goes("reload", "next")
  /\ UNCHANGED <<inputs, stored, watch, todo, toLoad, changes, failed, regVars, itemVars, save>>

\* All keys etcd has; a scheduler whose deletion was missed is not looked at.
Rebalance ==
  /\ At("reload", "read")
  /\ left' = stored
  /\ missed' = missed \ stored
  /\ Goes("reload", "next")
  /\ UNCHANGED <<inputs, stored, watch, todo, toLoad, changes, failed, regVars, itemVars, save>>

\* The ring is asked about the next key ...
AskRing(k) ==
  /\ At("reload", "next") /\ k \in left
  /\ left' = left \ {k}
  /\ thr' = [thr EXCEPT !.reload =
       [at |-> IF k \in mine THEN "own" ELSE "foreign", key |-> k, then |-> "next"]]
  /\ UNCHANGED <<inputs, etcdVars, regVars, itemVars, save>>

\* ... and then the registry: a key of this node that is not registered is
\* stored, a registered key of another node is put and removed.
AskRegistry ==
  LET registered == rgt[thr.reload.key] # NoScheduler
  IN
  /\ Free
  /\ \/ At("reload", "own") /\ Goes("reload", IF registered THEN "next" ELSE "check")
     \/ At("reload", "foreign") /\ Goes("reload", IF registered THEN "put" ELSE "next")
  /\ UNCHANGED <<inputs, etcdVars, regVars, itemVars, left, save>>

HandOver ==
  /\ At("reload", "put")
  /\ Put(thr.reload.key)
  /\ Goes("reload", "remove")
  /\ UNCHANGED <<inputs, changes, failed, regVars, itemVars, left, save>>

\* A failed read or put ends the rebalance, whatever keys are left.
RebalanceFails ==
  /\ At("reload", "read") \/ At("reload", "put")
  /\ RequestFails
  /\ left' = {}
  /\ Goes("reload", "idle")
  /\ UNCHANGED <<inputs, regVars, itemVars, save>>

RebalanceDone ==
  /\ At("reload", "next") /\ left = {}
  /\ Goes("reload", "idle")
  /\ UNCHANGED <<inputs, etcdVars, regVars, itemVars, left, save>>

-----------------------------------------------------------------------------
(* Stop.                                                                   *)

\* m.stop is closed; save ranges over the registry.
Stop ==
  /\ Loaded /\ save = "idle"
  /\ save' = "range"
  /\ iter' = [iter EXCEPT !.save.at = "wait"]
  /\ UNCHANGED <<inputs, etcdVars, rgt, lock, thr, itemVars, left>>

SavePuts(k) ==
  /\ save = "range" /\ TakeItem("save", k)
  /\ Put(k)
  /\ UNCHANGED <<inputs, changes, failed, rgt, lock, thr, itemVars, left, save>>

\* A failed put ends the loop; Iter's goroutine is left with its other items.
SaveFails(k) ==
  /\ save = "range" /\ TakeItem("save", k)
  /\ RequestFails
  /\ save' = "returned"
  /\ UNCHANGED <<inputs, rgt, lock, thr, itemVars, left>>

SaveDone ==
  /\ save = "range" /\ iter.save.at = "closed"
  /\ save' = "returned"
  /\ UNCHANGED <<inputs, etcdVars, regVars, thr, itemVars, left>>

-----------------------------------------------------------------------------
Stores(t) == StoreCheck(t) \/ StoreSet(t)

LoadStep ==
  \/ LoadReads \/ LoadFails \/ LoadEnds \/ OpenWatch
  \/ \E k \in Keys : LoadKey(k) \/ LoadSkips(k)

RunStep ==
  \/ RunStops \/ TakeEvent \/ LookUp \/ Stores("run") \/ Remove("run")
  \/ TakeTick \/ TickEnds
  \/ \E k \in Keys : TakeScheduler(k) \/ SkipScheduler(k)
  \/ DeleteExpired
  \/ \E e \in Edges : Execute(e) \/ NotDue(e) \/ Forward(e)

ReloadStep ==
  \/ TakeReload \/ Rebalance \/ AskRegistry \/ HandOver \/ RebalanceDone
  \/ \E k \in Keys : AskRing(k)
  \/ Stores("reload") \/ Remove("reload")

SaveStep == SaveDone \/ \E k \in Keys : SavePuts(k)

Failures ==
  \/ WatchFails \/ DeleteExpiredFails \/ RebalanceFails
  \/ \E k \in Keys : SaveFails(k)

Next ==
  \/ Clock \/ RingMoves
  \/ \E k \in Keys : CreateScheduler(k) \/ DeleteScheduler(k)
  \/ \E w \in Iterators : IterLocks(w) \/ IterCloses(w)
  \/ LoadStep \/ RunStep \/ ReloadStep \/ Stop \/ SaveStep \/ Failures

Spec == Init /\ [][Next]_vars

-----------------------------------------------------------------------------
(* Properties.                                                             *)

Times == [Edges -> Moments]

RunStages ==
  {"load", "loading", "opening", "select", "ended", "get", "remove", "check", "set", "range", "delete"}
    \union Edges \union {Doing[e] : e \in Edges}

ReloadStages ==
  {"idle", "read", "next", "own", "foreign", "check", "set", "put", "remove"}

\* Types; and what Run holds as registered is what is registered, so that
\* moving its next executions on moves those in the registry, until another
\* goroutine removes it or puts a new scheduler there.
TypeOK ==
  /\ now \in 0 .. MaxTime /\ tick \in BOOLEAN
  /\ dates \in [Keys -> Dates] /\ cron \in [Keys -> Crons]
  /\ watch \in BOOLEAN /\ {toLoad, missed} \subseteq SUBSET Keys
  /\ stored \in SUBSET Keys /\ mine \in SUBSET Keys /\ pending \in BOOLEAN
  /\ todo \in Seq([type: {"create", "modify", "delete"}, key: Keys])
  /\ rgt \in [Keys -> Times \union {NoScheduler}]
  /\ lock \in Iterators \union {"none"}
  /\ iter \in [Iterators -> [at: {"off", "wait", "hold", "closed"}, items: SUBSET Keys]]
  /\ \A w \in Iterators : lock = w <=> iter[w].at = "hold"
  /\ thr.run.at \in RunStages /\ thr.reload.at \in ReloadStages
  /\ own \in Times /\ held \in Keys \union {NoScheduler}
  /\ held # NoScheduler => rgt[held] = own
  /\ left \in SUBSET Keys /\ save \in {"idle", "range", "returned"}
  /\ moves \in 0 .. MaxMoves /\ changes \in 0 .. MaxChanges
  /\ runs \in [Keys -> [Edges -> 0 .. 5]]
  /\ late \in BOOLEAN /\ failed \in BOOLEAN

\* An occurrence may be executed in more than one tick, as it is due for an
\* interval before its time and moved on only after it (manager.go:141): by one
\* registration in at most three, where a tick that is slow with what comes before
\* it looks at it later than the next ticks do, and in four when a tick was
\* waiting while the actions of an earlier one went on.  The zero time is no
\* occurrence: a schedule that has none is executed in every tick, for ever.
AtMostThrice == \A k \in Keys, e \in Edges : runs[k][e] <= IF late THEN 4 ELSE 3

\* Nothing is on its way: Run waits, all events are delivered, no reload is due.
AtRest ==
  /\ At("run", "select") /\ todo = << >>
  /\ At("reload", "idle") /\ ~pending /\ save = "idle"

\* load, events and rebalance, which ask the ring and the registry at different times,
\* end up with every scheduler of this node registered, also when the ring moves
\* between their steps (manager.go:166, 232) and when a scheduler expires: apart
\* from those load skipped or the watch missed, up to the next rebalance.
OwnerHasScheduler ==
  AtRest /\ ~failed => \A k \in (stored \intersect mine) \ missed : rgt[k] # NoScheduler

\* As long as the ring does not move, nothing else is registered: what is deleted,
\* by the API or on expiry, is gone when its event was handled (manager.go:114).
ExactWithoutMoves ==
  AtRest /\ moves = 0 /\ ~failed =>
    {k \in Keys : rgt[k] # NoScheduler} \ missed = (stored \intersect mine) \ missed

Forwards(e) == At("run", Doing[e]) /\ own'[e] # own[e]

\* No occurrence is passed over: what follows an executed occurrence of a registered
\* scheduler is the one after it, although Forward looks for it from now on
\* (scheduler.go:97) - unless ticks were late, or the scheduler was not active yet.
\* An '@every' has no occurrences of its own to pass over.
NothingSkipped ==
  [][\A e \in Edges :
       Forwards(e) /\ held # NoScheduler =>
         \/ late
         \/ own[e] <= dates[held].from
         \/ cron[held][e].every > 0
         \/ own'[e] = NextOcc(held, e, own[e])]_vars
=============================================================================
