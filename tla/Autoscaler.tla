----------------------------- MODULE Autoscaler -----------------------------
(***************************************************************************)
(* The autoscale managers of all nodes (pkg/autoscaler/manager.go) over    *)
(* the cluster of module Cluster and the scaler keys in etcd, which the    *)
(* API (api/scaler.go) creates and deletes.                                *)
(*                                                                         *)
(* In every process three kinds of goroutines work on the registry:        *)
(*   - load and then the watch loop Run, one event after the other;        *)
(*   - rebalance, one goroutine per key, started by the reload goroutine;  *)
(*   - save, one goroutine per registered scaler, started by Stop.         *)
(* The registry's own lock makes each single Get, Set and Delete atomic,   *)
(* and nothing more: what was checked before may be stale when it is used. *)
(* A scaler is the identity of its goroutine; module Scaler has its inside.*)
(***************************************************************************)
EXTENDS Cluster, FiniteSets

CONSTANTS
  Ids,       \* identities of the scaler goroutines of one key on one node
  NoId,      \* no scaler
  MaxChanges \* bound: API writes, failed requests and orderly stops, together, as
             \* long as so many joins have happened

ASSUME AutoscalerAssumption == NoId \notin Ids /\ Keys # {}

Watch == <<"watch">>
Threads == {Watch} \union ({"reload", "save"} \X Keys)

VARIABLES
  present,   \* etcd: the scaler keys
  changes,   \* API writes, failed requests and orderly stops so far
  mgr,       \* the stage every manager is in
  todo,      \* the events its watch has not delivered yet, oldest first
  rgt,       \* Manager.rgt: the registered scaler of every key
  live,      \* the scaler goroutines that run
  thr,       \* the goroutines at work on the registry
  rl,        \* the reload goroutine: idle, about to read the keys, waiting
  smissed,   \* observer: a scaler event fell between load and the watch, or a
             \* request the manager makes for its registry failed
  churned    \* observer: the ring changed, or a reload was due, since load

scalerVars == <<present, changes, mgr, todo, rgt, live, thr, rl, smissed, churned>>
vars == <<clusterVars, scalerVars>>

Idle == [at |-> "idle", key |-> CHOOSE k \in Keys : TRUE, id |-> NoId, then |-> "idle"]

\* etcd may hold scalers from before the cluster was started.
AInit ==
  /\ ClusterInit
  /\ present \in SUBSET Keys /\ changes = 0
  /\ mgr = [n \in Nodes |-> "none"]
  /\ todo = [n \in Nodes |-> << >>]
  /\ rgt = [n \in Nodes |-> [k \in Keys |-> NoId]]
  /\ live = [n \in Nodes |-> [k \in Keys |-> {}]]
  /\ thr = [n \in Nodes |-> [t \in Threads |-> Idle]]
  /\ rl = [n \in Nodes |-> "idle"]
  /\ smissed = [n \in Nodes |-> FALSE]
  /\ churned = [n \in Nodes |-> FALSE]

-----------------------------------------------------------------------------
(* etcd and the API.  An update through the API is a delete and a create.  *)

Change == changes < MaxChanges[joins] /\ changes' = changes + 1

\* The open watches deliver event e; a manager between load and watch misses it.
Notify(type, k) ==
  /\ todo' = [n \in Nodes |-> IF mgr[n] \in {"running", "stopping"}
                              THEN Append(todo[n], [type |-> type, key |-> k]) ELSE todo[n]]
  /\ smissed' = [n \in Nodes |-> smissed[n] \/ mgr[n] \in {"loading", "loaded"}]

\* A put of an absent key is a create event, of a present key a modify event.
PutKey(k) ==
  /\ present' = present \union {k}
  /\ Notify(IF k \in present THEN "modify" ELSE "create", k)

CreateScaler(k) ==
  /\ Change
  /\ PutKey(k)
  /\ UNCHANGED <<clusterVars, mgr, rgt, live, thr, rl, churned>>

DeleteScaler(k) ==
  /\ k \in present
  /\ Change
  /\ present' = present \ {k}
  /\ Notify("delete", k)
  /\ UNCHANGED <<clusterVars, mgr, rgt, live, thr, rl, churned>>

\* A request of node n's manager fails; the manager logs it and goes on without.
RequestFails(n) ==
  /\ Change
  /\ smissed' = [smissed EXCEPT ![n] = TRUE]
  /\ UNCHANGED present

etcdScalers == <<present, changes, smissed>>

-----------------------------------------------------------------------------
(* The steps of one goroutine on the registry.                             *)

At(n, t, l) == thr[n][t].at = l

\* The goroutine goes on at l with scaler i in hand.
Goes(n, t, l, i) ==
  thr' = [thr EXCEPT ![n][t] = IF l = "idle" THEN Idle ELSE [@ EXCEPT !.at = l, !.id = i]]

\* startScaler: the ring is asked first.
StartCheck(n, t) ==
  /\ At(n, t, "check")
  /\ Goes(n, t, IF LocalIsWorker(n, thr[n][t].key) THEN "backend" ELSE "idle", NoId)
  /\ UNCHANGED <<clusterVars, etcdScalers, mgr, todo, rgt, live, rl, churned>>

\* GetBackend has answered: the new scaler goes into the registry, over any
\* that is there, and runs.
StartSet(n, t) ==
  LET k == thr[n][t].key
      used == live[n][k] \union {rgt[n][k]} \union {thr[n][u].id : u \in Threads}
  IN
  /\ At(n, t, "backend")
  /\ Ids \ used # {}
  /\ LET i == CHOOSE j \in Ids \ used : TRUE IN
       /\ rgt' = [rgt EXCEPT ![n][k] = i]
       /\ live' = [live EXCEPT ![n][k] = @ \union {i}]
  /\ Goes(n, t, "idle", NoId)
  /\ UNCHANGED <<clusterVars, etcdScalers, mgr, todo, rl, churned>>

\* GetBackend fails, or load finds no cloud for the key: nothing is started.
StartFails(n, t) ==
  /\ At(n, t, "backend")
  /\ Goes(n, t, "idle", NoId)
  /\ RequestFails(n)
  /\ UNCHANGED <<clusterVars, mgr, todo, rgt, live, rl, churned>>

\* stopScaler: Get, then the ring is asked.  A node that is not the worker
\* leaves the scaler alone.
StopGet(n, t) ==
  LET k == thr[n][t].key
  IN
  /\ At(n, t, "get")
  /\ LocalIsWorker(n, k) => rgt[n][k] # NoId
  /\ IF LocalIsWorker(n, k)
     THEN Goes(n, t, "stop", rgt[n][k])
     ELSE Goes(n, t, thr[n][t].then, NoId)
  /\ UNCHANGED <<clusterVars, etcdScalers, mgr, todo, rgt, live, rl, churned>>

\* Stop has waited for the goroutine's end.
StopWaits(n, t) ==
  /\ At(n, t, "stop")
  /\ live' = [live EXCEPT ![n][thr[n][t].key] = @ \ {thr[n][t].id}]
  /\ Goes(n, t, "remove", NoId)
  /\ UNCHANGED <<clusterVars, etcdScalers, mgr, todo, rgt, rl, churned>>

\* Fault: the stopped scaler stays in the registry.
RemoveForgotten(n, t) ==
  /\ At(n, t, "remove")
  /\ Goes(n, t, thr[n][t].then, NoId)
  /\ UNCHANGED <<clusterVars, etcdScalers, mgr, todo, rgt, live, rl, churned>>

\* rgt.Delete removes whatever is registered under the name by now.
Remove(n, t) ==
  /\ At(n, t, "remove")
  /\ rgt' = [rgt EXCEPT ![n][thr[n][t].key] = NoId]
  /\ Goes(n, t, thr[n][t].then, NoId)
  /\ UNCHANGED <<clusterVars, etcdScalers, mgr, todo, live, rl, churned>>

\* Fault: save stops a scaler it has not looked up.
PutScalerNoLookup(n, t) ==
  /\ At(n, t, "put")
  /\ PutKey(thr[n][t].key)
  /\ Goes(n, t, "stop", thr[n][t].id)
  /\ UNCHANGED <<clusterVars, changes, mgr, rgt, live, rl, churned>>

\* DoPut of the scaler with its alert, by rebalance and save.
PutScaler(n, t) ==
  /\ At(n, t, "put")
  /\ PutKey(thr[n][t].key)
  /\ Goes(n, t, IF thr[n][t].id = NoId THEN "get" ELSE "stop", thr[n][t].id)
  /\ UNCHANGED <<clusterVars, changes, mgr, rgt, live, rl, churned>>

\* DoPut fails: save stops the scaler all the same, rebalance keeps it.
PutScalerFails(n, t) ==
  /\ At(n, t, "put")
  /\ Goes(n, t, IF thr[n][t].id = NoId THEN "get" ELSE "idle", NoId)
  /\ RequestFails(n)
  /\ UNCHANGED <<clusterVars, mgr, todo, rgt, live, rl, churned>>

-----------------------------------------------------------------------------
(* NewManager, load and Run.                                               *)

\* load reads the keys; its loop starts what the ring gives to this node.
LoadScalers(n) ==
  /\ pc[n] \in {"joined", "running"} /\ mgr[n] = "none"
  /\ mgr' = [mgr EXCEPT ![n] = "loading"]
  /\ thr' = [thr EXCEPT ![n] =
       [t \in Threads |-> IF t \in {"reload"} \X present
                          THEN [Idle EXCEPT !.at = "check", !.key = t[2]] ELSE Idle]]
  /\ smissed' = [smissed EXCEPT ![n] = FALSE]
  /\ churned' = [churned EXCEPT ![n] = phase[n] # "select"]
  /\ UNCHANGED <<clusterVars, present, changes, todo, rgt, live, rl>>

\* DoGet fails: load returns with nothing started.
LoadScalersFails(n) ==
  /\ pc[n] \in {"joined", "running"} /\ mgr[n] = "none"
  /\ mgr' = [mgr EXCEPT ![n] = "loaded"]
  /\ RequestFails(n)
  /\ churned' = [churned EXCEPT ![n] = phase[n] # "select"]
  /\ UNCHANGED <<clusterVars, todo, rgt, live, thr, rl>>

AllIdle(n, T) == \A t \in T : At(n, t, "idle")

LoadDone(n) ==
  /\ mgr[n] = "loading" /\ AllIdle(n, Threads)
  /\ mgr' = [mgr EXCEPT ![n] = "loaded"]
  /\ UNCHANGED <<clusterVars, etcdScalers, todo, rgt, live, thr, rl, churned>>

\* Run opens its watch at the current revision.
WatchScalers(n) ==
  /\ mgr[n] = "loaded"
  /\ mgr' = [mgr EXCEPT ![n] = "running"]
  /\ todo' = [todo EXCEPT ![n] = << >>]
  /\ UNCHANGED <<clusterVars, etcdScalers, rgt, live, thr, rl, churned>>

\* Fault: a delete event is taken for one of a scaler that is not registered.
HandlingNoDelete(n, e) ==
  CASE e.type = "create" -> [at |-> "check", key |-> e.key, id |-> NoId, then |-> "idle"]
    [] e.type = "modify" /\ rgt[n][e.key] # NoId ->
         [at |-> "get", key |-> e.key, id |-> NoId, then |-> "check"]
    [] OTHER -> Idle

\* What Run does first with an event: create starts; modify and delete stop
\* what is registered, modify starts it again.
Handling(n, e) ==
  CASE e.type = "create" -> [at |-> "check", key |-> e.key, id |-> NoId, then |-> "idle"]
    [] e.type # "create" /\ rgt[n][e.key] # NoId ->
         [at |-> "get", key |-> e.key, id |-> NoId,
          then |-> IF e.type = "modify" THEN "check" ELSE "idle"]
    [] OTHER -> Idle

\* Run takes the next event; while stop is closed it may still pick one.
TakeEvent(n) ==
  /\ mgr[n] \in {"running", "stopping"} /\ At(n, Watch, "idle")
  /\ todo[n] # << >>
  /\ todo' = [todo EXCEPT ![n] = Tail(@)]
  /\ thr' = [thr EXCEPT ![n][Watch] = Handling(n, Head(todo[n]))]
  /\ UNCHANGED <<clusterVars, etcdScalers, mgr, rgt, live, rl, churned>>

\* The watch answers with an error: Run reports it on ErrCh and ends.
WatchScalersFail(n, t) ==
  /\ t = Watch /\ mgr[n] \in {"running", "stopping"} /\ At(n, t, "idle")
  /\ Goes(n, t, "ended", NoId)
  /\ RequestFails(n)
  /\ UNCHANGED <<clusterVars, mgr, todo, rgt, live, rl, churned>>

-----------------------------------------------------------------------------
(* Reload: rebalance of the autoscale manager.                             *)

\* The reload goroutine exists once the managers are made.
TakeReload(n) ==
  /\ mgr[n] \in {"loaded", "running", "stopping"}
  /\ SendReload(n)
  /\ rl' = [rl EXCEPT ![n] = "get"]
  /\ UNCHANGED <<present, changes, mgr, todo, rgt, live, thr, smissed, churned>>

\* DoGet of all keys; one goroutine per key.
Rebalance(n) ==
  /\ rl[n] = "get"
  /\ rl' = [rl EXCEPT ![n] = "wait"]
  /\ thr' = [thr EXCEPT ![n] =
       [t \in Threads |-> IF t \in {"reload"} \X present
                          THEN [Idle EXCEPT !.at = "ring", !.key = t[2]] ELSE @[t]]]
  /\ UNCHANGED <<clusterVars, etcdScalers, mgr, todo, rgt, live, churned>>

\* DoGet fails: rebalance returns.
RebalanceFails(n) ==
  /\ rl[n] = "get"
  /\ FinishReload(n)
  /\ rl' = [rl EXCEPT ![n] = "idle"]
  /\ RequestFails(n)
  /\ UNCHANGED <<mgr, todo, rgt, live, thr, churned>>

\* The goroutine asks the ring ...
AskRing(n, t) ==
  /\ At(n, t, "ring")
  /\ Goes(n, t, IF LocalIsWorker(n, thr[n][t].key) THEN "own" ELSE "foreign", NoId)
  /\ UNCHANGED <<clusterVars, etcdScalers, mgr, todo, rgt, live, rl, churned>>

\* ... and then the registry: the node's own key that is not registered is
\* started, a registered key of another node is put, stopped and removed.
AskRegistry(n, t) ==
  LET registered == rgt[n][thr[n][t].key]
  IN
  /\ \/ At(n, t, "own")
        /\ Goes(n, t, IF registered = NoId THEN "check" ELSE "idle", NoId)
     \/ At(n, t, "foreign")
        /\ Goes(n, t, IF registered = NoId THEN "idle" ELSE "put", registered)
  /\ UNCHANGED <<clusterVars, etcdScalers, mgr, todo, rgt, live, rl, churned>>

\* wg.Wait returns.
RebalanceDone(n) ==
  /\ rl[n] = "wait" /\ AllIdle(n, {"reload"} \X Keys)
  /\ FinishReload(n)
  /\ rl' = [rl EXCEPT ![n] = "idle"]
  /\ UNCHANGED <<present, changes, mgr, todo, rgt, live, thr, smissed, churned>>

-----------------------------------------------------------------------------
(* Stop and the end of the process.                                        *)

\* Stop closes m.stop; save starts one goroutine per registered scaler.
StopManager(n) ==
  /\ pc[n] = "running" /\ mgr[n] = "running"
  /\ Change
  /\ mgr' = [mgr EXCEPT ![n] = "stopping"]
  /\ thr' = [thr EXCEPT ![n] =
       [t \in Threads |-> IF \E k \in Keys : t = <<"save", k>> /\ rgt[n][k] # NoId
                          THEN [Idle EXCEPT !.at = "put", !.key = t[2]] ELSE @[t]]]
  /\ UNCHANGED <<clusterVars, present, smissed, todo, rgt, live, rl, churned>>

\* save has returned; main goes on to stop the cluster.
ManagerStopped(n) ==
  /\ mgr[n] = "stopping" /\ AllIdle(n, {"save"} \X Keys)
  /\ Stop(n)
  /\ mgr' = [mgr EXCEPT ![n] = "stopped"]
  /\ UNCHANGED <<etcdScalers, todo, rgt, live, thr, rl, churned>>

\* Nothing of a manager outlives its process.
ManagerGone(n) ==
  /\ mgr' = [mgr EXCEPT ![n] = "none"]
  /\ todo' = [todo EXCEPT ![n] = << >>]
  /\ rgt' = [rgt EXCEPT ![n] = [k \in Keys |-> NoId]]
  /\ live' = [live EXCEPT ![n] = [k \in Keys |-> {}]]
  /\ thr' = [thr EXCEPT ![n] = [t \in Threads |-> Idle]]
  /\ rl' = [rl EXCEPT ![n] = "idle"]
  /\ smissed' = [smissed EXCEPT ![n] = FALSE]
  /\ churned' = [churned EXCEPT ![n] = FALSE]
  /\ UNCHANGED <<present, changes>>

ProcessEnds(n) == (Leave(n) \/ Crash(n)) /\ ManagerGone(n)

\* stopScaler found the key unregistered on the node that is its worker: Stop of
\* a nil scaler panics and takes the process down.
StopNilPanics(n, t) ==
  /\ At(n, t, "get")
  /\ LocalIsWorker(n, thr[n][t].key) /\ rgt[n][thr[n][t].key] = NoId
  /\ Crash(n) /\ ManagerGone(n)

-----------------------------------------------------------------------------
\* The cluster's steps that leave the manager alone.
ClusterOnly(n) ==
  /\ \/ LeaseExpires(n) \/ Load(n) \/ Join(n) \/ JoinFails(n) \/ OpenWatch(n) \/ Receive(n)
  /\ UNCHANGED scalerVars

\* Observer: the ring the manager uses has changed.
RingMoves(n) ==
  /\ ApplyEvent(n)
  /\ churned' = [churned EXCEPT ![n] = TRUE]
  /\ UNCHANGED <<etcdScalers, mgr, todo, rgt, live, thr, rl>>

ThreadStep(n, t) ==
  \/ StartCheck(n, t) \/ StartSet(n, t) \/ StartFails(n, t)
  \/ StopGet(n, t) \/ StopWaits(n, t) \/ Remove(n, t)
  \/ PutScaler(n, t) \/ PutScalerFails(n, t)
  \/ AskRing(n, t) \/ AskRegistry(n, t)
  \/ WatchScalersFail(n, t) \/ StopNilPanics(n, t)

NodeStep(n) ==
  \/ ClusterOnly(n) \/ RingMoves(n)
  \/ LoadScalers(n) \/ LoadScalersFails(n) \/ LoadDone(n)
  \/ WatchScalers(n) \/ TakeEvent(n)
  \/ TakeReload(n) \/ Rebalance(n) \/ RebalanceFails(n) \/ RebalanceDone(n)
  \/ StopManager(n) \/ ManagerStopped(n) \/ ProcessEnds(n)
  \/ \E t \in Threads : ThreadStep(n, t)

ANext ==
  \/ \E k \in Keys : CreateScaler(k) \/ DeleteScaler(k)
  \/ \E n \in Nodes : NodeStep(n)

ASpec == AInit /\ [][ANext]_vars

-----------------------------------------------------------------------------
(* Properties.                                                             *)

Thread == [at: {"idle", "check", "backend", "get", "stop", "remove", "put", "ring", "own", "foreign",
                "ended"},
           key: Keys, id: Ids \union {NoId}, then: {"idle", "check"}]

\* Every variable has its type; a goroutine that stops a scaler has one in hand.
ATypeOK ==
  /\ TypeOK
  /\ present \in SUBSET Keys /\ changes \in Nat
  /\ mgr \in [Nodes -> {"none", "loading", "loaded", "running", "stopping", "stopped"}]
  /\ todo \in [Nodes -> Seq([type: {"create", "modify", "delete"}, key: Keys])]
  /\ rgt \in [Nodes -> [Keys -> Ids \union {NoId}]]
  /\ live \in [Nodes -> [Keys -> SUBSET Ids]]
  /\ thr \in [Nodes -> [Threads -> Thread]]
  /\ \A n \in Nodes, t \in Threads : At(n, t, "stop") => thr[n][t].id # NoId
  /\ rl \in [Nodes -> {"idle", "get", "wait"}]
  /\ smissed \in [Nodes -> BOOLEAN] /\ churned \in [Nodes -> BOOLEAN]

\* A manager whose watch is open, with no event to take, no goroutine at work and no
\* reload due.
AtRest(n) ==
  /\ mgr[n] = "running" /\ todo[n] = << >>
  /\ AllIdle(n, Threads) /\ rl[n] = "idle"
  /\ Settled(n)

\* Every member is at rest and none missed an event at its start.
Quiescent ==
  /\ Registered # {}
  /\ \A n \in Registered : AtRest(n) /\ ~missed[n] /\ ~smissed[n]

\* No scaler is lost: whatever joins, leaves, crashes, API writes and rebalances
\* came before and however they overlapped, once all members are at rest the
\* worker of every stored key has it registered and running.
OwnerRunsKey ==
  Quiescent =>
    \A k \in present : \A n \in Registered :
      LocalIsWorker(n, k) => rgt[n][k] # NoId /\ rgt[n][k] \in live[n][k]

\* The registry of a manager at rest names only running scalers: rebalance skips
\* a key that is registered, so a dead entry would never be started again.
RegisteredIsLive ==
  \A n \in Nodes, k \in Keys :
    AtRest(n) /\ rgt[n][k] # NoId => rgt[n][k] \in live[n][k]

\* A manager at rest whose ring has not changed runs each stored key it is the
\* worker of exactly once and nothing else, through any creates and deletes.
ExactWithoutChurn ==
  \A n \in Nodes, k \in Keys :
    (AtRest(n) /\ ~churned[n] /\ ~smissed[n]) =>
      live[n][k] = IF k \in present /\ LocalIsWorker(n, k) THEN {rgt[n][k]} ELSE {}
=============================================================================
