--------------------------- MODULE HealerManager ----------------------------
(***************************************************************************)
(* The manager of name resolvers and healers (pkg/autohealer/manager.go)   *)
(* of one node, for one cloud: its two kinds of workers in one registry,   *)
(* the resolver's goroutine (nresolver.go), and the channels ncin and ncout*)
(* by which pubSubNodes hands the names of nodes from one to the other.    *)
(*                                                                         *)
(* Run, the reload goroutine and the two goroutines of save work on the    *)
(* registry.  The resolver of a cloud runs on every node, its healer only  *)
(* where the ring says so.  The other nodes appear as changes of the ring.  *)
(* A worker and the channel made for it share an identity; a healer's own  *)
(* goroutines are the subject of module Healer.                            *)
(***************************************************************************)
EXTENDS Integers, Sequences, FiniteSets

CONSTANTS
  Resolvers,  \* bound: identities of resolvers, and of the channels in ncin
  Healers,    \* bound: identities of healers, and of the channels in ncout
  Pubs,       \* bound: goroutines of pubSubNodes alive at a time
  None,
  MaxChanges  \* bound: writes of the API, changes of the ring, failed requests and
              \* a Stop, together

ASSUME HealerManagerAssumption ==
  None \notin Resolvers \union Healers /\ MaxChanges \in Nat

VARIABLES
  cloud, nrkey, hkey,  \* etcd: the keys of the cloud, its resolver, its healer
  todo,     \* the events the two watches have not delivered, oldest first
  deaf,     \* the watches that have ended with an error
  create,   \* how far a createHealer of the API is
  changes,
  mine,     \* the ring gives the healer to this node
  pending,  \* the ring has changed and the reload was not taken
  mgr,      \* Manager.state
  crash,    \* what ended the process: a nil worker, a channel closed twice, a
            \* missing cloud, a map written while it was read
  rqt,      \* Manager.rqt
  ncin, ncout,
  res,      \* the resolvers: off, up, or with done closed; one that waits with done
            \* closed for a name to be taken is not told from one that has yet to end
  heal,     \* the healers: where run is
  hch,      \* the channel a healer listens to
  pub,      \* the goroutines of pubSubNodes and the channel each waits at
  thr,      \* the goroutines at work on the registry
  (* Observers. *)
  failed,   \* a request or a watch failed, or an event fell between load and the watches
  late,     \* a healer was put when its cloud had been removed
  churned,  \* the ring changed while the node was up
  early     \* healers that started before the resolver that is registered now

watchVars == <<todo, deaf, failed>>
apiVars == <<create, late>>
etcdVars == <<cloud, nrkey, hkey, changes, watchVars, apiVars>>
ringVars == <<mine, pending, churned>>
chanVars == <<ncin, ncout, hch, pub, early>>
workers == <<rqt, res, heal>>
Node == <<chanVars, workers, mgr, crash>>
vars == <<etcdVars, ringVars, Node, thr>>

Threads == {"run", "reload", "saveN", "saveH"}
Idle == [at |-> "idle", id |-> None, then |-> "idle"]
Off == [at |-> "off", ch |-> None]
Turn == [at |-> "get", ch |-> None]

NoWorker == [nr |-> None, healer |-> None]

Watches == {"cloud", "healer"}

\* Before load; etcd is as a cluster at rest leaves it.
Init ==
  /\ cloud \in BOOLEAN /\ nrkey = cloud
  /\ hkey \in BOOLEAN /\ late = (hkey /\ ~cloud)
  /\ todo = [w \in Watches |-> << >>] /\ deaf = {} /\ changes = 0
  /\ create = "no"
  /\ mine \in BOOLEAN /\ pending = FALSE
  /\ mgr = "loading" /\ crash = "no"
  /\ rqt = NoWorker /\ ncin = None /\ ncout = None
  /\ res = [r \in Resolvers |-> "off"]
  /\ heal = [h \in Healers |-> "off"] /\ hch = [h \in Healers |-> None]
  /\ pub = [p \in Pubs |-> Off]
  /\ thr = [t \in Threads |-> IF t = "run" THEN [Idle EXCEPT !.at = "loadN"] ELSE Idle]
  /\ failed = FALSE /\ churned = FALSE /\ early = {}

Up == crash = "no"
At(t, l) == Up /\ thr[t].at = l
Goes(t, l, i) == thr' = [thr EXCEPT ![t].at = l, ![t].id = i]
\* The goroutine is done with what it was at.
Returns(t) == Goes(t, thr[t].then, None)
\* It only decides where to go on, with worker i in hand.
Steps(t, l, i) == Goes(t, l, i) /\ UNCHANGED <<etcdVars, ringVars, Node>>

-----------------------------------------------------------------------------
(* etcd, its users and the other nodes.                                    *)

\* What comes after the manager has stopped is of no interest to it.
Open == Up /\ mgr # "stopped"
Change == Open /\ changes < MaxChanges /\ changes' = changes + 1

\* The watches that are open get the event.
Event(w, type) ==
  /\ todo' = IF mgr = "loading" \/ w \in deaf THEN todo ELSE [todo EXCEPT ![w] = Append(@, type)]
  /\ failed' = (failed \/ mgr = "loading")
  /\ deaf' = deaf

NoEvent == UNCHANGED watchVars

\* registerCloud and unregisterCloud write the key of the cloud.
WriteCloud ==
  /\ Change
  /\ cloud' = ~cloud
  /\ Event("cloud", IF cloud THEN "delete" ELSE "create")
  /\ UNCHANGED <<nrkey, hkey, apiVars, ringVars, Node, thr>>

\* createHealer goes on only with the answer it asked for.
CreateGoes(from, ok, to) ==
  /\ create = from
  /\ create' = IF ok THEN to ELSE "no"
  /\ UNCHANGED <<cloud, nrkey, hkey, watchVars, late, ringVars, Node, thr>>

\* It looks for the cloud, for a healer of it, and, to try the query, for the cloud
\* again: GetBackend panics without it, and the request with it.
AskCloud == Change /\ cloud /\ CreateGoes("no", TRUE, "count")
CountHealers == Open /\ CreateGoes("count", ~hkey, "query") /\ UNCHANGED changes
TryQuery == Open /\ CreateGoes("query", cloud, "put") /\ UNCHANGED changes

\* A put over a key is a modify event, which the loops do not look at.
Put == hkey' = TRUE /\ IF hkey THEN NoEvent ELSE Event("healer", "create")

\* The put does not ask again.
CreateHealer ==
  /\ Open /\ create = "put"
  /\ create' = "no"
  /\ Put
  /\ late' = (late \/ ~cloud)
  /\ UNCHANGED <<cloud, nrkey, changes, ringVars, Node, thr>>

\* deleteHealer.
RemoveHealer ==
  /\ Change /\ hkey
  /\ hkey' = FALSE
  /\ Event("healer", "delete")
  /\ UNCHANGED <<cloud, nrkey, apiVars, ringVars, Node, thr>>

PutHealer == Put /\ UNCHANGED <<cloud, nrkey, changes, apiVars>>

\* Cluster.Run applies a change and waits until the reload is taken.
RingMoves ==
  /\ Change /\ ~pending
  /\ mine' = ~mine /\ pending' = TRUE /\ churned' = TRUE
  /\ UNCHANGED <<cloud, nrkey, hkey, watchVars, apiVars, Node, thr>>

\* A request fails; its caller logs it and says how it goes on.
RequestFails ==
  Change /\ failed' = TRUE /\ UNCHANGED <<cloud, nrkey, hkey, todo, deaf, apiVars>>

\* The process ends, and all of its memory is gone.
Panics(why) ==
  /\ crash' = why
  /\ thr' = [t \in Threads |-> Idle]
  /\ rqt' = NoWorker /\ ncin' = None /\ ncout' = None
  /\ res' = [r \in Resolvers |-> "off"]
  /\ heal' = [h \in Healers |-> "off"] /\ hch' = [h \in Healers |-> None]
  /\ pub' = [p \in Pubs |-> Off] /\ early' = {}
  /\ UNCHANGED <<etcdVars, ringVars, mgr>>

-----------------------------------------------------------------------------
(* load, and the watches of Run.                                           *)

\* A prefix is read; the next one is read after what it holds is started.
Reads(l, key, next, after) ==
  /\ At("run", l)
  /\ thr' = [thr EXCEPT !.run = [at |-> IF key THEN next ELSE after,
                                 id |-> None, then |-> after]]
  /\ UNCHANGED <<etcdVars, ringVars, Node>>

LoadResolver == Reads("loadN", nrkey, "checkN", "loadH")
LoadHealer == Reads("loadH", hkey, "checkH", "watch")

\* CheckKey looks for the cloud of a worker that was read.
CheckCloud(l, next) ==
  At("run", l) /\ Steps("run", IF cloud THEN next ELSE thr.run.then, None)

CheckResolver == CheckCloud("checkN", "backendN")
CheckHealer == CheckCloud("checkH", "ring")

LoadFails ==
  /\ At("run", "loadN") \/ At("run", "loadH")
  /\ Goes("run", "watch", None)
  /\ RequestFails
  /\ UNCHANGED <<ringVars, Node>>

OpenWatches ==
  /\ At("run", "watch")
  /\ thr' = [thr EXCEPT !.run = [at |-> "select", id |-> None, then |-> "select"]]
  /\ mgr' = "active"
  /\ UNCHANGED <<etcdVars, ringVars, chanVars, workers, crash>>

-----------------------------------------------------------------------------
(* startWorker.                                                            *)

\* Fault: a healer is started wherever it is created.
StartsAnywhere(t) == At(t, "ring") /\ Steps(t, "backend", None)

\* Healers are started by the node the ring names, resolvers by all.
AskRing(t) == At(t, "ring") /\ Steps(t, IF mine THEN "backend" ELSE thr[t].then, None)

\* GetBackend reads the cloud and takes the first key of the answer unseen.
CloudMissing(t) == (At(t, "backend") \/ At(t, "backendN")) /\ ~cloud /\ Panics("cloud")

\* The backend cannot be read or reached, or load cannot look for the cloud.
StartFails(t) ==
  /\ \E l \in {"backend", "backendN", "checkN", "checkH"} : At(t, l)
  /\ Returns(t)
  /\ RequestFails
  /\ UNCHANGED <<ringVars, Node>>

\* The identities somebody may still use.
Known == {rqt.nr, rqt.healer, ncin, ncout} \union {pub[p].ch : p \in Pubs}
         \union {thr[t].id : t \in Threads} \union {hch[h] : h \in Healers}

\* A resolver replaces the one of before, with a channel of its own.
StartResolver ==
  LET free == {r \in Resolvers : res[r] = "off"} \ Known
      r == CHOOSE x \in free : TRUE
  IN
  /\ At("run", "backendN") /\ cloud /\ free # {}
  /\ rqt' = [rqt EXCEPT !.nr = r] /\ ncin' = r
  /\ res' = [res EXCEPT ![r] = "up"]
  /\ early' = {h \in Healers : heal[h] # "off"}
  /\ Returns("run")
  /\ UNCHANGED <<etcdVars, ringVars, ncout, hch, pub, heal, mgr, crash>>

\* GetBackend has answered, and the healer is registered.
Registers(t, next) ==
  LET free == {h \in Healers : heal[h] = "off"} \ Known
      h == CHOOSE x \in free : TRUE
  IN
  /\ At(t, "backend") /\ cloud /\ free # {}
  /\ rqt' = [rqt EXCEPT !.healer = h]
  /\ heal' = [heal EXCEPT ![h] = "made"]
  /\ Goes(t, next, h)
  /\ UNCHANGED <<etcdVars, ringVars, chanVars, res, mgr, crash>>

\* Fault: the healer runs before its channel is made.
SetHealerUnfed(t) == Registers(t, "go")

SetHealer(t) == Registers(t, "chan")

\* Its channel replaces the one of before.
MakeChan(t) ==
  /\ At(t, "chan")
  /\ ncout' = thr[t].id
  /\ Goes(t, "go", thr[t].id)
  /\ UNCHANGED <<etcdVars, ringVars, ncin, hch, pub, early, workers, mgr, crash>>

\* Both maps are written without a lock while pubSubNodes reads them.
MapRace ==
  /\ \E t \in Threads : At(t, "chan") \/ At(t, "backendN")
  /\ \E p \in Pubs : pub[p].at = "get"
  /\ Panics("race")

\* run is given the channel that is there by now, and pubSubNodes starts.  run of
\* a healer that was stopped meanwhile looks at done first.
GoHealer(t) ==
  LET h == thr[t].id
      free == {p \in Pubs : pub[p].at = "off"}
  IN
  /\ At(t, "go") /\ free # {}
  /\ hch' = [hch EXCEPT ![h] = ncout]
  /\ heal' = [heal EXCEPT ![h] = IF @ = "made" THEN "live" ELSE @]
  /\ pub' = [pub EXCEPT ![CHOOSE p \in free : TRUE].at = "get"]
  /\ early' = IF rqt.nr # None /\ ncin = rqt.nr THEN early \ {h} ELSE early \union {h}
  /\ Returns(t)
  /\ UNCHANGED <<etcdVars, ringVars, ncin, ncout, rqt, res, mgr, crash>>

-----------------------------------------------------------------------------
(* stopWorker.                                                             *)

\* Stop of a resolver closes done and does not ask whether it is closed.
StopResolver(t) ==
  /\ At(t, "stopN") /\ rqt.nr # None /\ res[rqt.nr] = "up"
  /\ res' = [res EXCEPT ![rqt.nr] = "done"]
  /\ Goes(t, "forgetN", None)
  /\ UNCHANGED <<etcdVars, ringVars, chanVars, rqt, heal, mgr, crash>>

ClosedTwice(t) ==
  At(t, "stopN") /\ rqt.nr # None /\ res[rqt.nr] # "up" /\ Panics("closed")

\* What Get did not find is stopped all the same.
NilWorker(t) ==
  /\ \/ At(t, "stopN") /\ rqt.nr = None
     \/ At(t, "ask") /\ mine /\ thr[t].id = None
  /\ Panics("nil")

ForgetResolver(t) ==
  /\ At(t, "forgetN")
  /\ rqt' = [rqt EXCEPT !.nr = None]
  /\ IF t = "run" THEN Goes(t, "delN", None) ELSE Returns(t)
  /\ UNCHANGED <<etcdVars, ringVars, chanVars, res, heal, mgr, crash>>

GetHealer(t) == At(t, "get") /\ Steps(t, "ask", rqt.healer)

\* A node that is not the worker any more leaves the healer to its rebalance.
LeaveHealer(t) == At(t, "ask") /\ ~mine /\ Steps(t, thr[t].then, None)

\* Stop closes done once and then waits for the end of run.
StopHealer(t) ==
  LET h == thr[t].id
  IN
  /\ (At(t, "ask") /\ mine) \/ At(t, "halt")
  /\ h # None
  /\ heal' = [heal EXCEPT ![h] = IF @ \in {"made", "live"} THEN "stopping" ELSE @]
  /\ Goes(t, "wait", h)
  /\ UNCHANGED <<etcdVars, ringVars, chanVars, rqt, res, mgr, crash>>

HealerEnds(h) ==
  /\ Up /\ heal[h] = "stopping"
  /\ \A t \in Threads : thr[t].id = h => thr[t].at \notin {"chan", "go"}
  /\ heal' = [heal EXCEPT ![h] = "off"]
  /\ UNCHANGED <<etcdVars, ringVars, chanVars, rqt, res, mgr, crash, thr>>

\* Stop returns, and what is registered under the key is taken out.
ForgetHealer(t) ==
  /\ At(t, "wait") /\ heal[thr[t].id] = "off"
  /\ rqt' = [rqt EXCEPT !.healer = None]
  /\ Returns(t)
  /\ UNCHANGED <<etcdVars, ringVars, chanVars, res, heal, mgr, crash>>

-----------------------------------------------------------------------------
(* Run.                                                                    *)

\* The next event of a watch is a write of this type, and stage handles it.
Take(w, type, stage) ==
  /\ At("run", "select") /\ todo[w] # << >> /\ Head(todo[w]) = type
  /\ todo' = [todo EXCEPT ![w] = Tail(@)]
  /\ Goes("run", stage, None)
  /\ UNCHANGED <<cloud, nrkey, hkey, changes, deaf, failed, apiVars, ringVars, Node>>

\* A watch answers with an error.  Run reports it, leaves the select only, and goes on
\* without the events of that watch.
WatchFails(w) ==
  /\ At("run", "select") /\ w \notin deaf
  /\ Change
  /\ deaf' = deaf \union {w} /\ todo' = [todo EXCEPT ![w] = << >>] /\ failed' = TRUE
  /\ UNCHANGED <<cloud, nrkey, hkey, apiVars, ringVars, Node, thr>>

CloudCreated == Take("cloud", "create", "putN")
CloudGone == Take("cloud", "delete", IF rqt.nr # None THEN "stopN" ELSE "dropH")
HealerCreated == Take("healer", "create", "ring")

\* Fault: the delete of a healer is not asked for in the registry.
HealerGoneUnseen == Take("healer", "delete", "get")

HealerGone == Take("healer", "delete", IF rqt.healer # None THEN "get" ELSE "select")

\* Every node puts the key of the resolver, whose events nobody watches.
PutResolver(t) ==
  /\ At(t, "putN")
  /\ \/ nrkey' = TRUE /\ UNCHANGED <<cloud, hkey, changes, watchVars, apiVars>>
     \/ RequestFails
  /\ Goes(t, IF t = "run" THEN "backendN" ELSE "stopN", None)
  /\ UNCHANGED <<ringVars, Node>>

DeleteResolver ==
  /\ At("run", "delN")
  /\ \/ nrkey' = FALSE /\ UNCHANGED <<cloud, hkey, changes, watchVars, apiVars>>
     \/ RequestFails
  /\ Goes("run", "dropH", None)
  /\ UNCHANGED <<ringVars, Node>>

\* The healer of a removed cloud is deleted in etcd; its own event stops it.
DeleteHealer ==
  /\ At("run", "dropH")
  /\ \/ /\ hkey' = FALSE
        /\ IF hkey THEN Event("healer", "delete") ELSE NoEvent
        /\ UNCHANGED <<cloud, nrkey, changes, apiVars>>
     \/ RequestFails
  /\ Returns("run")
  /\ UNCHANGED <<ringVars, Node>>

RunStops == At("run", "select") /\ mgr # "active" /\ Steps("run", "ended", None)

-----------------------------------------------------------------------------
(* rebalance and save.                                                     *)

\* The reload is taken and the key of the healer read.
Rebalance ==
  /\ At("reload", "idle") /\ pending /\ mgr # "loading"
  /\ pending' = FALSE
  /\ \/ Goes("reload", IF hkey THEN "look" ELSE "idle", None) /\ UNCHANGED etcdVars
     \/ RequestFails /\ UNCHANGED thr
  /\ UNCHANGED <<mine, churned, Node>>

\* The ring is asked, and then the registry.
Look ==
  At("reload", "look") /\ Steps("reload", IF mine THEN "lookMine" ELSE "lookOther", None)

LookUp ==
  \/ /\ At("reload", "lookMine")
     /\ Steps("reload", IF rqt.healer = None THEN "ring" ELSE "idle", None)
  \/ /\ At("reload", "lookOther")
     /\ Steps("reload", IF rqt.healer # None THEN "put" ELSE "idle", rqt.healer)

\* The healer is stored for the node that takes it over.
HandOver ==
  /\ At("reload", "put")
  /\ \/ PutHealer /\ Goes("reload", "halt", thr.reload.id)
     \/ RequestFails /\ Returns("reload")
  /\ UNCHANGED <<ringVars, Node>>

\* Stop: what the registry holds is saved, each worker by a goroutine.
Stop ==
  /\ Change /\ mgr = "active"
  /\ mgr' = "stopping"
  /\ thr' = [thr EXCEPT !.saveN.at = IF rqt.nr # None THEN "putN" ELSE "idle",
                        !.saveH.at = IF rqt.healer # None THEN "putH" ELSE "idle"]
  /\ UNCHANGED <<cloud, nrkey, hkey, watchVars, apiVars, ringVars, chanVars, workers, crash>>

\* The worker is stopped whether it could be put or not.
SaveHealer ==
  /\ At("saveH", "putH")
  /\ PutHealer \/ RequestFails
  /\ Goes("saveH", "get", None)
  /\ UNCHANGED <<ringVars, Node>>

Stopped ==
  /\ Up /\ mgr = "stopping" /\ thr.saveN.at = "idle" /\ thr.saveH.at = "idle"
  /\ mgr' = "stopped"
  /\ UNCHANGED <<etcdVars, ringVars, chanVars, workers, crash, thr>>

-----------------------------------------------------------------------------
(* Names: NResolver.run, pubSubNodes, and the case of Healer.run for nc.   *)

ResolverEnds(r) ==
  /\ Up /\ res[r] = "done"
  /\ res' = [res EXCEPT ![r] = "off"]
  /\ UNCHANGED <<etcdVars, ringVars, chanVars, rqt, heal, mgr, crash, thr>>

\* The goroutine p of pubSubNodes goes on to wait at s.
PubGoes(p, s) ==
  /\ pub' = [pub EXCEPT ![p] = s]
  /\ UNCHANGED <<etcdVars, ringVars, ncin, ncout, hch, early, workers, mgr, crash, thr>>

\* Each turn looks at stop and takes the channel of the resolver there is by now;
\* without one it waits at a nil channel, that is for ever.
PubTurns(p) ==
  /\ Up /\ pub[p].at = "get"
  /\ PubGoes(p, IF mgr \in {"loading", "active"} THEN [at |-> "recv", ch |-> ncin] ELSE Off)

\* A query has found a name: it goes on to the healer there is by now.
PubReceives(p, r) ==
  /\ Up /\ pub[p] = [at |-> "recv", ch |-> r] /\ res[r] # "off"
  /\ PubGoes(p, IF ncout = None THEN Turn ELSE [at |-> "send", ch |-> ncout])

\* Fault: one name is handed on, and no more.
UpdateNodesOnce(p, h) ==
  /\ Up /\ heal[h] = "live" /\ pub[p] = [at |-> "send", ch |-> hch[h]]
  /\ PubGoes(p, Off)

UpdateNodes(p, h) ==
  /\ Up /\ heal[h] = "live" /\ pub[p] = [at |-> "send", ch |-> hch[h]]
  /\ PubGoes(p, Turn)

-----------------------------------------------------------------------------

Next ==
  \/ WriteCloud \/ AskCloud \/ CountHealers \/ TryQuery \/ CreateHealer \/ RemoveHealer
  \/ RingMoves \/ (\E w \in Watches : WatchFails(w))
  \/ LoadResolver \/ LoadHealer \/ CheckResolver \/ CheckHealer \/ LoadFails \/ OpenWatches
  \/ CloudCreated \/ CloudGone \/ HealerCreated \/ HealerGone
  \/ StartResolver \/ DeleteResolver \/ DeleteHealer \/ RunStops
  \/ Rebalance \/ Look \/ LookUp \/ HandOver
  \/ Stop \/ SaveHealer \/ Stopped \/ MapRace
  \/ \E t \in Threads :
       \/ AskRing(t) \/ CloudMissing(t) \/ StartFails(t)
       \/ SetHealer(t) \/ MakeChan(t) \/ GoHealer(t)
       \/ PutResolver(t) \/ StopResolver(t) \/ ClosedTwice(t) \/ NilWorker(t)
       \/ ForgetResolver(t) \/ GetHealer(t) \/ LeaveHealer(t) \/ StopHealer(t)
       \/ ForgetHealer(t)
  \/ \E h \in Healers : HealerEnds(h)
  \/ \E r \in Resolvers : ResolverEnds(r)
  \/ \E p \in Pubs :
       \/ PubTurns(p)
       \/ \E r \in Resolvers : PubReceives(p, r)
       \/ \E h \in Healers : UpdateNodes(p, h)

Spec == Init /\ [][Next]_vars

-----------------------------------------------------------------------------

\* Values of the right sort.
TypeOK ==
  /\ cloud \in BOOLEAN /\ nrkey \in BOOLEAN /\ hkey \in BOOLEAN /\ mine \in BOOLEAN
  /\ create \in {"no", "count", "query", "put"} /\ deaf \subseteq Watches
  /\ mgr \in {"loading", "active", "stopping", "stopped"}
  /\ crash \in {"no", "nil", "closed", "cloud", "race"}
  /\ rqt \in [nr: Resolvers \union {None}, healer: Healers \union {None}]
  /\ ncin \in Resolvers \union {None} /\ ncout \in Healers \union {None}
  /\ heal \in [Healers -> {"off", "made", "live", "stopping"}]
  /\ \A h \in Healers : heal[h] = "live" => hch[h] # None
  /\ hch \in [Healers -> Healers \union {None}]
  /\ pub \in [Pubs -> [at: {"off", "get", "recv", "send"},
                       ch: Resolvers \union Healers \union {None}]]
  /\ res \in [Resolvers -> {"off", "up", "done"}]

\* Nothing is on its way: every event is handled and no goroutine is at work.
Quiet ==
  /\ Up /\ mgr = "active" /\ ~pending
  /\ todo.cloud = << >> /\ todo.healer = << >>
  /\ thr.run.at = "select" /\ thr.reload.at = "idle"

\* When all is handled, and no request failed and the ring did not move, the node
\* runs the resolver of the cloud iff the cloud is registered and the healer iff its
\* key is there and the ring gives it to this node, and no other healer; nothing of a
\* removed cloud is left in etcd (the two watches of Run, manager.go:194-263), unless
\* a createHealer that had seen the cloud put its healer after the removal.
ExactWhenQuiet ==
  Quiet /\ ~failed /\ ~churned /\ ~late =>
    /\ (rqt.nr # None) = cloud
    /\ nrkey = cloud
    /\ hkey => cloud
    /\ (rqt.healer # None) = (hkey /\ mine)
    /\ \A h \in Healers : heal[h] = "live" => h = rqt.healer

\* Only a Stop of the manager, or a ring that moved between a check and its use, can
\* make it stop a worker it has not got, or close the channel of a resolver twice
\* (stopWorker, manager.go:123-134, has no check of its own).
StopsOnce ==
  crash \in {"nil", "closed"} => mgr # "active" \/ churned

\* A healer that was started after its resolver gets the names: some goroutine waits
\* for the resolver, or is handing a name to this healer, for as long as both run,
\* however often others were started and stopped (pubSubNodes, manager.go:269-281).
HealerIsFed ==
  LET h == rqt.healer
      r == rqt.nr
  IN Up /\ mgr = "active" /\ h # None /\ r # None /\ h \notin early /\ ~churned
        /\ heal[h] = "live" /\ res[r] = "up" =>
         /\ ncin = r /\ ncout = hch[h]
         /\ \E p \in Pubs : \/ pub[p].at = "get"
                            \/ pub[p] = [at |-> "recv", ch |-> r]
                            \/ pub[p] = [at |-> "send", ch |-> hch[h]]
=============================================================================
