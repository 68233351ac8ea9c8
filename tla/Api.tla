-------------------------------- MODULE Api ---------------------------------
(***************************************************************************)
(* The requests that write clouds, scalers, schedulers and healers (api/   *)
(* cloud.go, scaler.go, scheduler.go, healer.go, bulk_worker.go) of one    *)
(* provider, and the store of clouds of one node                           *)
(* (pkg/cloud/store/openstack/store.go) with its lock.                     *)
(*                                                                         *)
(* The handlers run concurrently, here or on another node, whose store is  *)
(* not modelled; every request to etcd is a step.  A request for one worker *)
(* is a list of one.  A scaler, scheduler or healer that acts asks the     *)
(* store as a handler does.  net/http recovers a handler that panics: its  *)
(* client gets no answer and its mutexes are released where deferred.      *)
(***************************************************************************)
EXTENDS Integers, Sequences, FiniteSets

CONSTANTS
  Handlers,     \* bound: goroutines that serve a request at a time
  Ids,          \* the IDs of workers, which hash what the worker is
  Short,        \* a prefix of all of them, which a path may name as well
  Lists,        \* bound: the lists of workers that requests give
  MaxRequests,  \* bound: requests
  MaxFails      \* bound: requests to etcd that fail

Types == {"scaler", "scheduler", "healer"}
Workers == [type : Types \union {"unknown"}, id : Ids \union {Short}, valid : BOOLEAN]

ASSUME ApiAssumption ==
  /\ Short \notin Ids /\ Ids # {} /\ Lists \subseteq Seq(Workers)
  /\ MaxRequests \in Nat /\ MaxFails \in Nat

VARIABLES
  cloud,    \* etcd: the cloud's key
  work,     \* etcd: the keys of the workers, as type and ID
  cached,   \* the store has the cloud
  readers,  \* the handlers that hold the store's lock for reading
  writers,  \* the handlers that wait for it for writing: no reader gets past them
  req,      \* the request each handler serves, and where it is
  requests, fails,
  raced     \* observer: a cloud was deleted while a scaler of it was under way, or
            \* its unregistration failed half-way

store == <<cached, readers, writers>>
etcd == <<cloud, work>>
counts == <<requests, fails>>
vars == <<etcd, store, req, counts, raced>>

Worker(t, i, v) == [type |-> t, id |-> i, valid |-> v]
Unknown == Worker("unknown", Short, TRUE)
Keys == Types \X (Ids \union {Short})

\* Fault: the ID that the request gives.
HealerIdGiven(w) == w.id

\* The ID of a healer is the hash of its cloud's.
HealerId(w) == CHOOSE i \in Ids : TRUE
Key(w) == <<w.type, IF w.type = "healer" THEN HealerId(w) ELSE w.id>>

\* Every delete is one WithPrefix.
Matches(k) == {l \in Keys : l[1] = k[1] /\ (l[2] = k[2] \/ k[2] = Short)}
OfType(t) == {k \in work : k[1] = t}

\* The requests of these kinds before they arrive.  A handler adds where it is, the
\* worker it is at, the first answer it gave and the keys it has put.
RequestsOf(kinds, bulk, force, local, items) ==
  [kind : kinds, bulk : bulk, force : force, local : local, items : items,
   at : {"idle"}, k : {1}, answer : {"none"}, wrote : {{}}]

\* A request that is not bulk gives one worker, of a type the route names; the ID of
\* a worker that is created is always whole.
Fits(q) ==
  /\ q.bulk \/ (Len(q.items) = 1 /\ q.items[1].type # "unknown")
  /\ q.force => q.kind = "create"
  /\ \A n \in DOMAIN q.items :
       /\ q.kind = "create" /\ q.items[n].type # "unknown" => q.items[n].id \in Ids
       /\ q.items[n].type = "healer" => q.kind = "delete" /\ ~q.bulk

Requests ==
  {q \in RequestsOf({"create", "update", "delete"}, BOOLEAN, BOOLEAN, {TRUE}, Lists) : Fits(q)}
  \union RequestsOf({"healer"}, {FALSE}, {FALSE}, BOOLEAN,
                    {<<Worker("healer", i, TRUE)>> : i \in Ids})
  \union RequestsOf({"register"}, {FALSE}, BOOLEAN, BOOLEAN, {<< >>})
  \union RequestsOf({"unregister"}, {FALSE}, {FALSE}, BOOLEAN, {<< >>})
  \union RequestsOf({"act"}, {FALSE}, {FALSE}, {TRUE}, {<< >>})

\* Where the handler of a request begins.
Begin(q) ==
  CASE q.kind \in {"create", "healer"} \/ q.bulk -> "cloud"
    [] q.kind \in {"update", "delete"} -> "item"
    [] q.kind = "act" -> "lock"
    [] OTHER -> q.kind

Init ==
  /\ cloud \in BOOLEAN
  /\ work \in SUBSET {Key(w) : w \in {w \in UNION {{l[n] : n \in DOMAIN l} : l \in Lists} :
                                    w.type \in Types /\ w.id \in Ids}}
  /\ ~cloud => \A k \in work : k[1] = "scheduler"
  /\ cached = cloud /\ readers = {} /\ writers = {}
  /\ req \in [Handlers -> RequestsOf({"none"}, {FALSE}, {FALSE}, {FALSE}, {<< >>})]
  /\ requests = 0 /\ fails = 0 /\ raced = FALSE

At(h, l) == req[h].at = l
Goes(h, l) == req' = [req EXCEPT ![h].at = l]
Item(h) == req[h].items[req[h].k]
\* The first answer is the one the client sees.
Answer(h, a) == IF req[h].answer = "none" THEN a ELSE req[h].answer
Ends(h, a) == req' = [req EXCEPT ![h].at = "done", ![h].answer = Answer(h, a)]
NextItem(h) == req' = [req EXCEPT ![h].at = "item", ![h].k = @ + 1]

-----------------------------------------------------------------------------
Arrive(h, q) ==
  /\ req[h].at \in {"idle", "done"} /\ requests < MaxRequests
  /\ requests' = requests + 1
  /\ req' = [req EXCEPT ![h] = [q EXCEPT !.at = Begin(q)]]
  /\ UNCHANGED <<etcd, store, fails, raced>>

\* The provider must be known; a healer with an action of Mistral needs its cloud.
CheckCloud(h) ==
  /\ At(h, "cloud")
  /\ IF ~cloud THEN Ends(h, "error")
     ELSE \/ Goes(h, "item")
          \/ req[h].kind = "healer" /\ req[h].local /\ Goes(h, "lock")
  /\ UNCHANGED <<etcd, store, counts, raced>>

\* The loop over the workers: a type it does not know is answered and skipped, a
\* worker that is not valid ends the request; an update validates after its delete.
TakeItem(h) ==
  /\ At(h, "item")
  /\ CASE req[h].k > Len(req[h].items) -> Ends(h, "ok")
       [] OTHER ->
            CASE Item(h).type = "unknown" ->
                   req' = [req EXCEPT ![h].k = @ + 1, ![h].answer = Answer(h, "error")]
              [] req[h].kind \in {"update", "delete"} /\ Item(h).type # "unknown" -> Goes(h, "remove")
              [] OTHER -> IF Item(h).valid THEN Goes(h, "exists") ELSE Ends(h, "error")
  /\ UNCHANGED <<etcd, store, counts, raced>>

\* Only scalers and healers have a query to try at the backend.
Prepare(h) == Goes(h, IF Item(h).type = "scheduler" THEN "put" ELSE "backend")

\* A cloud has one healer whatever its ID, and there is no force for it.
Taken(h) ==
  IF req[h].kind = "healer" THEN OfType("healer") # {}
    ELSE Key(Item(h)) \in work /\ ~req[h].force

Exists(h) ==
  /\ At(h, "exists")
  /\ IF Taken(h) THEN Ends(h, "error") ELSE Prepare(h)
  /\ UNCHANGED <<etcd, store, counts, raced>>

Remove(h) ==
  /\ At(h, "remove")
  /\ work' = work \ Matches(Key(Item(h)))
  /\ CASE req[h].kind = "delete" -> NextItem(h)
       [] req[h].kind = "update" /\ Item(h).valid -> Prepare(h)
       [] OTHER -> Ends(h, "error")
  /\ UNCHANGED <<cloud, store, counts, raced>>

\* GetBackend takes the first key of the answer, and QueryInstant a backend that is
\* nil when it cannot be reached: both panic.  A query may be wrong.
Backend(h) ==
  /\ At(h, "backend")
  /\ \/ Ends(h, "panic")
     \/ cloud /\ (Goes(h, "put") \/ Ends(h, "error"))
  /\ UNCHANGED <<etcd, store, counts, raced>>

Put(h) ==
  /\ At(h, "put")
  /\ work' = work \union {Key(Item(h))}
  /\ req' = [req EXCEPT ![h].at = "item", ![h].k = @ + 1,
                        ![h].wrote = @ \union {Key(Item(h))}]
  /\ UNCHANGED <<cloud, store, counts, raced>>

\* Fault: a worker that cannot be put is left out.
FailGoesOn(h) ==
  /\ fails < MaxFails
  /\ fails' = fails + 1
  /\ At(h, "put") /\ NextItem(h)
  /\ UNCHANGED <<etcd, store, requests, raced>>

\* Gets whose error is not looked at leave a nil answer behind.
Fail(h) ==
  /\ fails < MaxFails
  /\ fails' = fails + 1
  /\ \/ req[h].at \in {"cloud", "exists", "register"} /\ Ends(h, "panic")
     \/ req[h].at \in {"remove", "put", "regput", "unregister", "unscale"} /\ Ends(h, "error")
  /\ raced' = (raced \/ At(h, "unscale"))
  /\ UNCHANGED <<etcd, store, requests>>

-----------------------------------------------------------------------------
(* Clouds.                                                                 *)

\* The cloud may be known, and its backend must be reached.
Register(h) ==
  /\ At(h, "register")
  /\ IF cloud /\ ~req[h].force THEN Ends(h, "error")
     ELSE Goes(h, "regput") \/ Ends(h, "error")
  /\ UNCHANGED <<etcd, store, counts, raced>>

PutCloud(h) ==
  /\ At(h, "regput")
  /\ cloud' = TRUE
  /\ IF req[h].local THEN Goes(h, "set") /\ writers' = writers \union {h}
       ELSE Ends(h, "ok") /\ UNCHANGED writers
  /\ UNCHANGED <<work, cached, readers, counts, raced>>

\* A request that is past its look at the cloud may yet write a scaler.
UnderWay == {h \in Handlers : req[h].at \in {"item", "exists", "remove", "backend", "put"}}

Unregister(h) ==
  /\ At(h, "unregister")
  /\ cloud' = FALSE
  /\ IF req[h].local THEN Goes(h, "drop") /\ writers' = writers \union {h}
       ELSE Goes(h, "unscale") /\ UNCHANGED writers
  /\ raced' = (raced \/ UnderWay # {})
  /\ UNCHANGED <<work, cached, readers, counts>>

\* Fault: the scalers stay.
UnscaleNothing(h) ==
  /\ At(h, "unscale")
  /\ Ends(h, "ok")
  /\ UNCHANGED <<etcd, store, counts, raced>>

\* The scalers of the cloud go with it, its schedulers stay; its healer is deleted
\* by the nodes that watch clouds.
Unscale(h) ==
  /\ At(h, "unscale")
  /\ work' = work \ OfType("scaler")
  /\ Ends(h, "ok")
  /\ UNCHANGED <<cloud, store, counts, raced>>

-----------------------------------------------------------------------------
(* The store.  Get holds its lock for reading, also while it calls Set.    *)

\* RLock.
GetLock(h) ==
  /\ At(h, "lock") /\ writers = {}
  /\ readers' = readers \union {h}
  /\ Goes(h, "get")
  /\ UNCHANGED <<etcd, cached, writers, counts, raced>>

Found(h) == IF req[h].kind = "act" THEN Ends(h, "ok") ELSE Goes(h, "item")

Get(h) ==
  /\ At(h, "get")
  /\ \/ /\ cached
        /\ readers' = readers \ {h} /\ Found(h) /\ UNCHANGED writers
     \/ /\ ~cached /\ cloud
        /\ writers' = writers \union {h} /\ Goes(h, "set") /\ UNCHANGED readers
     \/ /\ ~cached /\ (cloud => fails < MaxFails)
        /\ readers' = readers \ {h} /\ Ends(h, "error") /\ UNCHANGED writers
  /\ fails' = IF ~cached /\ cloud /\ req'[h].at = "done" THEN fails + 1 ELSE fails
  /\ UNCHANGED <<etcd, cached, requests, raced>>

\* Fault: the lock is not given back.
LockKept(h) ==
  /\ h \in writers /\ readers = {}
  /\ cached' = At(h, "set")
  /\ IF At(h, "set") THEN Ends(h, "ok") ELSE Goes(h, "unscale")
  /\ UNCHANGED <<etcd, readers, writers, counts, raced>>

\* Lock, of Set and of Delete, waits for all readers.
Lock(h) ==
  /\ h \in writers /\ readers = {}
  /\ writers' = writers \ {h}
  /\ cached' = At(h, "set")
  /\ IF At(h, "set") THEN Ends(h, "ok") ELSE Goes(h, "unscale")
  /\ UNCHANGED <<etcd, readers, counts, raced>>

-----------------------------------------------------------------------------
(* The handlers, each with the steps it may be at.                         *)

Serves(h, kind) == ~At(h, "idle") /\ req[h].kind = kind

CreatesWorkers(h) ==
  Serves(h, "create") /\ (CheckCloud(h) \/ TakeItem(h) \/ Exists(h) \/ Backend(h) \/ Put(h))

UpdatesWorkers(h) ==
  Serves(h, "update") /\ (CheckCloud(h) \/ TakeItem(h) \/ Remove(h) \/ Backend(h) \/ Put(h))

DeletesWorkers(h) == Serves(h, "delete") /\ (CheckCloud(h) \/ TakeItem(h) \/ Remove(h))

CreatesHealer(h) ==
  Serves(h, "healer") /\ (CheckCloud(h) \/ TakeItem(h) \/ Exists(h) \/ Backend(h) \/ Put(h))

RegistersCloud(h) == Serves(h, "register") /\ (Register(h) \/ PutCloud(h))

UnregistersCloud(h) == Serves(h, "unregister") /\ (Unregister(h) \/ Unscale(h))

AsksStore(h) == GetLock(h) \/ Get(h) \/ Lock(h)

Serve(h) ==
  \/ CreatesWorkers(h) \/ UpdatesWorkers(h) \/ DeletesWorkers(h) \/ CreatesHealer(h)
  \/ RegistersCloud(h) \/ UnregistersCloud(h) \/ AsksStore(h)

Next ==
  \E h \in Handlers :
    Serve(h) \/ Fail(h) \/ \E q \in Requests : Arrive(h, q)

\* Go runs the handlers.
Spec == Init /\ [][Next]_vars /\ \A h \in Handlers : WF_vars(Serve(h))

-----------------------------------------------------------------------------
(* Properties.                                                             *)

Places == {"idle", "cloud", "item", "exists", "remove", "backend", "put", "register", "regput",
           "set", "unregister", "drop", "unscale", "lock", "get", "done"}

Kinds == {"none", "create", "update", "delete", "healer", "register", "unregister", "act"}

Serving == [kind : Kinds, bulk : BOOLEAN, force : BOOLEAN, local : BOOLEAN,
            items : Seq(Workers), at : Places, k : Nat,
            answer : {"none", "ok", "error", "panic"}, wrote : SUBSET Keys]

\* Types; a request is never past the end of its list, every request that is over was
\* answered, and the lock's holders are those that stand where the store holds it.
TypeOK ==
  /\ {cloud, cached, raced} \subseteq BOOLEAN
  /\ work \subseteq Keys
  /\ readers \subseteq Handlers /\ writers \subseteq Handlers
  /\ req \in [Handlers -> Serving]
  /\ \A h \in Handlers :
       /\ req[h].k \in 1 .. Len(req[h].items) + 1
       /\ At(h, "done") => req[h].answer # "none"
       /\ At(h, "get") => h \in readers
       /\ req[h].at \in {"set", "drop"} <=> h \in writers
  /\ requests \in 0 .. MaxRequests /\ fails \in 0 .. MaxFails

\* The error message of createHealer: "there is only 1 healer can be existed for 1
\* cloud provider", although two requests may look before either puts.
OneHealer == Cardinality(OfType("healer")) <= 1

\* A cloud that is not registered has no scalers, which could act for no one, once
\* its unregistration is over, unless one was written under way.
NoOrphanScalers ==
  /\ ~cloud /\ ~raced
  /\ ~ \E h \in Handlers : req[h].at \in {"drop", "unscale"}
  => OfType("scaler") = {}

\* A create or update that is answered with success has written every worker it
\* gave, also where earlier ones of the list were deleted and an error may follow.
AcceptedIsStored ==
  \A h \in Handlers :
    At(h, "done") /\ req[h].answer = "ok" =>
      \A n \in DOMAIN req[h].items :
        req[h].kind # "delete" => Key(req[h].items[n]) \in req[h].wrote

\* The comment in Store.Get, "Try to get Cloud provider info from Etcd": who asks
\* the store gets an answer.
GetReturns == \A h \in Handlers : At(h, "lock") ~> At(h, "done") \/ At(h, "item")
=============================================================================
