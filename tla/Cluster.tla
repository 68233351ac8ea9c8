------------------------------- MODULE Cluster -------------------------------
(***************************************************************************)
(* Cluster membership of pkg/cluster/cluster.go over etcd.  Every node     *)
(* reads the members, puts its own key under a lease, and from then on     *)
(* follows the watch events of the prefix into its own hash ring; every    *)
(* batch of events is handed to the reload goroutine of cmd/faythe/main.go.*)
(*                                                                         *)
(* etcd is a linear history of put and delete events, each with the        *)
(* members it leaves behind.  A lease that is no longer renewed deletes    *)
(* its key.  A process may crash at any point and start again.             *)
(***************************************************************************)
EXTENDS Naturals, Sequences

CONSTANTS
  Nodes,
  Keys,      \* names of workers, hashed onto the ring
  Owner,     \* Owner[S][k]: the member of ring S the key k is hashed to
  MaxJoins   \* bound: number of joins in the history

ASSUME OwnerAssumption ==
  Owner \in [(SUBSET Nodes) \ {{}} -> [Keys -> Nodes]]
  /\ \A S \in (SUBSET Nodes) \ {{}}, k \in Keys : Owner[S][k] \in S

VARIABLES
  hist,      \* etcd: the events of the prefix, oldest first
  joins,     \* etcd: how many of them are puts
  kept,      \* the lease of the node's key is being renewed
  pc,        \* the stage every process is in
  ring,      \* Cluster.members and Cluster.ring
  applied,   \* history the node's ring has followed
  batch,     \* history the watch response being handled reaches
  phase,     \* what Cluster.Run is doing
  watching,  \* the watch is open
  reloading, \* the reload goroutine is at work
  missed     \* observer: an event other than the node's own join fell between
             \* its first read and the opening of its watch

etcdVars == <<hist, joins>>
clusterVars == <<hist, joins, kept, pc, ring, applied, batch, phase, watching,
                 reloading, missed>>

Event == [type: {"put", "delete"}, node: Nodes, members: SUBSET Nodes]

\* The members after the first r events.
MembersAt(r) == IF r = 0 THEN {} ELSE hist[r].members

Registered == MembersAt(Len(hist))

\* Cluster.members of a process that is past New.
Up(n) == pc[n] \in {"joined", "running", "leaving"}

\* The workers a node believes it runs.
LocalIsWorker(n, k) == ring[n] # {} /\ Owner[ring[n]][k] = n

ClusterInit ==
  /\ hist = << >> /\ joins = 0
  /\ kept = [n \in Nodes |-> FALSE]
  /\ pc = [n \in Nodes |-> "down"]
  /\ ring = [n \in Nodes |-> {}]
  /\ applied = [n \in Nodes |-> 0]
  /\ batch = [n \in Nodes |-> 0]
  /\ phase = [n \in Nodes |-> "select"]
  /\ watching = [n \in Nodes |-> FALSE]
  /\ reloading = [n \in Nodes |-> FALSE]
  /\ missed = [n \in Nodes |-> FALSE]

-----------------------------------------------------------------------------
(* etcd.                                                                   *)

\* The nodes of S that have read the members and do not watch yet miss an event.
Miss(S) ==
  missed' = [m \in Nodes |-> missed[m] \/ (m \in S /\ pc[m] \in {"loaded", "joined"})]

AddMember(n) ==
  /\ hist' = Append(hist, [type |-> "put", node |-> n, members |-> Registered \union {n}])
  /\ joins' = joins + 1
  /\ Miss(Nodes \ {n})

\* Deleting an absent key makes no event.
RemoveMember(n) ==
  IF n \in Registered
  THEN /\ hist' = Append(hist, [type |-> "delete", node |-> n, members |-> Registered \ {n}])
       /\ UNCHANGED joins
       /\ Miss(Nodes)
  ELSE UNCHANGED <<hist, joins, missed>>

\* The lease runs out and takes its key along: the process is gone, or the
\* keep-alive stream broke.
LeaseExpires(n) ==
  /\ ~kept[n] /\ n \in Registered
  /\ RemoveMember(n)
  /\ UNCHANGED <<kept, pc, ring, applied, batch, phase, watching, reloading>>

-----------------------------------------------------------------------------
(* New and join.                                                           *)

\* DoGet of the prefix.
Load(n) ==
  /\ pc[n] = "down"
  /\ joins < MaxJoins
  /\ pc' = [pc EXCEPT ![n] = "loaded"]
  /\ ring' = [ring EXCEPT ![n] = Registered]
  /\ missed' = [missed EXCEPT ![n] = FALSE]
  /\ UNCHANGED <<etcdVars, kept, applied, batch, phase, watching, reloading>>

\* Fault: a node that is still a member joins again.
KnownUnchecked(n) == FALSE

\* The local member is among the members that New read.
Known(n) == n \in ring[n]

\* Fault: the local member is put in etcd and left off the ring.
JoinOffRing(n) ==
  /\ pc[n] = "loaded" /\ ~Known(n)
  /\ joins < MaxJoins
  /\ AddMember(n)
  /\ kept' = [kept EXCEPT ![n] = TRUE]
  /\ pc' = [pc EXCEPT ![n] = "joined"]
  /\ UNCHANGED <<ring, applied, batch, phase, watching, reloading>>

\* DoGrant, DoPut with the lease and DoKeepAlive; then the ring is built.
Join(n) ==
  /\ pc[n] = "loaded" /\ ~Known(n)
  /\ joins < MaxJoins
  /\ AddMember(n)
  /\ kept' = [kept EXCEPT ![n] = TRUE]
  /\ pc' = [pc EXCEPT ![n] = "joined"]
  /\ ring' = [ring EXCEPT ![n] = @ \union {n}]
  /\ UNCHANGED <<applied, batch, phase, watching, reloading>>

\* join returns an error and the process exits: the node is still a member, or
\* a request failed.
JoinFails(n) ==
  /\ pc[n] = "loaded"
  /\ pc' = [pc EXCEPT ![n] = "down"]
  /\ UNCHANGED <<etcdVars, kept, ring, applied, batch, phase, watching, reloading, missed>>

\* The put took effect but the process saw an error and exits: the key stays
\* until its lease, never renewed, runs out.
JoinHalfFails(n) ==
  /\ pc[n] = "loaded" /\ ~Known(n)
  /\ joins < MaxJoins
  /\ AddMember(n)
  /\ pc' = [pc EXCEPT ![n] = "down"]
  /\ UNCHANGED <<kept, ring, applied, batch, phase, watching, reloading>>

-----------------------------------------------------------------------------
(* Run.                                                                    *)

\* Fault: the watch skips one event.
OpenWatchLate(n) ==
  /\ pc[n] = "joined"
  /\ pc' = [pc EXCEPT ![n] = "running"]
  /\ applied' = [applied EXCEPT ![n] = Len(hist) + 1]
  /\ batch' = [batch EXCEPT ![n] = Len(hist) + 1]
  /\ phase' = [phase EXCEPT ![n] = "select"]
  /\ watching' = [watching EXCEPT ![n] = TRUE]
  /\ UNCHANGED <<etcdVars, kept, ring, reloading, missed>>

\* The watch is opened at the current revision, not at the one New read.
OpenWatch(n) ==
  /\ pc[n] = "joined"
  /\ pc' = [pc EXCEPT ![n] = "running"]
  /\ applied' = [applied EXCEPT ![n] = Len(hist)]
  /\ batch' = [batch EXCEPT ![n] = Len(hist)]
  /\ phase' = [phase EXCEPT ![n] = "select"]
  /\ watching' = [watching EXCEPT ![n] = TRUE]
  /\ UNCHANGED <<etcdVars, kept, ring, reloading, missed>>

\* One watch response with one or more events.
Receive(n) ==
  /\ pc[n] = "running" /\ watching[n] /\ phase[n] = "select"
  /\ \E r \in applied[n] + 1 .. Len(hist) : batch' = [batch EXCEPT ![n] = r]
  /\ phase' = [phase EXCEPT ![n] = "apply"]
  /\ UNCHANGED <<etcdVars, kept, pc, ring, applied, watching, reloading, missed>>

\* Fault: DELETE events leave the ring alone.
RingAfterKeeping(S, e) == IF e.type = "put" THEN S \union {e.node} ELSE S

RingAfter(S, e) == IF e.type = "put" THEN S \union {e.node} ELSE S \ {e.node}

\* The next event of the response goes into the ring.
ApplyEvent(n) ==
  /\ pc[n] \in {"running", "leaving"} /\ phase[n] = "apply"
  /\ ring' = [ring EXCEPT ![n] = RingAfter(@, hist[applied[n] + 1])]
  /\ applied' = [applied EXCEPT ![n] = @ + 1]
  /\ phase' = [phase EXCEPT ![n] = IF applied[n] + 1 = batch[n] THEN "send" ELSE @]
  /\ UNCHANGED <<etcdVars, kept, pc, batch, watching, reloading, missed>>

\* rc <- struct{}{}: Run blocks until the reload goroutine takes it.
SendReload(n) ==
  /\ pc[n] = "running" /\ phase[n] = "send" /\ ~reloading[n]
  /\ phase' = [phase EXCEPT ![n] = "select"]
  /\ reloading' = [reloading EXCEPT ![n] = TRUE]
  /\ UNCHANGED <<etcdVars, kept, pc, ring, applied, batch, watching, missed>>

\* The managers' Reload calls have returned.  They need not: a scaler's Stop may wait
\* for ever, and so may a manager for the lock of its registry.
FinishReload(n) ==
  /\ pc[n] = "running" /\ reloading[n]
  /\ reloading' = [reloading EXCEPT ![n] = FALSE]
  /\ UNCHANGED <<etcdVars, kept, pc, ring, applied, batch, phase, watching, missed>>

\* The watch ends with an error: Run reports it and returns.
WatchFails(n) ==
  /\ pc[n] = "running" /\ watching[n] /\ phase[n] = "select"
  /\ watching' = [watching EXCEPT ![n] = FALSE]
  /\ UNCHANGED <<etcdVars, kept, pc, ring, applied, batch, phase, reloading, missed>>

\* The keep-alive channel is closed and the error reported.
KeepAliveFails(n) ==
  /\ Up(n) /\ kept[n]
  /\ kept' = [kept EXCEPT ![n] = FALSE]
  /\ UNCHANGED <<etcdVars, pc, ring, applied, batch, phase, watching, reloading, missed>>

-----------------------------------------------------------------------------
(* Stop, leave and crash.                                                  *)

Stop(n) ==
  /\ pc[n] = "running"
  /\ pc' = [pc EXCEPT ![n] = "leaving"]
  /\ watching' = [watching EXCEPT ![n] = FALSE]
  /\ UNCHANGED <<etcdVars, kept, ring, applied, batch, phase, reloading, missed>>

\* What a process leaves behind: nothing but its key.
Gone(n) ==
  /\ pc' = [pc EXCEPT ![n] = "down"]
  /\ kept' = [kept EXCEPT ![n] = FALSE]
  /\ ring' = [ring EXCEPT ![n] = {}]
  /\ applied' = [applied EXCEPT ![n] = 0]
  /\ batch' = [batch EXCEPT ![n] = 0]
  /\ phase' = [phase EXCEPT ![n] = "select"]
  /\ watching' = [watching EXCEPT ![n] = FALSE]
  /\ reloading' = [reloading EXCEPT ![n] = FALSE]

\* DoDelete of the own key; the process ends.
Leave(n) ==
  /\ pc[n] = "leaving"
  /\ RemoveMember(n)
  /\ Gone(n)

\* The process ends without a delete: a crash, or DoDelete failed.
Crash(n) ==
  /\ pc[n] # "down"
  /\ Gone(n)
  /\ UNCHANGED <<etcdVars, missed>>

-----------------------------------------------------------------------------
RunStep(n) == Receive(n) \/ ApplyEvent(n) \/ SendReload(n)

ClusterStep(n) ==
  \/ LeaseExpires(n)
  \/ Load(n) \/ Join(n) \/ JoinFails(n) \/ JoinHalfFails(n)
  \/ OpenWatch(n) \/ RunStep(n)
  \/ WatchFails(n) \/ KeepAliveFails(n)
  \/ Stop(n) \/ Leave(n) \/ Crash(n)

Next == \E n \in Nodes : ClusterStep(n) \/ FinishReload(n)

Spec == ClusterInit /\ [][Next]_clusterVars

(* etcd expires leases and delivers events, and Run goes on.  Nothing makes *)
(* a reload end, nor a node start, stop or fail.                           *)
Fairness ==
  \A n \in Nodes : WF_clusterVars(LeaseExpires(n)) /\ WF_clusterVars(RunStep(n))

FairSpec == Spec /\ Fairness

-----------------------------------------------------------------------------
(* Properties.                                                             *)

Types ==
  /\ hist \in Seq(Event) /\ joins \in Nat
  /\ kept \in [Nodes -> BOOLEAN]
  /\ pc \in [Nodes -> {"down", "loaded", "joined", "running", "leaving"}]
  /\ ring \in [Nodes -> SUBSET Nodes]
  /\ applied \in [Nodes -> Nat] /\ batch \in [Nodes -> Nat]
  /\ phase \in [Nodes -> {"select", "apply", "send"}]
  /\ watching \in [Nodes -> BOOLEAN] /\ reloading \in [Nodes -> BOOLEAN]
  /\ missed \in [Nodes -> BOOLEAN]

\* Every variable has its type, and no node is ahead of etcd: it has applied no
\* more than the response it handles, which holds no more than the history.
TypeOK == Types /\ \A n \in Nodes : applied[n] <= batch[n] /\ batch[n] <= Len(hist)

\* The ring a node has built from New, its own join and the events applied so
\* far is exactly the membership etcd had at that point of its history, unless
\* an event fell between New's read and Run's watch.
RingTracksMembership ==
  \A n \in Nodes :
    pc[n] \in {"running", "leaving"} /\ ~missed[n] => ring[n] = MembersAt(applied[n])

\* A node with nothing left to apply.
Settled(n) ==
  pc[n] = "running" /\ watching[n] /\ phase[n] = "select" /\ applied[n] = Len(hist)

\* When every member runs, has applied all events and missed none at its start,
\* every worker has exactly one node that takes it.
OneWorkerPerKey ==
  (Registered # {} /\ \A n \in Registered : Settled(n) /\ ~missed[n]) =>
    \A k \in Keys : \E n \in Registered :
      \A m \in Registered : LocalIsWorker(m, k) <=> m = n

\* Nobody joins while the key of its previous life is still there.
JoinsOnlyAfresh ==
  \A i \in 1 .. Len(hist) : hist[i].type = "put" => hist[i].node \notin MembersAt(i - 1)

\* Run waits until the reload goroutine is done with the reload before.
Blocked(n) == phase[n] = "send" /\ reloading[n]

\* A node that is down is eventually off the ring of every running node that
\* keeps watching, missed nothing at its start and has no reload that goes on for
\* ever while Run waits to hand over the next one (cluster.go:237).
DownNodesForgotten ==
  \A m \in Nodes : []<>~Blocked(m) =>
    \A n \in Nodes \ {m} :
      (pc[n] = "down" /\ n \in ring[m] /\ pc[m] = "running")
        ~> (n \notin ring[m] \/ pc[n] # "down" \/ pc[m] # "running" \/ ~watching[m] \/ missed[m])
=============================================================================
