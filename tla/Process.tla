------------------------------ MODULE Process -------------------------------
(***************************************************************************)
(* The start and the end of the process of a node (cmd/faythe/main.go) and *)
(* the requests to etcd it makes meanwhile (pkg/common/etcd.go): their     *)
(* retries, and the way an error takes to stop the process: ErrCh, the     *)
(* goroutine Etcd.Run, stopc, the goroutine that serves reloads and stops, *)
(* SIGTERM, main.                                                          *)
(*                                                                         *)
(* A manager's work is one request here: its load, its reload, the put of  *)
(* its save, which stands for as many as there are workers.  Reload and    *)
(* save then wait: for the workers they stop, for the registry's lock.     *)
(***************************************************************************)
EXTENDS Integers, Sequences

CONSTANTS
  Askers,     \* bound: the node's other goroutines that make requests: watches,
              \* the keep-alive of the lease, workers and handlers
  Tries,      \* DefaultEtcdRetryCount
  Cap,        \* the capacity of ErrCh
  MaxFaults   \* bound: timeouts, errors and broken streams of etcd, together

ASSUME ProcessAssumption == Tries \in Nat \ {0} /\ Cap \in Nat /\ MaxFaults \in Nat
ASSUME AskersAssumption == Askers \cap {"main", "serve", "etcd", "cluster"} = {}

VARIABLES
  pc,       \* where each goroutine is, and at which of the steps of Boot or Stop
  ask,      \* the request a goroutine is at: tries that timed out, and that it failed
  errch,    \* errors in ErrCh
  faults,   \* of etcd, so far
  open,     \* etcdcli is not closed
  state,    \* of the managers and the cluster: active, stopping, stopped (for the
            \* cluster: alive, leaving, left)
  closed,   \* their stop channels
  term,     \* a SIGTERM is in main's channel
  crash,    \* a channel was closed twice
  (* Observers. *)
  failed,   \* requests that failed, up to 3
  overlap,  \* main and the reload goroutine were in stopFunc at once
  saved,    \* until then: the managers whose workers are in etcd; cls, its key deleted
  lost      \* and those whose request for it failed

etcdVars == <<ask, errch, faults, failed>>
stopVars == <<open, state, closed, term, crash, saved, lost, overlap>>
vars == <<pc, etcdVars, stopVars>>

\* Fault: the cluster is left first.
LeavesFirst == <<"cls", "fas", "fah", "fsh">>

\* The steps of main, and which of them are requests.
Boot == <<"config", "sync", "grant", "put", "keep", "admin", "fas", "fah", "fsh", "store">>
\* The steps whose error ends the process.
Needed == {"grant", "put", "keep", "admin"}
Managers == {"fas", "fah", "fsh"}
\* The order of stopFunc, and of a reload.
StopOrder == <<"fas", "fah", "cls", "fsh">>
ReloadOrder == <<"fas", "fah", "fsh">>

Goroutines == {"main", "serve", "etcd", "cluster"} \union Askers
Stoppers == {"main", "serve"}
Stopping == {"check", "close", "save", "halt", "client"}

At(g, l) == pc[g].at = l
Step(order, g) == order[pc[g].i]
Goes(g, l, i) == pc' = [pc EXCEPT ![g] = [at |-> l, i |-> i]]
Up == ~crash /\ ~At("main", "ended") /\ ~At("main", "exit")
\* The goroutines that main has started.
Started(g) ==
  At("main", "boot") => CASE g = "main" -> TRUE
                          [] g = "cluster" \/ g \in Askers -> pc["main"].i > 5
                          [] OTHER -> FALSE

NoRequest == [n |-> 0, failed |-> FALSE]

Init ==
  /\ pc = [g \in Goroutines |->
             [at |-> CASE g = "main" -> "boot" [] g = "serve" -> "select"
                       [] g = "etcd" -> "wait" [] g = "cluster" -> "watch"
                       [] OTHER -> "idle",
              i |-> 1]]
  /\ ask = [g \in Goroutines |-> NoRequest]
  /\ errch = 0 /\ faults = 0 /\ failed = 0
  /\ open = TRUE /\ term = FALSE /\ crash = FALSE
  /\ state = [m \in Managers \union {"cls"} |-> "active"]
  /\ closed = [m \in Managers \union {"cls"} |-> FALSE]
  /\ saved = {} /\ lost = {} /\ overlap = FALSE

-----------------------------------------------------------------------------
(* Requests.                                                               *)

Asking(g) ==
  \/ pc[g].at \in {"reload", "save", "ask", "report"}
  \/ At(g, "boot") /\ Step(Boot, g) \notin {"config", "sync"}

\* DoKeepAlive tries once.
LastTry(g) == (At(g, "boot") /\ Step(Boot, g) = "keep") \/ ask[g].n = Tries - 1

\* Fault: nothing buffers the error.
AnsweredUnbuffered(g) ==
  /\ Up /\ Started(g) /\ Asking(g)
  /\ \/ open /\ ~ask[g].failed /\ UNCHANGED errch
     \/ ask[g].failed /\ errch = 0 /\ Started("etcd") /\ At("etcd", "wait") /\ errch' = 1
  /\ ask' = [ask EXCEPT ![g] = NoRequest]
  /\ UNCHANGED <<faults, failed>>

\* A request that got an answer, or whose error is in ErrCh: the goroutine goes on.
Answered(g) ==
  /\ Up /\ Started(g) /\ Asking(g)
  /\ \/ open /\ ~ask[g].failed /\ UNCHANGED errch
     \/ ask[g].failed /\ errch < Cap /\ errch' = errch + 1
  /\ ask' = [ask EXCEPT ![g] = NoRequest]
  /\ UNCHANGED <<faults, failed>>

FaultOccurs ==
  /\ open => faults < MaxFaults
  /\ faults' = IF open THEN faults + 1 ELSE faults
Fails(g) ==
  /\ ask' = [ask EXCEPT ![g] = [n |-> 0, failed |-> TRUE]]
  /\ failed' = IF failed < 3 THEN failed + 1 ELSE 3

\* isRetryNeeded: after a timeout the request is made again, after Tries of them
\* and after any other error it has failed.
TryFails(g) ==
  /\ Up /\ Started(g) /\ Asking(g) /\ ~ask[g].failed
  /\ FaultOccurs
  /\ \/ Fails(g)
     \/ open /\ ~LastTry(g) /\ ask' = [ask EXCEPT ![g].n = @ + 1] /\ UNCHANGED failed
  /\ UNCHANGED <<pc, errch, stopVars>>

Ask(a) ==
  /\ Up /\ Started(a) /\ At(a, "idle")
  /\ Goes(a, "ask", 1) /\ UNCHANGED <<etcdVars, stopVars>>

AskerDone(a) ==
  /\ At(a, "ask") /\ Answered(a)
  /\ Goes(a, "idle", 1) /\ UNCHANGED stopVars

\* A watch breaks or the channel of the keep-alive is closed: the goroutine
\* reports it ...
StreamBreaks(g) ==
  /\ Up /\ Started(g) /\ pc[g].at \in {"idle", "watch"}
  /\ FaultOccurs
  /\ Fails(g) /\ Goes(g, "report", 1)
  /\ UNCHANGED <<errch, stopVars>>

\* ... and asks for nothing more: it has ended, or turns on a channel that is closed.
StreamReported(g) ==
  /\ At(g, "report") /\ Answered(g)
  /\ Goes(g, "gone", 1) /\ UNCHANGED stopVars

-----------------------------------------------------------------------------
(* Etcd.Run and Cluster.Run.                                               *)

TakeError ==
  /\ Up /\ Started("etcd") /\ At("etcd", "wait") /\ errch > 0
  /\ errch' = errch - 1
  /\ Goes("etcd", "ring", 1)
  /\ UNCHANGED <<ask, faults, failed, stopVars>>

RingChanges ==
  /\ Up /\ Started("cluster") /\ At("cluster", "watch") /\ open
  /\ Goes("cluster", "send", 1) /\ UNCHANGED <<etcdVars, stopVars>>

ClusterEnds ==
  /\ Up /\ At("cluster", "watch") /\ closed["cls"]
  /\ Goes("cluster", "gone", 1) /\ UNCHANGED <<etcdVars, stopVars>>

-----------------------------------------------------------------------------
(* main, up to the server.                                                 *)

\* config.Set, the fernet key and NewEtcd: no error of theirs goes to ErrCh.
BootChecks ==
  /\ Up /\ At("main", "boot") /\ Step(Boot, "main") \in {"config", "sync"}
  /\ \/ Goes("main", "boot", pc["main"].i + 1)
     \/ Goes("main", "exit", 1)
  /\ UNCHANGED <<etcdVars, stopVars>>

\* join, api.New, the loads of the managers and of the store; then the goroutines
\* of etcd, of the reloads and of the server.
BootRequest ==
  LET i == pc["main"].i IN
  /\ At("main", "boot") /\ Answered("main")
  /\ CASE ask["main"].failed /\ Boot[i] \in Needed -> Goes("main", "exit", 1)
       [] i = Len(Boot) -> Goes("main", "serving", 1)
       [] OTHER -> Goes("main", "boot", i + 1)
  /\ UNCHANGED stopVars

-----------------------------------------------------------------------------
(* The end of main, and the goroutine of reloads and stops.                *)

\* Before signal.Notify a SIGTERM ends the process where it is.
Term ==
  /\ Up /\ ~term
  /\ \/ At("main", "boot") /\ Goes("main", "exit", 1) /\ UNCHANGED term
     \/ ~At("main", "boot") /\ term' = TRUE /\ UNCHANGED pc
  /\ UNCHANGED <<etcdVars, open, state, closed, crash, saved, lost, overlap>>

EntersStop(g) ==
  /\ overlap' = (overlap \/ \E h \in Stoppers \ {g} : pc[h].at \in Stopping)
  /\ saved' = (IF overlap' THEN {} ELSE saved) /\ lost' = (IF overlap' THEN {} ELSE lost)

\* A signal, or the server has stopped to listen: the deferred stopFunc runs.
MainReturns ==
  /\ Up /\ At("main", "serving")
  /\ Goes("main", "check", 1) /\ EntersStop("main")
  /\ UNCHANGED <<etcdVars, open, state, closed, term, crash>>

TakeReload ==
  /\ Up /\ Started("serve") /\ At("serve", "select") /\ At("cluster", "send")
  /\ pc' = [pc EXCEPT !["serve"] = [at |-> "reload", i |-> 1],
                      !["cluster"] = [at |-> "watch", i |-> 1]]
  /\ UNCHANGED <<etcdVars, stopVars>>

\* A manager's rebalance makes its requests ...
Reload ==
  /\ At("serve", "reload") /\ Answered("serve")
  /\ Goes("serve", "rest", pc["serve"].i)
  /\ UNCHANGED stopVars

\* ... and returns once the workers it gave away have ended and it had the
\* registry's lock, which may be never.
ReloadReturns ==
  /\ Up /\ At("serve", "rest")
  /\ IF pc["serve"].i = Len(ReloadOrder) THEN Goes("serve", "select", 1)
       ELSE Goes("serve", "reload", pc["serve"].i + 1)
  /\ UNCHANGED <<etcdVars, stopVars>>

TakeStop ==
  /\ Up /\ Started("serve") /\ At("serve", "select") /\ At("etcd", "ring")
  /\ pc' = [pc EXCEPT !["serve"] = [at |-> "check", i |-> 1],
                      !["etcd"] = [at |-> "wait", i |-> 1]]
  /\ EntersStop("serve")
  /\ UNCHANGED <<etcdVars, open, state, closed, term, crash>>

\* Fault: no guard.
CheckNothing(g) ==
  LET i == pc[g].i IN
  /\ Up /\ At(g, "check")
  /\ IF i > Len(StopOrder) THEN Goes(g, "client", 1) ELSE Goes(g, "close", i)
  /\ UNCHANGED <<etcdVars, stopVars>>

\* stopFunc: the guard of a Stop ...
Check(g) ==
  LET i == pc[g].i IN
  /\ Up /\ At(g, "check")
  /\ CASE i > Len(StopOrder) -> Goes(g, "client", 1)
       [] i <= Len(StopOrder) /\ state[StopOrder[i]] # "active" -> Goes(g, "check", i + 1)
       [] OTHER -> Goes(g, "close", i)
  /\ UNCHANGED <<etcdVars, stopVars>>

\* Fault: the state is not set.
CloseOnly(g) ==
  LET m == Step(StopOrder, g) IN
  /\ Up /\ At(g, "close")
  /\ closed' = [closed EXCEPT ![m] = TRUE]
  /\ Goes(g, "save", pc[g].i)
  /\ UNCHANGED <<etcdVars, open, state, term, crash, saved, lost, overlap>>

\* ... its state and its stop channel ...
Close(g) ==
  LET m == Step(StopOrder, g) IN
  /\ Up /\ At(g, "close")
  /\ IF closed[m]
     THEN crash' = TRUE /\ UNCHANGED <<pc, state, closed>>
     ELSE /\ state' = [state EXCEPT ![m] = "stopping"]
          /\ closed' = [closed EXCEPT ![m] = TRUE]
          /\ Goes(g, "save", pc[g].i) /\ UNCHANGED crash
  /\ UNCHANGED <<etcdVars, open, term, saved, lost, overlap>>

\* ... the put of its save, or the delete of the member's key ...
Save(g) ==
  LET m == Step(StopOrder, g) IN
  /\ At(g, "save") /\ Answered(g)
  /\ saved' = IF overlap \/ ask[g].failed THEN saved ELSE saved \union {m}
  /\ lost' = IF ask[g].failed /\ ~overlap THEN lost \union {m} ELSE lost
  /\ Goes(g, "halt", pc[g].i)
  /\ UNCHANGED <<open, state, closed, term, crash, overlap>>

\* ... and the end of the workers, for which a manager may wait for ever.
StopReturns(g) ==
  /\ Up /\ At(g, "halt")
  /\ state' = [state EXCEPT ![Step(StopOrder, g)] = "stopped"]
  /\ Goes(g, "check", pc[g].i + 1)
  /\ UNCHANGED <<etcdVars, open, closed, term, crash, saved, lost, overlap>>

CloseClient(g) ==
  /\ Up /\ At(g, "client")
  /\ open' = FALSE
  /\ Goes(g, IF g = "main" THEN "ended" ELSE "kill", 1)
  /\ UNCHANGED <<etcdVars, state, closed, term, crash, saved, lost, overlap>>

Kill ==
  /\ Up /\ At("serve", "kill")
  /\ term' = TRUE
  /\ Goes("serve", "select", 1)
  /\ UNCHANGED <<etcdVars, open, state, closed, crash, saved, lost, overlap>>

-----------------------------------------------------------------------------
StopFunc(g) == Check(g) \/ Close(g) \/ Save(g) \/ StopReturns(g) \/ CloseClient(g)

\* g waits in a manager for its workers or its registry.
Waits(g) == At(g, "rest") \/ (At(g, "halt") /\ Step(StopOrder, g) # "cls")

Next ==
  \/ \E g \in Goroutines : TryFails(g) \/ StreamBreaks(g) \/ StreamReported(g)
  \/ \E a \in Askers : Ask(a) \/ AskerDone(a)
  \/ TakeError \/ RingChanges \/ ClusterEnds
  \/ BootChecks \/ BootRequest \/ MainReturns \/ Term
  \/ TakeReload \/ Reload \/ ReloadReturns \/ TakeStop \/ Kill
  \/ \E g \in Stoppers : StopFunc(g)

(* Go runs every goroutine that can run, and its select takes each ready   *)
(* case again and again.  main returns once a signal is there.  Nothing    *)
(* says that requests are made, that the ring changes or that etcd fails,  *)
(* nor that a manager's workers end when they are told to.                 *)
Fairness ==
  /\ \A g \in Goroutines : WF_vars(~open /\ TryFails(g)) /\ WF_vars(StreamReported(g))
  /\ \A a \in Askers : WF_vars(AskerDone(a))
  /\ WF_vars(TakeError) /\ WF_vars(BootChecks) /\ WF_vars(BootRequest)
  /\ WF_vars(term /\ MainReturns)
  /\ WF_vars(Reload) /\ SF_vars(TakeStop) /\ WF_vars(Kill)
  /\ \A g \in Stoppers : WF_vars(~Waits(g) /\ StopFunc(g))

Spec == Init /\ [][Next]_vars /\ Fairness

-----------------------------------------------------------------------------
(* Properties.                                                             *)

\* Every variable has its type; a request is pending only where one is made, and
\* a stop channel is closed exactly when the state is no longer active.
TypeOK ==
  /\ \A g \in Goroutines :
       /\ pc[g].i \in 1 .. Len(Boot)
       /\ ask[g].n \in 0 .. Tries - 1 /\ ask[g].failed \in BOOLEAN
       /\ Up /\ ask[g] # NoRequest => Asking(g)
  /\ errch \in 0 .. Cap /\ faults \in 0 .. MaxFaults /\ failed \in 0 .. 3
  /\ {open, term, crash, overlap} \subseteq BOOLEAN
  /\ {saved, lost} \subseteq SUBSET (Managers \union {"cls"})
  /\ \A m \in DOMAIN state : /\ state[m] \in {"active", "stopping", "stopped"}
                             /\ closed[m] = (state[m] # "active")

\* stopFunc runs again when main returns after an error stopped the managers: no
\* channel is closed twice unless the two were in it at the same time.
StopsOnce == crash => overlap

\* The node leaves the ring after its scalers and healers are in etcd, where the
\* nodes that take them over read them; and when main returns everything that ran is
\* saved and the member's key deleted - but for what was given up with a failed
\* request.  Not if the two were in stopFunc at once: main then does not wait for
\* what the other has begun.
SavedInTime ==
  ~overlap =>
    /\ closed["cls"] => {"fas", "fah"} \subseteq saved \union lost
    /\ At("main", "ended") => (Managers \union {"cls"}) \ lost \subseteq saved /\ ~open
    /\ lost # {} => failed > 0

\* A signal, and an error that Etcd.Run took, end the process, unless a manager
\* waits for ever for its workers or its registry (scaler.go:79,
\* scheduler/manager.go:132).  Three requests that fail are enough to prevent it as
\* well: one in Run's hands, one in ErrCh and one that waits, which may be of the
\* goroutine that is to serve the stop.  And main gets past its start; it starts
\* Etcd.Run last, so there two are enough.
StopIsServed ==
  /\ (\A g \in Stoppers : []<>~Waits(g)) =>
       ((term \/ At("etcd", "ring")) ~> (~Up \/ failed > 2))
  /\ At("main", "boot") ~> (~At("main", "boot") \/ failed > 1)
=============================================================================
