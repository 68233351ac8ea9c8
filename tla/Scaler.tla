------------------------------- MODULE Scaler -------------------------------
(***************************************************************************)
(* One scaler of pkg/autoscaler/scaler.go with its alert                   *)
(* (pkg/alert/alert.go): the goroutine `run`, the HTTP actions `do` starts *)
(* and waits for, and the manager goroutines that marshal, put and Stop    *)
(* the scaler (save and rebalance in pkg/autoscaler/manager.go) while it   *)
(* runs.  After a stop the scaler may be started again, here or on another *)
(* node, from the alert that was last put in etcd.                         *)
(*                                                                         *)
(* Time is an integer clock.  The ticker may fire at any moment: nothing   *)
(* relates a scaler's interval to its duration and cooldown.               *)
(***************************************************************************)
EXTENDS Integers

CONSTANTS
  Actions,      \* the HTTP actions of the scaler
  Savers,       \* goroutines that marshal and put the scaler, then stop it
  Removers,     \* goroutines that stop it only (the watch loop's stopScaler)
  Duration,     \* how long a breach lasts before the alert fires
  Cooldown,     \* how long after a success no action may run
  MaxTime,      \* bound: last instant of the clock
  MaxRestarts,  \* bound: number of times the scaler is started again
  NoOne         \* nobody holds mtx

Callers == Savers \union Removers

ASSUME TimesAssumption ==
  /\ Duration \in Nat
  /\ Cooldown \in Nat
  /\ MaxTime \in Nat
  /\ MaxRestarts \in Nat

ASSUME CallersAssumption ==
  /\ Savers \cap Removers = {}
  /\ "run" \notin Callers
  /\ NoOne \notin Callers \union {"run"}

VARIABLES
  now,        \* the clock
  enabled,    \* model.Scaler.Active
  alert,      \* alert.Alert.State
  cooling,    \* alert.Alert.cooling
  pc,         \* where the goroutine run is
  result,     \* the query result run holds
  state,      \* Scaler.state
  mtx,        \* who holds Scaler.mtx
  done,       \* Scaler.done is closed
  panicked,   \* a closed channel was closed again
  act,        \* the HTTP actions of the current do
  caller,     \* where every caller of Stop is
  snap,       \* the JSON fields a saver has marshalled so far
  stored,     \* the alert in etcd
  restarts,   \* number of restarts so far
  (* Observers: what the environment showed and the actions did. *)
  breachSince,  \* first result of the current unbroken run of breaches
  inherited,    \* the restored alert was active and no empty result came since
  breachFire    \* last success in the current unbroken run of breaches

runVars == <<enabled, alert, cooling, pc, result, act>>
stopVars == <<done, panicked, caller, snap>>
observers == <<breachSince, inherited, breachFire>>
vars == <<now, runVars, state, mtx, stopVars, stored, restarts, observers>>

NoTime == -1
Time == 0 .. MaxTime
Alert == [active: BOOLEAN, startedAt: Time \union {NoTime}, firedAt: Time \union {NoTime}]
NoAlert == [active |-> FALSE, startedAt |-> NoTime, firedAt |-> NoTime]

-----------------------------------------------------------------------------
(* pkg/alert/alert.go.  The zero time.Time lies further back than any      *)
(* duration: time.Since of it exceeds every duration and every cooldown.   *)

ShouldFire(a) == a.active /\ (a.startedAt = NoTime \/ now - a.startedAt >= Duration)

\* Fault: the cooldown ends one instant early.
IsCoolingDownShort(a) == a.firedAt # NoTime /\ now - a.firedAt < Cooldown

IsCoolingDown(a) == a.firedAt # NoTime /\ now - a.firedAt <= Cooldown

Start(a) == [a EXCEPT !.startedAt = now, !.active = TRUE]

\* Fault: the alert is stamped an instant ahead.
FireAhead(a) == [a EXCEPT !.firedAt = now + 1]

Fire(a) == IF a.firedAt = NoTime \/ ~cooling THEN [a EXCEPT !.firedAt = now] ELSE a

\* Fault: an empty result leaves the alert as it is.
ResetForgotten(a) == a

Reset(a) == NoAlert

-----------------------------------------------------------------------------
(* newScaler: the alert comes back from etcd, everything else is fresh.    *)

Init ==
  /\ now = 0
  /\ enabled \in BOOLEAN
  /\ alert = NoAlert /\ cooling = FALSE
  /\ pc = "outer" /\ result = "empty"
  /\ state = "active" /\ mtx = NoOne
  /\ done = FALSE /\ panicked = FALSE
  /\ act = [a \in Actions |-> "idle"]
  /\ caller = [c \in Callers |-> "idle"]
  /\ snap = [c \in Savers |-> NoAlert]
  /\ stored = NoAlert
  /\ restarts = 0
  /\ breachSince = NoTime /\ inherited = FALSE
  /\ breachFire = NoTime

Tick ==
  /\ now < MaxTime
  /\ now' = now + 1
  /\ UNCHANGED <<runVars, state, mtx, stopVars, stored, restarts, observers>>

-----------------------------------------------------------------------------
(* The goroutine run.                                                      *)

\* The outer select: done wins when it is closed.
OuterSelect ==
  /\ pc = "outer"
  /\ pc' = IF done THEN "ended" ELSE "inner"
  /\ UNCHANGED <<now, enabled, alert, cooling, result, act, state, mtx, stopVars,
                 stored, restarts, observers>>

\* The inner select: done and the ticker may both be ready, Go picks either.
InnerSelect ==
  /\ pc = "inner"
  /\ \/ done /\ pc' = "ended"
     \/ pc' = IF enabled THEN "query" ELSE "outer"
  /\ UNCHANGED <<now, enabled, alert, cooling, result, act, state, mtx, stopVars,
                 stored, restarts, observers>>

\* QueryInstant fails: the state is set without the lock, the tick is skipped.
QueryFails ==
  /\ pc = "query"
  /\ state' = "failed"
  /\ pc' = "outer"
  /\ UNCHANGED <<now, enabled, alert, cooling, result, act, mtx, stopVars,
                 stored, restarts, observers>>

QueryReturns(r) ==
  /\ pc = "query"
  /\ result' = r
  /\ pc' = "lock"
  /\ UNCHANGED <<now, enabled, alert, cooling, act, state, mtx, stopVars,
                 stored, restarts, observers>>

RunLocks ==
  /\ pc = "lock" /\ mtx = NoOne
  /\ mtx' = "run"
  /\ pc' = "eval"
  /\ UNCHANGED <<now, enabled, alert, cooling, result, act, state, stopVars,
                 stored, restarts, observers>>

\* No series in the result: the alert is reset and the lock given back.
EvaluateEmpty ==
  /\ pc = "eval" /\ result = "empty"
  /\ alert' = Reset(alert)
  /\ mtx' = NoOne
  /\ pc' = "outer"
  /\ breachSince' = NoTime /\ inherited' = FALSE /\ breachFire' = NoTime
  /\ UNCHANGED <<now, enabled, cooling, result, act, state, stopVars, stored,
                 restarts>>

\* The threshold is breached: start the alert if it is not active, then run the
\* actions if it is time to fire, it does not cool down and the cloud is known.
EvaluateBreach(known) ==
  LET started == IF alert.active THEN alert ELSE Start(alert)
      due     == ShouldFire(started)
      fires   == due /\ ~IsCoolingDown(started) /\ known
  IN
  /\ pc = "eval" /\ result = "breach"
  /\ alert' = started
  /\ cooling' = IF due THEN IsCoolingDown(started) ELSE cooling
  /\ act' = IF fires THEN [a \in Actions |-> "pending"] ELSE act
  /\ pc' = IF fires THEN "acting" ELSE "outer"
  /\ mtx' = IF fires THEN mtx ELSE NoOne
  /\ breachSince' = IF breachSince = NoTime THEN now ELSE breachSince
  /\ UNCHANGED <<now, enabled, result, state, stopVars, stored, restarts,
                 inherited, breachFire>>

\* One action goroutine of do ends; only a success marks the alert as fired.
ActionSucceeds(a) ==
  /\ act[a] = "pending"
  /\ act' = [act EXCEPT ![a] = "idle"]
  /\ alert' = Fire(alert)
  /\ breachFire' = now
  /\ UNCHANGED <<now, enabled, cooling, pc, result, state, mtx, stopVars, stored,
                 restarts, breachSince, inherited>>

ActionFails(a) ==
  /\ act[a] = "pending"
  /\ act' = [act EXCEPT ![a] = "idle"]
  /\ UNCHANGED <<now, enabled, alert, cooling, pc, result, state, mtx, stopVars,
                 stored, restarts, observers>>

\* Fault: do does not wait for its goroutines.
ActionsDoneEarly ==
  /\ pc = "acting"
  /\ mtx' = NoOne
  /\ pc' = "outer"
  /\ UNCHANGED <<now, enabled, alert, cooling, result, act, state, stopVars,
                 stored, restarts, observers>>

\* wg.Wait returns when every action has ended; run gives the lock back.
ActionsDone ==
  /\ pc = "acting"
  /\ \A a \in Actions : act[a] = "idle"
  /\ mtx' = NoOne
  /\ pc' = "outer"
  /\ UNCHANGED <<now, enabled, alert, cooling, result, act, state, stopVars,
                 stored, restarts, observers>>

-----------------------------------------------------------------------------
(* The callers of Stop.  A saver reads the alert, without the lock, field  *)
(* by field as json.Marshal does, puts it and only then stops the scaler.  *)

Goto(c, l) == caller' = [caller EXCEPT ![c] = l]

UnchangedButCaller ==
  UNCHANGED <<now, runVars, state, mtx, done, panicked, restarts, observers>>

MarshalActive(c) ==
  /\ caller[c] = "idle"
  /\ snap' = [snap EXCEPT ![c].active = alert.active]
  /\ Goto(c, "active")
  /\ UnchangedButCaller /\ UNCHANGED stored

MarshalStartedAt(c) ==
  /\ caller[c] = "active"
  /\ snap' = [snap EXCEPT ![c].startedAt = alert.startedAt]
  /\ Goto(c, "startedAt")
  /\ UnchangedButCaller /\ UNCHANGED stored

MarshalFiredAt(c) ==
  /\ caller[c] = "startedAt"
  /\ snap' = [snap EXCEPT ![c].firedAt = alert.firedAt]
  /\ Goto(c, "marshalled")
  /\ UnchangedButCaller /\ UNCHANGED stored

\* DoPut, then Stop.
Put(c) ==
  /\ caller[c] = "marshalled"
  /\ stored' = snap[c]
  /\ Goto(c, "stop")
  /\ UnchangedButCaller /\ UNCHANGED snap

\* DoPut failed: save stops the scaler all the same, rebalance leaves it running.
PutFails(c, l) ==
  /\ caller[c] = "marshalled"
  /\ Goto(c, l)
  /\ UnchangedButCaller /\ UNCHANGED <<snap, stored>>

\* The watch loop found the scaler in the registry and calls Stop.
Remove(c) ==
  /\ caller[c] = "idle"
  /\ Goto(c, "stop")
  /\ UnchangedButCaller /\ UNCHANGED <<snap, stored>>

\* Fault: Stop does not look at the state.
AlreadyStoppedUnchecked == FALSE

AlreadyStopped == state \in {"stopping", "stopped"}

\* Stop takes the lock; a scaler that is stopping or stopped is left alone,
\* otherwise done is closed.
StopLocks(c) ==
  /\ caller[c] = "stop" /\ mtx = NoOne
  /\ IF AlreadyStopped
     THEN /\ Goto(c, "returned")
          /\ UNCHANGED <<mtx, state, done, panicked>>
     ELSE /\ mtx' = c
          /\ state' = "stopping"
          /\ panicked' = (panicked \/ done)
          /\ done' = TRUE
          /\ Goto(c, "wait")
  /\ UNCHANGED <<now, runVars, snap, stored, restarts, observers>>

\* Fault: Stop returns without waiting for the goroutine.
TerminatedIgnored == TRUE

\* run closes terminated as it returns.
Terminated == pc = "ended"

\* Stop still holds the lock while it waits for terminated.
StopReturns(c) ==
  /\ caller[c] = "wait" /\ Terminated
  /\ state' = "stopped"
  /\ mtx' = NoOne
  /\ Goto(c, "returned")
  /\ UNCHANGED <<now, runVars, done, panicked, snap, stored, restarts, observers>>

\* startScaler after the stop: newScaler restores the stored alert, unless the
\* object was replaced through the API, which stores no alert.
Restart(a) ==
  /\ restarts < MaxRestarts
  /\ pc = "ended"
  /\ \A c \in Callers : caller[c] \in {"idle", "returned", "left"}
  /\ restarts' = restarts + 1
  /\ enabled' \in BOOLEAN
  /\ alert' = a /\ cooling' = FALSE
  /\ pc' = "outer" /\ result' = "empty"
  /\ state' = "active" /\ mtx' = NoOne
  /\ done' = FALSE
  /\ act' = [x \in Actions |-> "idle"]
  /\ caller' = [c \in Callers |-> "idle"]
  /\ snap' = [c \in Savers |-> NoAlert]
  /\ stored' = a
  /\ breachSince' = NoTime /\ inherited' = a.active /\ breachFire' = NoTime
  /\ UNCHANGED <<now, panicked>>

-----------------------------------------------------------------------------
RunStep ==
  \/ OuterSelect \/ InnerSelect \/ QueryFails
  \/ \E r \in {"empty", "breach"} : QueryReturns(r)
  \/ EvaluateEmpty \/ \E known \in BOOLEAN : EvaluateBreach(known)
  \/ ActionsDone

ActionStep(a) == ActionSucceeds(a) \/ ActionFails(a)

SaverStep(c) ==
  \/ MarshalActive(c) \/ MarshalStartedAt(c) \/ MarshalFiredAt(c)
  \/ Put(c) \/ \E l \in {"stop", "left"} : PutFails(c, l)

Next ==
  \/ Tick
  \/ RunStep \/ RunLocks
  \/ \E a \in Actions : ActionStep(a)
  \/ \E c \in Savers : SaverStep(c)
  \/ \E c \in Removers : Remove(c)
  \/ \E c \in Callers : StopLocks(c) \/ StopReturns(c)
  \/ \E a \in {stored, NoAlert} : Restart(a)

Spec == Init /\ [][Next]_vars

(* Go runs every goroutine that can run, the HTTP client and the query     *)
(* return, and sync.RWMutex starves nobody.  A caller that began to marshal*)
(* goes on; nothing forces one to begin.                                   *)
Fairness ==
  /\ WF_vars(RunStep) /\ SF_vars(RunLocks)
  /\ \A a \in Actions : WF_vars(ActionStep(a))
  /\ \A c \in Callers : SF_vars(StopLocks(c)) /\ WF_vars(StopReturns(c))
  /\ \A c \in Savers : WF_vars(MarshalStartedAt(c) \/ MarshalFiredAt(c) \/ Put(c))

FairSpec == Spec /\ Fairness

-----------------------------------------------------------------------------
(* Properties.                                                             *)

CallerPc == {"idle", "active", "startedAt", "marshalled", "stop", "wait", "returned", "left"}

\* Every variable has its type.
TypeOK ==
  /\ now \in Time /\ enabled \in BOOLEAN
  /\ alert \in Alert /\ cooling \in BOOLEAN
  /\ pc \in {"outer", "inner", "query", "lock", "eval", "acting", "ended"}
  /\ result \in {"empty", "breach"}
  /\ state \in {"active", "failed", "stopping", "stopped"}
  /\ mtx \in Callers \union {"run", NoOne}
  /\ done \in BOOLEAN /\ panicked \in BOOLEAN
  /\ act \in [Actions -> {"idle", "pending"}]
  /\ caller \in [Callers -> CallerPc]
  /\ snap \in [Savers -> Alert] /\ stored \in Alert
  /\ restarts \in 0 .. MaxRestarts
  /\ breachSince \in Time \union {NoTime} /\ inherited \in BOOLEAN
  /\ breachFire \in Time \union {NoTime}

\* However many manager goroutines stop the same scaler, and although run
\* overwrites the state without the lock when a query fails, done is closed
\* once per start: the process never panics on a second close.
NoDoubleClose == ~panicked

\* A Stop that closed done returns only when the goroutine is gone and no action
\* of it is in flight; a Stop that found the scaler stopped returns no earlier.
StoppedIsQuiet ==
  state = "stopped" =>
    /\ pc = "ended"
    /\ \A a \in Actions : act[a] = "idle"

\* While actions run, the query has breached without a break for at least
\* Duration as this scaler saw it, or the breach was inherited with a stored
\* alert (ShouldFire, Start and Reset together).
SustainedBreach ==
  pc = "acting" =>
    \/ inherited
    \/ breachSince # NoTime /\ now - breachSince >= Duration

Fires == pc = "eval" /\ pc' = "acting"

\* Within one unbroken run of breaches the actions start again only after the
\* cooldown that follows the last successful action, whatever other actions of
\* that round failed.
CooldownInBreach ==
  [][Fires => breachFire = NoTime \/ now - breachFire > Cooldown]_vars

\* Stop returns: the manager's save, rebalance and watch loop wait for it.
StopTerminates ==
  \A c \in Callers : caller[c] = "stop" ~> caller[c] = "returned"

-----------------------------------------------------------------------------
(* What the manager relies on, as module Worker states it: a goroutine that*)
(* is asked to end, and callers that are told once it has.                 *)

Phase == IF pc = "ended" THEN "ended" ELSE IF done THEN "asked" ELSE "running"

W == INSTANCE Worker WITH
       Stoppers <- Callers,
       phase    <- Phase,
       busy     <- {a \in Actions : act[a] = "pending"},
       told     <- {c \in Callers : caller[c] = "returned"}

\* save, rebalance and the watch loop may take Stop for the end of the worker:
\* the scaler, with its lock, its two channels and its state field, which a
\* failing query overwrites, does what Worker allows and nothing else.
ImplementsWorker == W!Spec
=============================================================================
