---------------------------- MODULE ScalerProofs ----------------------------
(***************************************************************************)
(* Proofs about Scaler for every set of actions and callers, every         *)
(* duration, cooldown and clock bound.                                     *)
(***************************************************************************)
EXTENDS Scaler, TLAPS

\* mtx is held by run exactly while it evaluates, by a caller exactly while it
\* waits for run to end; actions are in flight only inside do.
LockInv ==
  /\ mtx = "run" <=> pc \in {"eval", "acting"}
  /\ \A c \in Callers : mtx = c <=> caller[c] = "wait"
  /\ pc # "acting" => \A a \in Actions : act[a] = "idle"

\* done is closed by the one caller that waits, or the scaler is stopped; run
\* ends only after that, and is gone once the state says stopped.
StopInv ==
  /\ ~panicked
  /\ done => state = "stopped" \/ \E c \in Callers : caller[c] = "wait"
  /\ ~done => /\ state \notin {"stopping", "stopped"}
              /\ pc # "ended"
              /\ \A c \in Callers : caller[c] # "wait"
  /\ state = "stopped" => pc = "ended"

\* What the alert records is what the observers saw.
AlertInv ==
  /\ ~alert.active => breachSince = NoTime /\ ~inherited
  /\ alert.active /\ ~inherited => breachSince # NoTime /\ alert.startedAt = breachSince
  /\ breachFire # NoTime => alert.firedAt = breachFire
  /\ pc = "acting" => ~cooling

IInv == TypeOK /\ LockInv /\ StopInv /\ AlertInv /\ SustainedBreach

\* Updating one field of an alert, as the marshaller does, gives an alert.
LEMMA AlertUpdate ==
  ASSUME NEW a \in Alert, NEW b \in BOOLEAN, NEW t \in Time \union {NoTime}
  PROVE  /\ [a EXCEPT !.active = b] \in Alert
         /\ [a EXCEPT !.startedAt = t] \in Alert
         /\ [a EXCEPT !.firedAt = t] \in Alert
  BY DEF Alert

\* No alert is an alert.
LEMMA NoAlertType == NoAlert \in Alert
  BY DEF Alert, NoAlert

\* The initial states satisfy the inductive invariant.
LEMMA InitIInv == Init => IInv
<1> SUFFICES ASSUME Init PROVE IInv
  OBVIOUS
<1> USE TimesAssumption, CallersAssumption
<1>1. TypeOK
  <2>1. snap \in [Savers -> Alert] /\ stored \in Alert /\ alert \in Alert
    BY NoAlertType DEF Init
  <2>2. caller \in [Callers -> CallerPc] /\ act \in [Actions -> {"idle", "pending"}]
    BY DEF Init, CallerPc
  <2>3. now \in Time /\ restarts \in 0 .. MaxRestarts
    BY DEF Init, Time
  <2>4. cooling \in BOOLEAN /\ enabled \in BOOLEAN /\ done \in BOOLEAN /\ panicked \in BOOLEAN
        /\ inherited \in BOOLEAN
    BY DEF Init
  <2>5. breachSince = NoTime /\ breachFire = NoTime
    BY DEF Init
  <2> QED
    BY <2>1, <2>2, <2>3, <2>4, <2>5 DEF Init, TypeOK
<1>2. LockInv
  BY DEF Init, LockInv
<1>3. StopInv
  BY DEF Init, StopInv
<1>4. AlertInv /\ SustainedBreach
  BY DEF Init, AlertInv, SustainedBreach, NoAlert, NoTime
<1> QED
  BY <1>1, <1>2, <1>3, <1>4 DEF IInv

\* Every step keeps the variables in their types.
LEMMA TypeStep == TypeOK /\ [Next]_vars => TypeOK'
<1> SUFFICES ASSUME TypeOK, [Next]_vars PROVE TypeOK'
  OBVIOUS
<1> USE TimesAssumption DEF TypeOK, Alert, Time, NoTime, CallerPc, runVars, stopVars, observers
<1>1. CASE Tick
  BY <1>1 DEF Tick
<1>2. CASE RunStep
  <2>1. CASE OuterSelect
    BY <2>1 DEF OuterSelect
  <2>2. CASE InnerSelect
    BY <2>2 DEF InnerSelect
  <2>3. CASE QueryFails
    BY <2>3 DEF QueryFails
  <2>4. ASSUME NEW r \in {"empty", "breach"}, QueryReturns(r) PROVE TypeOK'
    BY <2>4 DEF QueryReturns
  <2>5. CASE EvaluateEmpty
    BY <2>5 DEF EvaluateEmpty, Reset, NoAlert
  <2>6. ASSUME NEW known \in BOOLEAN, EvaluateBreach(known) PROVE TypeOK'
    <3> DEFINE started == IF alert.active THEN alert ELSE Start(alert)
    <3>1. started \in Alert
      BY DEF Start
    <3>2. alert' \in Alert
      BY <2>6, <3>1 DEF EvaluateBreach
    <3>3. cooling' \in BOOLEAN
      BY <2>6 DEF EvaluateBreach, IsCoolingDown
    <3>4. act' \in [Actions -> {"idle", "pending"}]
      BY <2>6 DEF EvaluateBreach
    <3>5. pc' \in {"outer", "acting"} /\ mtx' \in Callers \union {"run", NoOne}
      BY <2>6 DEF EvaluateBreach
    <3>6. breachSince' \in Time \union {NoTime}
      BY <2>6 DEF EvaluateBreach
    <3> QED
      BY <2>6, <3>2, <3>3, <3>4, <3>5, <3>6 DEF EvaluateBreach
  <2>7. CASE ActionsDone
    BY <2>7 DEF ActionsDone
  <2> QED
    BY <1>2, <2>1, <2>2, <2>3, <2>4, <2>5, <2>6, <2>7 DEF RunStep
<1>3. CASE RunLocks
  BY <1>3 DEF RunLocks
<1>4. ASSUME NEW a \in Actions, ActionStep(a) PROVE TypeOK'
  <2>1. CASE ActionSucceeds(a)
    BY <2>1 DEF ActionSucceeds, Fire
  <2>2. CASE ActionFails(a)
    BY <2>2 DEF ActionFails
  <2> QED
    BY <1>4, <2>1, <2>2 DEF ActionStep
<1>5. ASSUME NEW c \in Savers, SaverStep(c) PROVE TypeOK'
  <2> USE DEF Goto, UnchangedButCaller, Callers
  <2>1. CASE MarshalActive(c)
    <3>1. snap' \in [Savers -> Alert]
      <4>1. alert.active \in BOOLEAN
        OBVIOUS
      <4>2. \A x \in Savers : [snap[x] EXCEPT !.active = alert.active] \in Alert
        BY <4>1, AlertUpdate
      <4> HIDE DEF Alert
      <4>3. snap' = [snap EXCEPT ![c] = [snap[c] EXCEPT !.active = alert.active]]
        BY <2>1 DEF MarshalActive
      <4> QED
        BY <4>2, <4>3
    <3> QED
      BY <2>1, <3>1 DEF MarshalActive
  <2>2. CASE MarshalStartedAt(c)
    <3>1. snap' \in [Savers -> Alert]
      <4>1. alert.startedAt \in Time \union {NoTime}
        OBVIOUS
      <4>2. \A x \in Savers : [snap[x] EXCEPT !.startedAt = alert.startedAt] \in Alert
        BY <4>1, AlertUpdate
      <4> HIDE DEF Alert
      <4>3. snap' = [snap EXCEPT ![c] = [snap[c] EXCEPT !.startedAt = alert.startedAt]]
        BY <2>2 DEF MarshalStartedAt
      <4> QED
        BY <4>2, <4>3
    <3> QED
      BY <2>2, <3>1 DEF MarshalStartedAt
  <2>3. CASE MarshalFiredAt(c)
    <3>1. snap' \in [Savers -> Alert]
      <4>1. alert.firedAt \in Time \union {NoTime}
        OBVIOUS
      <4>2. \A x \in Savers : [snap[x] EXCEPT !.firedAt = alert.firedAt] \in Alert
        BY <4>1, AlertUpdate
      <4> HIDE DEF Alert
      <4>3. snap' = [snap EXCEPT ![c] = [snap[c] EXCEPT !.firedAt = alert.firedAt]]
        BY <2>3 DEF MarshalFiredAt
      <4> QED
        BY <4>2, <4>3
    <3> QED
      BY <2>3, <3>1 DEF MarshalFiredAt
  <2>4. CASE Put(c)
    BY <2>4 DEF Put
  <2>5. ASSUME NEW l \in {"stop", "left"}, PutFails(c, l) PROVE TypeOK'
    BY <2>5 DEF PutFails
  <2> QED
    BY <1>5, <2>1, <2>2, <2>3, <2>4, <2>5 DEF SaverStep
<1>6. ASSUME NEW c \in Callers, StopLocks(c) PROVE TypeOK'
  <2>1. caller' \in [Callers -> CallerPc]
    BY <1>6 DEF StopLocks, Goto
  <2>2. panicked' \in BOOLEAN /\ done' \in BOOLEAN
    BY <1>6 DEF StopLocks
  <2>3. mtx' \in Callers \union {"run", NoOne}
    BY <1>6 DEF StopLocks
  <2>4. state' \in {"active", "failed", "stopping", "stopped"}
    BY <1>6 DEF StopLocks
  <2> QED
    BY <1>6, <2>1, <2>2, <2>3, <2>4 DEF StopLocks
<1>7. ASSUME NEW a \in {stored, NoAlert}, Restart(a) PROVE TypeOK'
  <2> HIDE DEF Alert
  <2>1. a \in Alert
    BY NoAlertType DEF Alert
  <2>2. snap' \in [Savers -> Alert] /\ stored' \in Alert /\ alert' \in Alert
    BY <1>7, <2>1, NoAlertType DEF Restart
  <2>3. inherited' \in BOOLEAN
    BY <1>7, <2>1 DEF Restart, Alert
  <2>4. caller' \in [Callers -> CallerPc] /\ act' \in [Actions -> {"idle", "pending"}]
    BY <1>7 DEF Restart
  <2>5. cooling' \in BOOLEAN /\ enabled' \in BOOLEAN /\ done' \in BOOLEAN /\ panicked' \in BOOLEAN
    BY <1>7 DEF Restart
  <2>6. restarts' \in 0 .. MaxRestarts
    BY <1>7 DEF Restart
  <2> QED
    BY <1>7, <2>2, <2>3, <2>4, <2>5, <2>6 DEF Restart
<1>8. ASSUME NEW c \in Removers, Remove(c) PROVE TypeOK'
  BY <1>8 DEF Remove, Goto, UnchangedButCaller, Callers
<1>9. ASSUME NEW c \in Callers, StopReturns(c) PROVE TypeOK'
  BY <1>9 DEF StopReturns, Goto
<1>10. CASE UNCHANGED vars
  BY <1>10 DEF vars
<1> QED
  BY <1>1, <1>2, <1>3, <1>4, <1>5, <1>6, <1>7, <1>8, <1>9, <1>10 DEF Next

\* Every step keeps the lock discipline.
LEMMA LockStep == IInv /\ [Next]_vars => LockInv'
<1> SUFFICES ASSUME IInv, [Next]_vars PROVE LockInv'
  OBVIOUS
<1> USE CallersAssumption DEF IInv, LockInv, TypeOK, Callers, CallerPc, runVars, stopVars, observers
<1>1. CASE Tick
  BY <1>1 DEF Tick
<1>2. CASE OuterSelect
  BY <1>2 DEF OuterSelect
<1>3. CASE InnerSelect
  BY <1>3 DEF InnerSelect
<1>4. CASE QueryFails
  BY <1>4 DEF QueryFails
<1>5. ASSUME NEW r \in {"empty", "breach"}, QueryReturns(r) PROVE LockInv'
  BY <1>5 DEF QueryReturns
<1>6. CASE RunLocks
  BY <1>6 DEF RunLocks
<1>7. CASE EvaluateEmpty
  BY <1>7 DEF EvaluateEmpty
<1>8. ASSUME NEW known \in BOOLEAN, EvaluateBreach(known) PROVE LockInv'
  BY <1>8 DEF EvaluateBreach
<1>9. ASSUME NEW a \in Actions, ActionSucceeds(a) PROVE LockInv'
  BY <1>9 DEF ActionSucceeds
<1>10. ASSUME NEW a \in Actions, ActionFails(a) PROVE LockInv'
  BY <1>10 DEF ActionFails
<1>11. CASE ActionsDone
  BY <1>11 DEF ActionsDone
<1>12. ASSUME NEW c \in Savers, MarshalActive(c) PROVE LockInv'
  BY <1>12 DEF MarshalActive, Goto, UnchangedButCaller
<1>13. ASSUME NEW c \in Savers, MarshalStartedAt(c) PROVE LockInv'
  BY <1>13 DEF MarshalStartedAt, Goto, UnchangedButCaller
<1>14. ASSUME NEW c \in Savers, MarshalFiredAt(c) PROVE LockInv'
  BY <1>14 DEF MarshalFiredAt, Goto, UnchangedButCaller
<1>15. ASSUME NEW c \in Savers, Put(c) PROVE LockInv'
  BY <1>15 DEF Put, Goto, UnchangedButCaller
<1>16. ASSUME NEW c \in Savers, NEW l \in {"stop", "left"}, PutFails(c, l) PROVE LockInv'
  BY <1>16 DEF PutFails, Goto, UnchangedButCaller
<1>17. ASSUME NEW c \in Removers, Remove(c) PROVE LockInv'
  BY <1>17 DEF Remove, Goto, UnchangedButCaller
<1>18. ASSUME NEW c \in Callers, StopLocks(c) PROVE LockInv'
  BY <1>18 DEF StopLocks, AlreadyStopped, Goto
<1>19. ASSUME NEW c \in Callers, StopReturns(c) PROVE LockInv'
  BY <1>19 DEF StopReturns, Terminated, Goto
<1>20. ASSUME NEW a \in {stored, NoAlert}, Restart(a) PROVE LockInv'
  BY <1>20 DEF Restart
<1>21. CASE UNCHANGED vars
  BY <1>21 DEF vars
<1> QED
  BY <1>1, <1>2, <1>3, <1>4, <1>5, <1>6, <1>7, <1>8, <1>9, <1>10, <1>11, <1>12, <1>13, <1>14, <1>15, <1>16, <1>17, <1>18, <1>19, <1>20, <1>21
     DEF Next, RunStep, ActionStep, SaverStep

\* Every step keeps the stop handshake.
LEMMA StopStep == IInv /\ [Next]_vars => StopInv'
<1> SUFFICES ASSUME IInv, [Next]_vars PROVE StopInv'
  OBVIOUS
<1> USE CallersAssumption
    DEF IInv, LockInv, StopInv, TypeOK, Callers, CallerPc, runVars, stopVars, observers
<1>1. CASE Tick
  BY <1>1 DEF Tick
<1>2. CASE OuterSelect
  BY <1>2 DEF OuterSelect
<1>3. CASE InnerSelect
  BY <1>3 DEF InnerSelect
<1>4. CASE QueryFails
  BY <1>4 DEF QueryFails
<1>5. ASSUME NEW r \in {"empty", "breach"}, QueryReturns(r) PROVE StopInv'
  BY <1>5 DEF QueryReturns
<1>6. CASE RunLocks
  BY <1>6 DEF RunLocks
<1>7. CASE EvaluateEmpty
  BY <1>7 DEF EvaluateEmpty
<1>8. ASSUME NEW known \in BOOLEAN, EvaluateBreach(known) PROVE StopInv'
  BY <1>8 DEF EvaluateBreach
<1>9. ASSUME NEW a \in Actions, ActionSucceeds(a) PROVE StopInv'
  BY <1>9 DEF ActionSucceeds
<1>10. ASSUME NEW a \in Actions, ActionFails(a) PROVE StopInv'
  BY <1>10 DEF ActionFails
<1>11. CASE ActionsDone
  BY <1>11 DEF ActionsDone
<1>12. ASSUME NEW c \in Savers, MarshalActive(c) PROVE StopInv'
  BY <1>12 DEF MarshalActive, Goto, UnchangedButCaller
<1>13. ASSUME NEW c \in Savers, MarshalStartedAt(c) PROVE StopInv'
  BY <1>13 DEF MarshalStartedAt, Goto, UnchangedButCaller
<1>14. ASSUME NEW c \in Savers, MarshalFiredAt(c) PROVE StopInv'
  BY <1>14 DEF MarshalFiredAt, Goto, UnchangedButCaller
<1>15. ASSUME NEW c \in Savers, Put(c) PROVE StopInv'
  BY <1>15 DEF Put, Goto, UnchangedButCaller
<1>16. ASSUME NEW c \in Savers, NEW l \in {"stop", "left"}, PutFails(c, l) PROVE StopInv'
  BY <1>16 DEF PutFails, Goto, UnchangedButCaller
<1>17. ASSUME NEW c \in Removers, Remove(c) PROVE StopInv'
  BY <1>17 DEF Remove, Goto, UnchangedButCaller
<1>18. ASSUME NEW c \in Callers, StopLocks(c) PROVE StopInv'
  BY <1>18 DEF StopLocks, AlreadyStopped, Goto
<1>19. ASSUME NEW c \in Callers, StopReturns(c) PROVE StopInv'
  BY <1>19 DEF StopReturns, Terminated, Goto
<1>20. ASSUME NEW a \in {stored, NoAlert}, Restart(a) PROVE StopInv'
  BY <1>20 DEF Restart
<1>21. CASE UNCHANGED vars
  BY <1>21 DEF vars
<1> QED
  BY <1>1, <1>2, <1>3, <1>4, <1>5, <1>6, <1>7, <1>8, <1>9, <1>10, <1>11, <1>12, <1>13, <1>14, <1>15, <1>16, <1>17, <1>18, <1>19, <1>20, <1>21
     DEF Next, RunStep, ActionStep, SaverStep

\* Every step keeps the alert in line with what was observed.
LEMMA AlertStep == IInv /\ [Next]_vars => AlertInv' /\ SustainedBreach'
<1> DEFINE Goal == AlertInv /\ SustainedBreach
<1> SUFFICES ASSUME IInv, [Next]_vars PROVE Goal'
  OBVIOUS
<1> USE TimesAssumption
    DEF IInv, LockInv, AlertInv, SustainedBreach, TypeOK, Alert, Time, NoTime,
        runVars, stopVars, observers
<1>1. CASE Tick
  BY <1>1 DEF Tick
<1>2. CASE OuterSelect
  BY <1>2 DEF OuterSelect
<1>3. CASE InnerSelect
  BY <1>3 DEF InnerSelect
<1>4. CASE QueryFails
  BY <1>4 DEF QueryFails
<1>5. ASSUME NEW r \in {"empty", "breach"}, QueryReturns(r) PROVE Goal'
  BY <1>5 DEF QueryReturns
<1>6. CASE RunLocks
  BY <1>6 DEF RunLocks
<1>7. CASE EvaluateEmpty
  BY <1>7 DEF EvaluateEmpty, Reset, NoAlert
<1>8. ASSUME NEW known \in BOOLEAN, EvaluateBreach(known) PROVE Goal'
  <2> DEFINE started == IF alert.active THEN alert ELSE Start(alert)
             due     == ShouldFire(started)
  <2>1. /\ alert' = started /\ inherited' = inherited /\ breachFire' = breachFire /\ now' = now
        /\ breachSince' = IF breachSince = NoTime THEN now ELSE breachSince
    BY <1>8 DEF EvaluateBreach
  <2>2. started.active /\ started.firedAt = alert.firedAt
    BY DEF Start
  <2>3. ~inherited => breachSince' # NoTime /\ started.startedAt = breachSince'
    BY <2>1 DEF Start
  <2>4. pc' = "acting" => ~cooling' /\ due
    BY <1>8 DEF EvaluateBreach
  <2>5. AlertInv'
    BY <2>1, <2>2, <2>3, <2>4
  <2>6. pc' = "acting" /\ ~inherited' => breachSince' # NoTime /\ now' - breachSince' >= Duration
    BY <2>1, <2>3, <2>4 DEF ShouldFire
  <2> QED
    BY <2>5, <2>6
<1>9. ASSUME NEW a \in Actions, ActionSucceeds(a) PROVE Goal'
  BY <1>9 DEF ActionSucceeds, Fire
<1>10. ASSUME NEW a \in Actions, ActionFails(a) PROVE Goal'
  BY <1>10 DEF ActionFails
<1>11. CASE ActionsDone
  BY <1>11 DEF ActionsDone
<1>12. ASSUME NEW c \in Savers, MarshalActive(c) PROVE Goal'
  BY <1>12 DEF MarshalActive, Goto, UnchangedButCaller
<1>13. ASSUME NEW c \in Savers, MarshalStartedAt(c) PROVE Goal'
  BY <1>13 DEF MarshalStartedAt, Goto, UnchangedButCaller
<1>14. ASSUME NEW c \in Savers, MarshalFiredAt(c) PROVE Goal'
  BY <1>14 DEF MarshalFiredAt, Goto, UnchangedButCaller
<1>15. ASSUME NEW c \in Savers, Put(c) PROVE Goal'
  BY <1>15 DEF Put, Goto, UnchangedButCaller
<1>16. ASSUME NEW c \in Savers, NEW l \in {"stop", "left"}, PutFails(c, l) PROVE Goal'
  BY <1>16 DEF PutFails, Goto, UnchangedButCaller
<1>17. ASSUME NEW c \in Removers, Remove(c) PROVE Goal'
  BY <1>17 DEF Remove, Goto, UnchangedButCaller
<1>18. ASSUME NEW c \in Callers, StopLocks(c) PROVE Goal'
  BY <1>18 DEF StopLocks, AlreadyStopped, Goto
<1>19. ASSUME NEW c \in Callers, StopReturns(c) PROVE Goal'
  BY <1>19 DEF StopReturns, Terminated, Goto
<1>20. ASSUME NEW a \in {stored, NoAlert}, Restart(a) PROVE Goal'
  BY <1>20 DEF Restart, NoAlert
<1>21. CASE UNCHANGED vars
  BY <1>21 DEF vars
<1> QED
  BY <1>1, <1>2, <1>3, <1>4, <1>5, <1>6, <1>7, <1>8, <1>9, <1>10, <1>11, <1>12, <1>13, <1>14, <1>15, <1>16, <1>17, <1>18, <1>19, <1>20, <1>21
     DEF Next, RunStep, ActionStep, SaverStep

\* IInv is inductive.
LEMMA Inductive == Spec => []IInv
<1>1. IInv /\ [Next]_vars => IInv'
  BY TypeStep, LockStep, StopStep, AlertStep DEF IInv
<1> QED
  BY InitIInv, <1>1, PTL DEF Spec

\* Every reachable state is well typed.
THEOREM TypeCorrect == Spec => []TypeOK
<1>1. IInv => TypeOK
  BY DEF IInv
<1> QED
  BY Inductive, <1>1, PTL

\* Stop never closes done a second time, whoever calls it and however often.
THEOREM NeverClosedTwice == Spec => []NoDoubleClose
<1>1. IInv => NoDoubleClose
  BY DEF IInv, StopInv, NoDoubleClose
<1> QED
  BY Inductive, <1>1, PTL

\* A stopped scaler has no goroutine left and no action in flight.
THEOREM StopIsFinal == Spec => []StoppedIsQuiet
<1>1. IInv => StoppedIsQuiet
  BY DEF IInv, LockInv, StopInv, StoppedIsQuiet
<1> QED
  BY Inductive, <1>1, PTL

\* Actions run only during a breach that has lasted for Duration.
THEOREM FiresAfterDuration == Spec => []SustainedBreach
<1>1. IInv => SustainedBreach
  BY DEF IInv
<1> QED
  BY Inductive, <1>1, PTL

\* Inside one breach, a round of actions starts only after the cooldown of the
\* last success.
THEOREM CooldownHolds == Spec => CooldownInBreach
<1>1. IInv /\ [Next]_vars => [Fires => breachFire = NoTime \/ now - breachFire > Cooldown]_vars
  <2> SUFFICES ASSUME IInv, Next, Fires, breachFire # NoTime
               PROVE  now - breachFire > Cooldown
    OBVIOUS
  <2>1. PICK known \in BOOLEAN : EvaluateBreach(known)
    <3> USE DEF Fires, Goto, UnchangedButCaller, runVars
    <3>1. ~Tick /\ ~RunLocks
      BY DEF Tick, RunLocks
    <3>2. ~OuterSelect /\ ~InnerSelect /\ ~QueryFails /\ ~EvaluateEmpty /\ ~ActionsDone
      BY DEF OuterSelect, InnerSelect, QueryFails, EvaluateEmpty, ActionsDone
    <3>3. \A r \in {"empty", "breach"} : ~QueryReturns(r)
      BY DEF QueryReturns
    <3>4. \A a \in Actions : ~ActionStep(a)
      BY DEF ActionStep, ActionSucceeds, ActionFails
    <3>5. \A c \in Savers : ~SaverStep(c)
      BY DEF SaverStep, MarshalActive, MarshalStartedAt, MarshalFiredAt, Put, PutFails
    <3>6. \A c \in Removers : ~Remove(c)
      BY DEF Remove
    <3>7. \A c \in Callers : ~StopLocks(c) /\ ~StopReturns(c)
      BY DEF StopLocks, StopReturns
    <3>8. \A a \in {stored, NoAlert} : ~Restart(a)
      BY DEF Restart
    <3> QED
      BY <3>1, <3>2, <3>3, <3>4, <3>5, <3>6, <3>7, <3>8 DEF Next, RunStep
  <2> DEFINE started == IF alert.active THEN alert ELSE Start(alert)
  <2>2. ~IsCoolingDown(started)
    BY <2>1 DEF EvaluateBreach, Fires
  <2>3. started.firedAt = breachFire
    BY DEF IInv, AlertInv, TypeOK, Alert, Start
  <2> HIDE DEF started
  <2> QED
    BY <2>2, <2>3, TimesAssumption DEF IsCoolingDown, IInv, TypeOK, Time, NoTime
<1> QED
  BY Inductive, <1>1, PTL DEF Spec, CooldownInBreach

-----------------------------------------------------------------------------
(* The scaler implements Worker.                                           *)

Busy == {a \in Actions : act[a] = "pending"}
Told == {c \in Callers : caller[c] = "returned"}

\* A step of run, of an action or of a caller is a step of Worker or a stutter.
LEMMA WorkerStep == IInv /\ [Next]_vars => [W!Next]_(W!vars)
<1> SUFFICES ASSUME IInv, [Next]_vars PROVE W!Next \/ UNCHANGED W!vars
  BY DEF W!vars
<1> USE CallersAssumption
    DEF IInv, LockInv, StopInv, TypeOK, Callers, CallerPc, runVars, stopVars, observers, Phase
<1> DEFINE Same == Phase' = Phase /\ Busy' = Busy /\ Told' = Told
<1> DEFINE Goal == W!Next \/ UNCHANGED W!vars
<1>0. Same => Goal
  BY DEF W!vars, Busy, Told
<1>1. CASE Tick
  BY <1>0, <1>1 DEF Tick, Busy, Told
<1>2. ASSUME OuterSelect \/ InnerSelect PROVE Goal
  <2>1. Busy' = Busy /\ Told' = Told /\ (Phase' = Phase \/ (Phase = "asked" /\ Phase' = "ended"))
    BY <1>2 DEF OuterSelect, InnerSelect, Busy, Told
  <2>2. pc # "acting" => Busy = {}
    BY DEF Busy
  <2>3. pc # "acting"
    BY <1>2 DEF OuterSelect, InnerSelect
  <2> QED
    BY <1>0, <2>1, <2>2, <2>3 DEF W!Next, W!End, Busy, Told
<1>3. CASE QueryFails
  BY <1>0, <1>3 DEF QueryFails, Busy, Told
<1>4. ASSUME NEW r \in {"empty", "breach"}, QueryReturns(r) PROVE Goal
  BY <1>0, <1>4 DEF QueryReturns, Busy, Told
<1>5. CASE RunLocks
  BY <1>0, <1>5 DEF RunLocks, Busy, Told
<1>6. CASE EvaluateEmpty
  BY <1>0, <1>6 DEF EvaluateEmpty, Busy, Told
<1>7. ASSUME NEW known \in BOOLEAN, EvaluateBreach(known) PROVE Goal
  <2>1. Phase' = Phase /\ Told' = Told /\ Phase # "ended"
    BY <1>7 DEF EvaluateBreach, Told
  <2>2. Busy = {}
    BY <1>7 DEF EvaluateBreach, Busy
  <2>3. Busy' = Busy \/ Busy' = Actions
    BY <1>7 DEF EvaluateBreach, Busy
  <2> QED
    BY <1>0, <2>1, <2>2, <2>3 DEF W!Next, W!Begin, Busy, Told
<1>8. ASSUME NEW a \in Actions, ActionSucceeds(a) \/ ActionFails(a) PROVE Goal
  <2>1. a \in Busy /\ Busy' = Busy \ {a}
    BY <1>8 DEF ActionSucceeds, ActionFails, Busy
  <2>2. Phase' = Phase /\ Told' = Told
    BY <1>8 DEF ActionSucceeds, ActionFails, Told
  <2> QED
    BY <2>1, <2>2 DEF W!Next, W!Finish, Busy, Told
<1>9. CASE ActionsDone
  BY <1>0, <1>9 DEF ActionsDone, Busy, Told
<1>10. ASSUME NEW c \in Savers, SaverStep(c) PROVE Goal
  <2>1. Phase' = Phase /\ Busy' = Busy
    BY <1>10 DEF SaverStep, MarshalActive, MarshalStartedAt, MarshalFiredAt, Put, PutFails,
                 UnchangedButCaller, Busy
  <2>2. caller[c] # "returned" /\ caller'[c] # "returned"
        /\ \A x \in Callers \ {c} : caller'[x] = caller[x]
    BY <1>10 DEF SaverStep, MarshalActive, MarshalStartedAt, MarshalFiredAt, Put, PutFails, Goto
  <2>3. Told' = Told
    BY <2>2 DEF Told
  <2> QED
    BY <1>0, <2>1, <2>3
<1>11. ASSUME NEW c \in Removers, Remove(c) PROVE Goal
  <2>1. Phase' = Phase /\ Busy' = Busy
    BY <1>11 DEF Remove, UnchangedButCaller, Busy
  <2>2. Told' = Told
    BY <1>11 DEF Remove, Goto, Told
  <2> QED
    BY <1>0, <2>1, <2>2
<1>12. ASSUME NEW c \in Callers, StopLocks(c) PROVE Goal
  <2>1. Busy' = Busy
    BY <1>12 DEF StopLocks, Busy
  <2>2. CASE AlreadyStopped
    <3>1. Phase = "ended" /\ Phase' = Phase
      BY <1>12, <2>2 DEF StopLocks, AlreadyStopped
    <3>2. Told' = Told \union {c}
      BY <1>12, <2>2 DEF StopLocks, Goto, Told
    <3> QED
      BY <2>1, <3>1, <3>2 DEF W!Next, W!Tell, Busy, Told
  <2>3. CASE ~AlreadyStopped
    <3>1. Told' = Told
      BY <1>12, <2>3 DEF StopLocks, Goto, Told
    <3>2. Phase' = Phase \/ (Phase = "running" /\ Phase' = "asked")
      BY <1>12, <2>3 DEF StopLocks
    <3> QED
      BY <1>0, <2>1, <3>1, <3>2 DEF W!Next, W!Ask, Busy, Told
  <2> QED
    BY <2>2, <2>3
<1>13. ASSUME NEW c \in Callers, StopReturns(c) PROVE Goal
  <2>1. Busy' = Busy /\ Phase' = Phase /\ Phase = "ended"
    BY <1>13 DEF StopReturns, Terminated, Busy
  <2>2. Told' = Told \union {c}
    BY <1>13 DEF StopReturns, Goto, Told
  <2> QED
    BY <2>1, <2>2 DEF W!Next, W!Tell, Busy, Told
<1>14. ASSUME NEW a \in {stored, NoAlert}, Restart(a) PROVE Goal
  <2>1. Phase = "ended" /\ Phase' = "running" /\ Told' = {}
    BY <1>14 DEF Restart, Told
  <2>2. Busy = {} /\ Busy' = {}
    BY <1>14 DEF Restart, Busy
  <2> QED
    BY <2>1, <2>2 DEF W!Next, W!Revive, Busy, Told
<1>15. CASE UNCHANGED vars
  BY <1>0, <1>15 DEF vars, Busy, Told
<1> QED
  BY <1>1, <1>2, <1>3, <1>4, <1>5, <1>6, <1>7, <1>8, <1>9, <1>10, <1>11, <1>12, <1>13, <1>14, <1>15
     DEF Next, RunStep, ActionStep

\* The scaler keeps every promise of Worker: the manager's view of Stop is right.
THEOREM ScalerImplementsWorker == Spec => ImplementsWorker
<1>1. Init => W!Init
  BY DEF Init, W!Init, Phase
<1> QED
  BY Inductive, WorkerStep, <1>1, PTL DEF Spec, ImplementsWorker, W!Spec

\* Once a caller of Stop was told, no action is in flight and none begins until
\* the scaler is started again: Worker promises it, so the scaler does.
THEOREM ToldMeansQuiet == Spec => []W!ToldIsQuiet
<1>1. W!Init => W!ToldIsQuiet
  BY DEF W!Init, W!ToldIsQuiet
<1>2. W!ToldIsQuiet /\ [W!Next]_(W!vars) => W!ToldIsQuiet'
  <2> SUFFICES ASSUME W!ToldIsQuiet, [W!Next]_(W!vars) PROVE (W!ToldIsQuiet)'
    OBVIOUS
  <2>1. (Told # {} => Phase = "ended") /\ (Phase = "ended" => Busy = {})
    BY DEF W!ToldIsQuiet, Told, Busy
  <2>2. \/ Phase' = Phase /\ Told' = Told /\ Busy' \subseteq Busy
        \/ Phase # "ended" /\ Phase' # "ended" /\ Told' = Told
        \/ Phase = "asked" /\ Told' = Told /\ Busy' = {}
        \/ Phase = "ended" /\ Phase' = "ended" /\ Busy' = Busy
        \/ Phase' # "ended" /\ Told' = {}
    BY DEF W!Next, W!vars, W!Begin, W!Finish, W!Ask, W!End, W!Tell, W!Revive, Told, Busy
  <2>3. Busy = {} /\ Busy' \subseteq Busy => Busy' = {}
    <3> HIDE DEF Busy
    <3> QED
      OBVIOUS
  <2>4. (Told' # {} => Phase' = "ended") /\ (Phase' = "ended" => Busy' = {})
    BY <2>1, <2>2, <2>3
  <2> QED
    BY <2>4 DEF W!ToldIsQuiet, Told, Busy
<1> QED
  BY <1>1, <1>2, ScalerImplementsWorker, PTL DEF ImplementsWorker, W!Spec
=============================================================================
