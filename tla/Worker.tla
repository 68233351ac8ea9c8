------------------------------- MODULE Worker -------------------------------
(***************************************************************************)
(* What a worker promises to the manager that starts and stops it          *)
(* (startScaler, stopScaler, save and rebalance of                         *)
(* pkg/autoscaler/manager.go): actions begin while the worker lives, it    *)
(* ends only when it was asked to and all its actions are over, and a      *)
(* caller of Stop is told so only then.  Locks, channels, time and alerts  *)
(* are left to the implementation.                                         *)
(***************************************************************************)

CONSTANTS
  Actions,   \* what the worker may do
  Stoppers   \* who may ask it to end

VARIABLES
  phase,  \* running, asked to end, or ended
  busy,   \* the actions in flight
  told    \* the stoppers that know of the end

vars == <<phase, busy, told>>

Init == phase = "running" /\ busy = {} /\ told = {}

\* A round of actions begins; rounds do not overlap.
Begin ==
  /\ phase # "ended" /\ busy = {}
  /\ busy' = Actions
  /\ UNCHANGED <<phase, told>>

Finish(a) ==
  /\ a \in busy
  /\ busy' = busy \ {a}
  /\ UNCHANGED <<phase, told>>

Ask ==
  /\ phase = "running"
  /\ phase' = "asked"
  /\ UNCHANGED <<busy, told>>

End ==
  /\ phase = "asked" /\ busy = {}
  /\ phase' = "ended"
  /\ UNCHANGED <<busy, told>>

Tell(s) ==
  /\ phase = "ended"
  /\ told' = told \union {s}
  /\ UNCHANGED <<phase, busy>>

\* The manager starts the worker again, with nothing of its earlier life left.
Revive ==
  /\ phase = "ended"
  /\ phase' = "running" /\ told' = {}
  /\ UNCHANGED busy

Next ==
  \/ Begin \/ Ask \/ End \/ Revive
  \/ \E a \in Actions : Finish(a)
  \/ \E s \in Stoppers : Tell(s)

Spec == Init /\ [][Next]_vars

\* Whoever was told of the end may hand the worker over or start it elsewhere:
\* no action is in flight and none begins before the manager revives it.
ToldIsQuiet ==
  /\ told # {} => phase = "ended"
  /\ phase = "ended" => busy = {}
=============================================================================
