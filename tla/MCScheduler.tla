----------------------------- MODULE MCScheduler -----------------------------
(* Scheduler for TLC: occurrences between the ticks and at a tick.           *)
EXTENDS Scheduler

CONSTANTS k1, k2

Occurring(S) == [occ |-> S, every |-> 0]
Every(n) == [occ |-> {}, every |-> n]

\* One schedule that goes on beyond the clock beside one that is never due; and an
\* '@every' shorter than the interval.
MCCrons ==
  {[from |-> Occurring({3, 7, 12}), to |-> Occurring({})],
   [from |-> Occurring({14}), to |-> Every(1)]}

\* Not active at the first tick, and expired when the last one is slow.
MCDates == {[from |-> 2, to |-> 8]}
=============================================================================
