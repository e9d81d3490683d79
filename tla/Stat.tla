------------------------------- MODULE Stat -------------------------------
(***************************************************************************)
(* One stat (src/stats/stat.js): a queue of operations that a timer, more  *)
(* urgent the longer the queue, applies all at once.  Operations are       *)
(* counted, not told apart; the moving averages computed from them are     *)
(* left out.  Time goes in ticks, the unit of Timeout.                     *)
(***************************************************************************)
EXTENDS Naturals

CONSTANTS
  MaxQueue,  \* computeThrottleMaxQueueSize
  Timeout    \* computeThrottleTimeout

ASSUME ThrottleAssumption ==
  /\ MaxQueue \in Nat \ {0}
  /\ Timeout \in Nat

(* queued: operations in _queue; applied: those counted in _stats; armed,   *)
(* due: the timer and its ticks left; age: ticks that the oldest operation  *)
(* has been queued, or that processing has been started again.              *)
Fresh == [queued |-> 0, applied |-> 0, armed |-> FALSE, due |-> 0, age |-> 0]

Total(s) == s.queued + s.applied

(* Mutant: a queue that is too long counts as no urgency. *)
NextTimeoutLax(n) == Timeout

NextTimeout(n) ==
  IF n >= MaxQueue THEN 0 ELSE (Timeout * (MaxQueue - n)) \div MaxQueue

ResetComputeTimeout(s) ==
  [s EXCEPT !.armed = TRUE, !.due = NextTimeout(s.queued)]

Push(s) == ResetComputeTimeout([s EXCEPT !.queued = @ + 1])

Start(s) ==
  IF s.queued = 0 THEN s ELSE ResetComputeTimeout([s EXCEPT !.age = 0])

Stop(s) == [s EXCEPT !.armed = FALSE, !.due = 0]

(* Mutant: the operations that are applied stay in the queue. *)
UpdateKeepsQueue(s) == [Fresh EXCEPT !.queued = s.queued, !.applied = Total(s)]

(* _update: applies the whole queue. *)
Update(s) == [Fresh EXCEPT !.applied = Total(s)]

IsDue(s) == s.armed /\ s.due = 0

Ticked(s) ==
  IF s.armed THEN [s EXCEPT !.due = @ - 1, !.age = @ + 1] ELSE s

(* The sum of the timeouts for 1 .. MaxQueue operations: the delay of an    *)
(* operation whose queue grows by one just before each timeout.             *)
LongestDelay == (Timeout * (MaxQueue - 1)) \div 2
=============================================================================
