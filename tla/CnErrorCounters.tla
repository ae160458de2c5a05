-------------------------- MODULE CnErrorCounters --------------------------
(***************************************************************************)
(* The DLL error counters of a Controlled Node                             *)
(* (frame/error/counters.rs, frame/error/manager.rs): one 8:1 threshold    *)
(* counter per kind of error.  Crc, Collision and SoCJitter have counters  *)
(* too, but nothing in the library raises them, so they stay at 0 and are  *)
(* left out.  The cumulative counts are write-only and left out as well.   *)
(* Pure operators over a counter valuation c \in [CnError -> Nat].         *)
(***************************************************************************)
EXTENDS Integers, Sequences

CnError == { "LossOfSoc", "LossOfSoa", "LossOfPreq", "HeartbeatTimeout" }

\* ThresholdCounter::increment adds 8; CnErrorCounters::new sets every
\* threshold to 15.
Penalty   == 8
Threshold == 15

\* ThresholdCounter::check_and_reset after an increment.
ReachesThreshold(c, e) == c[e] + Penalty >= Threshold

\* CnErrorCounters::handle_error for the errors of one DLL event, as the
\* loops in node/cn/events.rs and node/cn/tick.rs run it: the loop returns at
\* the first error that reaches its threshold, so later errors are not
\* counted.  The errors of one event are of different kinds.
ReachedAt(c, errs) == { i \in DOMAIN errs : ReachesThreshold(c, errs[i]) }

HandledAt(c, errs) == { i \in DOMAIN errs : \A j \in ReachedAt(c, errs) : i <= j }

\* The error that reached its threshold: it is signalled and forces the NMT
\* Error event.  At most one element.
Signalled(c, errs) == { errs[i] : i \in ReachedAt(c, errs) \cap HandledAt(c, errs) }

\* The counters after the loop.
HandleErrors(c, errs) ==
  [e \in CnError |->
     IF \E i \in HandledAt(c, errs) : errs[i] = e
       THEN IF ReachesThreshold(c, e) THEN 0 ELSE c[e] + Penalty
       ELSE c[e]]

\* ThresholdCounter::decrement on every counter.
OnCycleComplete(c) == [e \in CnError |-> IF c[e] > 0 THEN c[e] - 1 ELSE 0]

IsAnyActive(c) == \E e \in CnError : c[e] > 0

\* What on_cycle_complete returns: the last active counter became inactive.
AllErrorsCleared(c) == IsAnyActive(c) /\ ~IsAnyActive(OnCycleComplete(c))
=============================================================================
