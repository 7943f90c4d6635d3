--------------------------- MODULE BenchmarkDriver ---------------------------
(***************************************************************************)
(* What run_workload of src/src/main.cxx promises about one benchmark run, *)
(* stated without BatchKeys, global_curr_key, the counters or the profile  *)
(* rounds.  The run goes through four stages: the initial load, the timed  *)
(* run, the shutdown and the end.  Keys are inserted only while loading,   *)
(* by main, or while running, by a worker still in its loop; a worker that *)
(* passed its loop test just before the shutdown inserts once more after   *)
(* it, and no other worker does.  With sequential keys every key is new.   *)
(* The workers are all started at once when the run begins, none leaves   *)
(* before the shutdown or with an insert pending, and the run ends only    *)
(* when every worker has left.                                             *)
(***************************************************************************)
EXTENDS Integers, Sequences

CONSTANTS
  Workers,     \* the worker threads
  KeySpace,    \* the keys an insert may use
  Unique       \* TRUE: no key is inserted twice

VARIABLES
  keys,        \* the keys inserted so far, in order
  stage,       \* "load", "run", "stop" or "done"
  busy,        \* the workers started and not yet out of their loop
  pending      \* after the shutdown: the workers with one insert left

vars == <<keys, stage, busy, pending>>

\* k has not been inserted yet, where keys must be unique.
Fresh(k) == Unique => \A i \in 1..Len(keys) : keys[i] # k

\* The step appends one key to keys: a key of KeySpace, and a fresh one
\* where keys must be unique.
AppendsKey ==
  /\ Len(keys') = Len(keys) + 1
  /\ LET k == keys'[Len(keys')]
     IN  keys' = Append(keys, k) /\ k \in KeySpace /\ Fresh(k)

Init ==
  /\ keys = <<>>
  /\ stage = "load"
  /\ busy = {}
  /\ pending = {}

\* An insert of the initial load.
LoadInsert ==
  /\ stage = "load"
  /\ AppendsKey
  /\ UNCHANGED <<stage, busy, pending>>

\* The load is over; every worker is started and the run begins.
Start ==
  /\ stage = "load"
  /\ stage' = "run"
  /\ busy' = Workers
  /\ UNCHANGED <<keys, pending>>

\* An insert by worker w during the run.
WorkerInsert(w) ==
  /\ stage = "run"
  /\ w \in busy
  /\ AppendsKey
  /\ UNCHANGED <<stage, busy, pending>>

\* The shutdown is announced.  Some of the busy workers may be past their
\* test of it, each with one insert still to make.
Shutdown ==
  /\ stage = "run"
  /\ stage' = "stop"
  /\ pending' \in SUBSET busy
  /\ UNCHANGED <<keys, busy>>

\* The one insert a worker makes after the shutdown, if it was past its
\* test when the shutdown came.
LateInsert(w) ==
  /\ stage = "stop"
  /\ w \in pending
  /\ AppendsKey
  /\ pending' = pending \ {w}
  /\ UNCHANGED <<stage, busy>>

\* Worker w, with no insert pending, sees the shutdown and leaves its loop.
Leave(w) ==
  /\ stage = "stop"
  /\ w \in busy \ pending
  /\ busy' = busy \ {w}
  /\ UNCHANGED <<keys, stage, pending>>

\* Every worker has left: the run is over.
Finish ==
  /\ stage = "stop"
  /\ busy = {}
  /\ stage' = "done"
  /\ UNCHANGED <<keys, busy, pending>>

Next ==
  \/ LoadInsert
  \/ Start
  \/ \E w \in Workers : WorkerInsert(w)
  \/ Shutdown
  \/ \E w \in Workers : LateInsert(w)
  \/ \E w \in Workers : Leave(w)
  \/ Finish

Spec == Init /\ [][Next]_vars

=============================================================================
