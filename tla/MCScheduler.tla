----------------------------- MODULE MCScheduler -----------------------------
(* Programs of two and three tasklets for Scheduler.  Each kind of program *)
(* puts together the calls that get in each other's way.                   *)
EXTENDS Scheduler

CONSTANTS t1, t2, t3, c1, c2

AnyPreference == {"RECEIVER", "SENDER", "NEITHER"}

(* Everything that tasklets do to each other by running and by messages.   *)
Nesting ==
  [nested |-> TRUE, start |-> <<t1, t2, t3>>, channels |-> {c1}, calls |-> 4,
   preferences |-> AnyPreference,
   ops |-> {"schedule", "run", "send", "send_exception", "receive", "nested_run",
            "tasklet_run", "raise"}]

(* Nested tasklets off: every operation on the queue.                      *)
Flat ==
  [nested |-> FALSE, start |-> <<t1, t2, t3>>, channels |-> {c1}, calls |-> 3,
   preferences |-> {"RECEIVER"},
   ops |-> {"run", "schedule", "schedule_remove", "insert", "remove", "setup",
            "raise", "TASKLET_LIMITED", "TIME_LIMITED", "send", "receive",
            "tasklet_run", "preference"}]

(* Tasklets that switch to, kill and throw into each other.                *)
Interrupting ==
  [nested |-> TRUE, start |-> <<t1, t2>>, channels |-> {c1}, calls |-> 3,
   preferences |-> AnyPreference,
   ops |-> {"run", "schedule", "send", "receive", "switch", "kill",
            "kill_pending", "throw", "throw_pending"}]

(* Tasklets that are killed where they wait, on one channel or on all.     *)
KillingAll ==
  [nested |-> TRUE, start |-> <<t1, t2>>, channels |-> {c1, c2}, calls |-> 4,
   preferences |-> {"RECEIVER"},
   ops |-> {"run", "receive", "kill_pending", "clear", "unblock_all"}]

(* Receives that are interrupted after the message has been handed over.   *)
LeavingBehind ==
  [nested |-> TRUE, start |-> <<t1, t2>>, channels |-> {c1}, calls |-> 5,
   preferences |-> {"SENDER"},
   ops |-> {"run", "send", "receive", "kill_pending"}]

(* Calls that are refused, and kills around them.                          *)
Refusing ==
  [nested |-> TRUE, start |-> <<t1, t2>>, channels |-> {c1}, calls |-> 3,
   preferences |-> {"RECEIVER"},
   ops |-> {"run", "schedule", "send", "receive", "kill", "switch_trap",
            "block_trap", "close", "open"}]

AllPrograms == {Nesting, Flat, Interrupting, KillingAll, LeavingBehind, Refusing}

=============================================================================
