SPECIFICATION DequeSpec
CONSTANTS
  Users = {u1, u2, u3}
  MaxSends = 3
  Threads = {TRUE, FALSE}
INVARIANTS NobodyWaitsOnOneThread QueueKeepsOrder EachMessageOnce
CHECK_DEADLOCK FALSE
