------------------------------ MODULE Scheduler ------------------------------
(***************************************************************************)
(* One thread of carbon-scheduler: the ScheduleManager, its tasklets and   *)
(* the channels they meet on (src/src/ScheduleManager.cpp, Tasklet.cpp,    *)
(* Channel.cpp and the Python bindings), composed from RunQueue and        *)
(* Channel.                                                                *)
(*                                                                         *)
(* Every tasklet is a greenlet with a C stack of its own.  A call such as  *)
(* channel.send() runs C++ on the stack of the tasklet that made it, up to *)
(* a PyGreenlet_Switch; there the stack is left as it is, and the C++ goes *)
(* on from it when another greenlet switches back.  What C++ then finds is *)
(* not what it left, and that is where this code is hard.  The model keeps *)
(* these stacks: stack[t] holds a frame for every C++ function of t that   *)
(* is waiting for a callee, ctl says what the executing greenlet does      *)
(* next, and each action is the C++ between two calls.                     *)
(*                                                                         *)
(* The Python code of the tasklets is arbitrary: it makes any of the calls *)
(* of its program in any order, catches errors or not, and returns when it *)
(* likes.  The program bounds the number of calls of a behaviour.          *)
(***************************************************************************)
EXTENDS Integers, Sequences, FiniteSets

CONSTANTS
  Tasklets, Main, Null, Channels,
  Programs,     \* kinds of Python programs: how the manager is set up and what
                \* is called
  Limited       \* the limits that run_n_tasklets is called with

ASSUME SchedulerAssumption ==
  /\ IsFiniteSet(Tasklets)
  /\ Main \notin Tasklets /\ Null \notin Tasklets \cup {Main}
  /\ \A p \in Programs :
       /\ p.nested \in BOOLEAN        \* ScheduleManager::s_useNestedTasklets
       /\ p.start \in Seq(Tasklets)   \* set up before the behaviour starts
       /\ p.channels \subseteq Channels
       /\ p.preferences \subseteq {"RECEIVER", "SENDER", "NEITHER"}
       /\ p.calls \in Nat             \* how many calls of p.ops it makes
  /\ Limited \subseteq Nat \ {0}

VARIABLES
  q,            \* the run queue
  bl,           \* the blocked lists of the channels
  pref,         \* Channel::m_preference
  tk,           \* the other members of the tasklets
  gl,           \* the greenlets: state and parent (external)
  stack,        \* the C++ frames of each greenlet, innermost first
  active,       \* the greenlet that executes
  current,      \* ScheduleManager::m_currentTasklet
  ctl,          \* what the executing greenlet does next
  err,          \* the pending Python error, or "none"
  mgr,          \* run type, run limits and switch trap of the manager
  fuel,         \* how many calls are left
  program       \* the kind of Python program that runs

vars == <<q, bl, pref, tk, gl, stack, active, current, ctl, err, mgr, fuel, program>>

Nodes == Tasklets \cup {Main}

RQ == INSTANCE RunQueue WITH SelfRemove <- TRUE
CH == INSTANCE Channel WITH Blockers <- Nodes,
                            channelBlockedOn <- [t \in Nodes |-> tk[t].chan],
                            inside <- stack,
                            transferArguments <- [t \in Nodes |-> tk[t].args # Null]

-----------------------------------------------------------------------------
(* Tasklet::Tasklet, and what Setup leaves behind.                         *)
NewTasklet(isMain) ==
  [alive |-> isMain, blocked |-> FALSE, chan |-> Null, paused |-> FALSE,
   firstRun |-> TRUE, tagged |-> FALSE, remove |-> FALSE,
   killPending |-> FALSE, exc |-> "none", xfer |-> FALSE, args |-> Null,
   parent |-> Null, blocktrap |-> FALSE,
   left |-> FALSE]      \* kept for the property NoTransferOverwrite

Initialised(r) == [r EXCEPT !.alive = TRUE, !.paused = FALSE, !.firstRun = TRUE]

Unblock(ts, t)  == [ts EXCEPT ![t].blocked = FALSE, ![t].chan = Null]
Block(ts, t, c) == [ts EXCEPT ![t].blocked = TRUE, ![t].chan = c]

(* InsertTasklet and InsertTaskletToRunNext unblock what they link; the    *)
(* exchange of FRONT_PLUS_ONE links the front anew as well.                *)
UnblockedByInsert(ts, qu, t) == IF qu.scheduled[t] THEN ts ELSE Unblock(ts, t)

UnblockedByRequeue(ts, qu, t, p) ==
  LET front == qu.next[p]
  IN  CASE qu.resched[t] = "NONE" -> ts
        [] qu.resched[t] = "BACK" -> UnblockedByInsert(ts, qu, t)
        [] OTHER -> UnblockedByInsert(UnblockedByInsert(ts, qu, t),
                                      RQ!RemoveTasklet(qu, front), front)

(* SetTransferArguments and ClearTransferArguments.  What `left` says of a *)
(* message that stayed behind ends with the message.                       *)
SetTransferArguments(ts, t, m) == [ts EXCEPT ![t].args = m, ![t].left = FALSE]

(* Frames and control.                                                     *)
Python     == [op |-> "python"]
Yielding   == [op |-> "yield"]
Looping    == [op |-> "loop"]
Running(t) == [op |-> "run", start |-> t]
Switching(t) == [op |-> "switch", to |-> t]
TaskletRunning(t)   == [op |-> "taskletRun", to |-> t]
Killing(t, pending) == [op |-> "kill", to |-> t, pending |-> pending]
Clearing   == [op |-> "clear"]
Ret(ok)    == [op |-> "ret", ok |-> ok]
Received(m) == [op |-> "ret", ok |-> TRUE, got |-> m]

Top == Head(stack[active])
Returning(f) == ctl.op = "ret" /\ stack[active] # <<>> /\ Top.f = f

Push(f) == stack' = [stack EXCEPT ![active] = <<f>> \o @]
Pop     == stack' = [stack EXCEPT ![active] = Tail(@)]
Return(ok) == Pop /\ ctl' = Ret(ok)

-----------------------------------------------------------------------------
(* The greenlet library, as the C++ uses it.  Control that is sent to a    *)
(* dead greenlet lands on its nearest living ancestor.                     *)
Ancestor(parent, t, k) ==
  LET a[i \in 0 .. k] == IF i = 0 THEN t
                         ELSE IF a[i - 1] = Null THEN Null
                         ELSE parent[a[i - 1]]
  IN  a[k]

Depths == 0 .. Cardinality(Nodes)

(* The first node of S on the way up from t.                               *)
FirstUp(parent, t, S) ==
  LET k == CHOOSE k \in Depths :
             /\ Ancestor(parent, t, k) \in S
             /\ \A i \in 0 .. k - 1 : Ancestor(parent, t, i) \notin S
  IN  Ancestor(parent, t, k)

GreenletParents == [t \in Nodes |-> gl[t].parent]
TaskletParents  == [t \in Nodes |-> tk[t].parent]

LandsOn(g, t) ==
  FirstUp([n \in Nodes |-> g[n].parent], t, {n \in Nodes : g[n].state # "dead"})

(* PyGreenlet_SetParent fails on the main greenlet and on a cycle.         *)
CannotAdopt(t, p) ==
  t = Main \/ \E k \in Depths : Ancestor(GreenletParents, p, k) = t

(* Control goes to greenlet t, which starts or comes back from the switch  *)
(* that it was waiting in.                                                 *)
EnterGreenlet(g, t, ok) ==
  LET to == LandsOn(g, t)
  IN  /\ active' = to
      /\ gl' = [g EXCEPT ![to].state = "live"]
      /\ ctl' = IF g[to].state = "new" THEN Python ELSE Ret(ok)

-----------------------------------------------------------------------------
(* ScheduleManager::Yield.  The main tasklet runs the queue; any other     *)
(* tasklet switches to its parent.                                         *)
YieldDeadlock ==
  /\ ctl = Yielding /\ current = Main
  /\ tk[Main].blocked /\ q.next[Main] = Null
  /\ err' = "Deadlock" /\ ctl' = Ret(FALSE)
  /\ UNCHANGED <<q, bl, pref, tk, gl, stack, active, current, mgr, fuel, program>>

YieldMain ==
  /\ ctl = Yielding /\ current = Main
  /\ ~(tk[Main].blocked /\ q.next[Main] = Null)
  /\ Push([f |-> "yieldMain", blocked |-> tk[Main].blocked])
  /\ ctl' = Running(Null)
  /\ UNCHANGED <<q, bl, pref, tk, gl, active, current, err, mgr, fuel, program>>

(* Mutant: main goes on after Run, woken or not.                           *)
StillBlockedUnchecked(wasBlocked) == FALSE

StillBlocked(wasBlocked) == wasBlocked /\ tk[Main].blocked

YieldMainReturn ==
  /\ Returning("yieldMain")
  /\ LET stuck == ctl.ok /\ StillBlocked(Top.blocked)
     IN  /\ Return(ctl.ok /\ ~stuck)
         /\ err' = IF stuck THEN "Deadlock" ELSE err
  /\ UNCHANGED <<q, bl, pref, tk, gl, active, current, mgr, fuel, program>>

YieldToParent ==
  /\ ctl = Yielding /\ current # Main
  /\ Push([f |-> "yield", self |-> current])
  /\ ctl' = Switching(tk[current].parent)
  /\ UNCHANGED <<q, bl, pref, tk, gl, active, current, err, mgr, fuel, program>>

(* "guard against re-entry to this tasklet, if it is still blocked": a     *)
(* blocked tasklet that is given control passes it on to the nearest       *)
(* ancestor that is not blocked.                                           *)
MustPassOn(t) == tk[t].blocked

YieldReturn ==
  /\ Returning("yield")
  /\ LET self == Top.self
         runnable == {n \in Nodes : n = Main \/ ~tk[n].blocked}
     IN  IF ctl.ok /\ MustPassOn(self)
           THEN /\ ctl' = Switching(FirstUp(TaskletParents, tk[self].parent, runnable))
                /\ UNCHANGED stack
           ELSE Return(ctl.ok)
  /\ UNCHANGED <<q, bl, pref, tk, gl, active, current, err, mgr, fuel, program>>

-----------------------------------------------------------------------------
(* ScheduleManager::Run.  The loop starts behind the base tasklet, which   *)
(* is the current one, or the predecessor of the tasklet to start with.    *)
RunBegin ==
  /\ ctl.op = "run"
  /\ LET start == ctl.start
     IN  Push([f     |-> "run",
               base  |-> IF start = Null THEN current ELSE q.prev[start],
               end   |-> IF start = Null THEN Null ELSE q.tail,
               until |-> current = Main /\ tk[Main].blocked,
               cur   |-> Null, done |-> FALSE])
  /\ ctl' = Looping
  /\ UNCHANGED <<q, bl, pref, tk, gl, active, current, err, mgr, fuel, program>>

RunFinished ==
  LET cur == q.next[Top.base]
  IN  \/ cur = Null \/ Top.done
      \/ mgr.stop /\ current = Main
      \/ current = cur          \* "Stop cyclic parent chain error"

RunDone ==
  /\ ctl = Looping /\ RunFinished
  /\ Return(TRUE)
  /\ UNCHANGED <<q, bl, pref, tk, gl, active, current, err, mgr, fuel, program>>

RunCyclicParent ==
  /\ ctl = Looping /\ ~RunFinished
  /\ CannotAdopt(q.next[Top.base], current)
  /\ err' = "Error" /\ Return(FALSE)
  /\ UNCHANGED <<q, bl, pref, tk, gl, active, current, mgr, fuel, program>>

(* Mutant: the limit is checked before it is counted down.                 *)
LimitsCheckedFirst(m, late) ==
  CASE m.type = "TASKLET_LIMITED" ->
         [m EXCEPT !.limit = IF @ > 0 THEN @ - 1 ELSE @,
                   !.stop  = @ \/ m.limit <= 0]
    [] m.type = "TIME_LIMITED" /\ late ->
         IF m.skipped THEN [m EXCEPT !.stop = TRUE] ELSE [m EXCEPT !.skipped = TRUE]
    [] OTHER -> m

(* The run limits are tested on the main tasklet only.  The first test of  *)
(* the time limit never stops the run.                                     *)
Limits(m, late) ==
  CASE m.type = "TASKLET_LIMITED" ->
         [m EXCEPT !.limit = IF @ > 0 THEN @ - 1 ELSE @,
                   !.stop  = @ \/ m.limit <= 1]
    [] m.type = "TIME_LIMITED" /\ late ->
         IF m.skipped THEN [m EXCEPT !.stop = TRUE] ELSE [m EXCEPT !.skipped = TRUE]
    [] OTHER -> m

(* How many tasklets main has switched to since run_n_tasklets was called  *)
(* is kept in the frame, for the property LimitHonoured.                   *)
Counted(frames) ==
  IF frames # <<>> /\ Head(frames).f = "runLimited"
    THEN <<[Head(frames) EXCEPT !.ran = @ + 1]>> \o Tail(frames) ELSE frames

RunNext ==
  /\ ctl = Looping /\ ~RunFinished
  /\ LET cur == q.next[Top.base]
     IN  /\ ~CannotAdopt(cur, current)
         /\ gl' = [gl EXCEPT ![cur].parent = current]
         /\ tk' = [tk EXCEPT ![cur].parent = current]
         /\ stack' = [stack EXCEPT ![active] = <<[Top EXCEPT !.cur = cur]>> \o Counted(Tail(@))]
         /\ ctl' = Switching(cur)
  /\ \E late \in BOOLEAN :
       /\ late => mgr.type = "TIME_LIMITED"
       /\ mgr' = IF current = Main THEN Limits(mgr, late) ELSE mgr
  /\ UNCHANGED <<q, bl, pref, active, current, err, fuel, program>>

(* SetParent(nullptr): the greenlet goes back to the main greenlet.        *)
Orphan(g, t) == IF t = Main THEN g ELSE [g EXCEPT ![t].parent = Main]

(* SetCurrentTasklet( currentTasklet->GetParent() )                        *)
Resumes(cur) == tk[cur].parent

(* Control is back, without an error or with a TaskletExit, which ends     *)
(* here.  The tasklet leaves the queue, or goes to where it asked to be.   *)
RunReturn ==
  /\ Returning("run")
  /\ ctl.ok \/ err = "TaskletExit"
  /\ LET cur == Top.cur
         p   == tk[cur].parent
         u   == RQ!Unqueue(q, cur)
         ts  == [tk EXCEPT ![cur].exc = IF ctl.ok THEN @ ELSE "none"]
         ts2 == UnblockedByRequeue(ts, u, cur, p)
     IN  /\ err' = "none"
         /\ q' = RQ!Requeue(u, cur, p)
         /\ current' = Resumes(cur)
         /\ tk' = IF tk[cur].alive THEN ts2 ELSE [ts2 EXCEPT ![cur].parent = Null]
         /\ gl' = IF tk[cur].alive THEN gl ELSE Orphan(gl, cur)
         /\ stack' = [stack EXCEPT ![active] =
              <<[Top EXCEPT !.done = @ \/ cur = Top.end
                                        \/ (Top.until /\ ~tk[Main].blocked)]>>
              \o Tail(@)]
         /\ ctl' = Looping
  /\ UNCHANGED <<bl, pref, active, mgr, fuel, program>>

(* The switch failed: the error goes to the caller of Run.                 *)
RunFail ==
  /\ Returning("run")
  /\ ~ctl.ok /\ err # "TaskletExit"
  /\ LET cur  == Top.cur
         kept == ~tk[cur].remove
         out  == q.prev[cur] # q.next[cur]     \* RemoveTasklet returns true
     IN  /\ current' = IF kept THEN current ELSE tk[cur].parent
         /\ q' = IF kept THEN q ELSE RQ!RemoveTasklet(q, cur)
         /\ tk' = IF kept \/ out THEN [tk EXCEPT ![cur].parent = Null] ELSE tk
         /\ gl' = IF kept \/ out THEN Orphan(gl, cur) ELSE gl
  /\ Return(FALSE)
  /\ UNCHANGED <<bl, pref, active, err, mgr, fuel, program>>

-----------------------------------------------------------------------------
(* Tasklet::SwitchTo, up to PyGreenlet_Switch.                             *)
IsSwitchTrapped == mgr.trap # 0

SwitchTrapped ==
  /\ ctl.op = "switch" /\ IsSwitchTrapped
  /\ err' = "Error" /\ ctl' = Ret(FALSE)
  /\ UNCHANGED <<q, bl, pref, tk, gl, stack, active, current, mgr, fuel, program>>

(* An error waits for a tasklet that has never run: it does not start.     *)
RaisedBeforeStart(t) == tk[t].firstRun /\ tk[t].exc # "none"

SwitchStillborn ==
  /\ ctl.op = "switch" /\ ~IsSwitchTrapped
  /\ LET t == ctl.to
     IN  /\ RaisedBeforeStart(t)
         /\ IF tk[t].exc = "TaskletExit"
              THEN /\ tk' = [tk EXCEPT ![t].alive = FALSE]
                   /\ ctl' = Ret(TRUE)
                   /\ UNCHANGED err
              ELSE /\ err' = tk[t].exc
                   /\ tk' = [tk EXCEPT ![t].exc = "none", ![t].remove = TRUE]
                   /\ ctl' = Ret(FALSE)
  /\ UNCHANGED <<q, bl, pref, gl, stack, active, current, mgr, fuel, program>>

Switch ==
  /\ ctl.op = "switch" /\ ~IsSwitchTrapped
  /\ LET t == ctl.to
     IN  /\ ~RaisedBeforeStart(t)
         /\ current' = t
         /\ tk' = [tk EXCEPT ![t].paused = FALSE, ![t].firstRun = FALSE]
         /\ Push([f |-> "switchTo", this |-> t])
         /\ EnterGreenlet(gl, t, TRUE)
  /\ UNCHANGED <<q, bl, pref, err, mgr, fuel, program>>

(* Mutant: a tasklet that is being rescheduled is taken for finished.      *)
SeemsFinishedIgnoringReschedule(t) ==
  /\ t # Main
  /\ ~tk[t].blocked /\ ~tk[t].xfer /\ ~tk[t].paused /\ ~tk[t].tagged

(* The tasklet that was switched to is dead if nothing says otherwise.     *)
SeemsFinished(t) ==
  /\ t # Main
  /\ ~tk[t].blocked /\ ~tk[t].xfer /\ ~tk[t].paused /\ ~tk[t].tagged
  /\ q.resched[t] = "NONE"

(* SwitchTo, after PyGreenlet_Switch.  An error that was left for the      *)
(* tasklet that is current now is raised here, on its stack; otherwise the *)
(* state of the tasklet that was switched to is brought up to date.        *)
SwitchReturn ==
  /\ Returning("switchTo")
  /\ LET t == Top.this
     IN  IF tk[current].exc # "none"
           THEN /\ err' = tk[current].exc
                /\ tk' = [tk EXCEPT ![current].exc = "none"]
                /\ Return(FALSE)
           ELSE /\ tk' = [tk EXCEPT ![t].alive  = @ /\ ~SeemsFinished(t),
                                    ![t].paused = @ \/ tk[t].tagged,
                                    ![t].tagged = FALSE,
                                    ![t].remove = @ \/ ~ctl.ok]
                /\ Return(ctl.ok)
                /\ UNCHANGED err
  /\ UNCHANGED <<q, bl, pref, gl, active, current, mgr, fuel, program>>

-----------------------------------------------------------------------------
(* The calls of Python code.  All of them start at the Python level of the *)
(* executing greenlet, with no error pending.                              *)
Calls(op) ==
  /\ ctl = Python /\ err = "none"
  /\ op \in program.ops /\ fuel > 0
  /\ fuel' = fuel - 1 /\ UNCHANGED program

Raise(e) == err' = e /\ ctl' = Ret(FALSE)

(* scheduler.schedule() and scheduler.schedule_remove().                   *)
CallSchedule ==
  /\ Calls("schedule")
  /\ q' = RQ!SetReschedule(q, current, "BACK")
  /\ ctl' = Yielding
  /\ UNCHANGED <<bl, pref, tk, gl, stack, active, current, err, mgr>>

CallScheduleRemove ==
  /\ Calls("schedule_remove")
  /\ tk' = [tk EXCEPT ![current].tagged = TRUE]
  /\ ctl' = Yielding
  /\ UNCHANGED <<q, bl, pref, gl, stack, active, current, err, mgr>>

(* scheduler.run().  The main tasklet may always run what is queued, so    *)
(* that a behaviour does not end with tasklets that nobody runs.           *)
CallRun ==
  /\ \/ Calls(IF current = Main THEN "run" ELSE "nested_run")
     \/ /\ ctl = Python /\ err = "none" /\ active = Main
        /\ fuel = 0 /\ q.next[Main] # Null /\ mgr.trap = 0
        /\ UNCHANGED <<fuel, program>>
  /\ ctl' = Running(Null)
  /\ UNCHANGED <<q, bl, pref, tk, gl, stack, active, current, err, mgr>>

(* scheduler.run_n_tasklets(n) and ScheduleManager::RunTaskletsForTime.    *)
CallRunLimited(type, n) ==
  /\ Calls(IF current = Main THEN type ELSE "nested_run_limited")
  /\ mgr' = IF type = "TASKLET_LIMITED"
              THEN [mgr EXCEPT !.type = type, !.limit = n]
              ELSE [mgr EXCEPT !.type = type, !.skipped = FALSE]
  /\ Push([f |-> "runLimited", type |-> type, n |-> n, ran |-> 0])
  /\ ctl' = Running(Null)
  /\ UNCHANGED <<q, bl, pref, tk, gl, active, current, err>>

RunLimitedReturn ==
  /\ Returning("runLimited")
  /\ mgr' = [mgr EXCEPT !.type = "STANDARD", !.stop = FALSE, !.limit = -1]
  /\ Return(ctl.ok)
  /\ UNCHANGED <<q, bl, pref, tk, gl, active, current, err, fuel, program>>

(* scheduler.switch_trap(delta) and tasklet.block_trap = value.            *)
CallSwitchTrap(delta) ==
  /\ Calls("switch_trap")
  /\ mgr' = [mgr EXCEPT !.trap = @ + delta]
  /\ ctl' = Ret(TRUE)
  /\ UNCHANGED <<q, bl, pref, tk, gl, stack, active, current, err>>

CallBlockTrap(t, value) ==
  /\ Calls("block_trap")
  /\ tk' = [tk EXCEPT ![t].blocktrap = value]
  /\ ctl' = Ret(TRUE)
  /\ UNCHANGED <<q, bl, pref, gl, stack, active, current, err, mgr>>

(* tasklet.insert() and tasklet.remove().                                  *)
CallInsert(t) ==
  /\ Calls(IF q.scheduled[t] THEN "insert_queued" ELSE "insert")
  /\ IF tk[t].blocked \/ ~tk[t].alive
       THEN Raise("Error") /\ UNCHANGED <<q, tk>>
       ELSE /\ q' = RQ!InsertTasklet(q, t)
            /\ tk' = [UnblockedByInsert(tk, q, t) EXCEPT ![t].paused = FALSE]
            /\ ctl' = Ret(TRUE)
            /\ UNCHANGED err
  /\ UNCHANGED <<bl, pref, gl, stack, active, current, mgr>>

(* Executing(t): t is the current tasklet or one of its ancestors, which   *)
(* wait for it inside Run.                                                 *)
Executing(t) == \E k \in Depths : Ancestor(TaskletParents, current, k) = t

WaitsInside(t) == Executing(t) /\ t # current

CallRemove(t) ==
  /\ Calls(IF Executing(t) THEN "remove_executing" ELSE "remove")
  /\ q' = IF q.scheduled[t] THEN RQ!RemoveTasklet(q, t) ELSE q
  /\ tk' = [tk EXCEPT ![t].paused = @ \/ q.scheduled[t]]
  /\ ctl' = Ret(TRUE)
  /\ UNCHANGED <<bl, pref, gl, stack, active, current, err, mgr>>

(* A dead tasklet is bound to a callable again and set up: Bind, Setup,    *)
(* Initialise, SetAlive and Insert.                                        *)
CallBindAndSetup(t) ==
  /\ Calls("setup")
  /\ ~tk[t].alive /\ gl[t].state # "live" /\ ~tk[t].blocked
  /\ gl' = [gl EXCEPT ![t] = [state |-> "new", parent |-> active]]
  /\ q' = RQ!InsertTasklet(q, t)
  /\ tk' = [UnblockedByInsert(tk, q, t) EXCEPT ![t] = Initialised(@)]
  /\ ctl' = Ret(TRUE)
  /\ UNCHANGED <<bl, pref, stack, active, current, err, mgr>>

-----------------------------------------------------------------------------
(* Tasklet::Run.  Nested: the queue is run from this tasklet to its        *)
(* present end, on the stack of the caller.  Flat: the tasklet is put next *)
(* in line, and the caller yields and comes second.                        *)
UseNestedTasklets == program.nested

CallTaskletRun(t) ==
  /\ Calls(IF t = current /\ ~program.nested THEN "run_self_flat" ELSE "tasklet_run")
  /\ ctl' = TaskletRunning(t)
  /\ UNCHANGED <<q, bl, pref, tk, gl, stack, active, current, err, mgr>>

TaskletRun ==
  /\ ctl.op = "taskletRun"
  /\ LET t == ctl.to
         u == IF q.scheduled[t] THEN RQ!RemoveTasklet(q, t) ELSE q
     IN  IF ~tk[t].alive \/ tk[t].blocked
           THEN Raise("Error") /\ UNCHANGED <<q, tk>>
           ELSE /\ UNCHANGED err
                /\ IF UseNestedTasklets
                     THEN /\ q' = IF q.scheduled[t] THEN q ELSE RQ!InsertTasklet(q, t)
                          /\ tk' = UnblockedByInsert(tk, q, t)
                          /\ ctl' = Running(t)
                     ELSE /\ q' = RQ!SetReschedule(
                                    RQ!InsertTaskletToRunNext(u, t, current),
                                    current, "FRONT_PLUS_ONE")
                          /\ tk' = UnblockedByInsert(tk, u, t)
                          /\ ctl' = Yielding
  /\ UNCHANGED <<bl, pref, gl, stack, active, current, mgr, fuel, program>>

(* tasklet.switch(): pause the caller and run from this tasklet.           *)
CallSwitch(t) ==
  /\ Calls("switch")
  /\ IF ~tk[t].alive \/ tk[t].blocked
       THEN Raise("Error") /\ UNCHANGED <<q, tk, stack>>
       ELSE /\ tk' = [UnblockedByInsert(tk, q, t) EXCEPT ![current].paused = TRUE]
            /\ q' = IF q.scheduled[t] THEN q ELSE RQ!InsertTasklet(q, t)
            /\ Push([f |-> IF q.scheduled[t] THEN "switchQueued" ELSE "switchNew"])
            /\ ctl' = Running(t)
            /\ UNCHANGED err
  /\ UNCHANGED <<bl, pref, gl, active, current, mgr>>

SwitchQueuedReturn ==
  /\ Returning("switchQueued")
  /\ IF ctl.ok
       THEN Pop /\ ctl' = Yielding /\ UNCHANGED tk
       ELSE Return(FALSE) /\ tk' = [tk EXCEPT ![current].paused = FALSE]
  /\ UNCHANGED <<q, bl, pref, gl, active, current, err, mgr, fuel, program>>

SwitchNewReturn ==
  /\ Returning("switchNew")
  /\ tk' = [tk EXCEPT ![current].paused = FALSE]
  /\ Return(ctl.ok)
  /\ UNCHANGED <<q, bl, pref, gl, active, current, err, mgr, fuel, program>>

-----------------------------------------------------------------------------
(* Tasklet::Kill.                                                          *)
CallKill(t, pending) ==
  /\ Calls(IF WaitsInside(t) THEN "interrupt_ancestor"
           ELSE IF pending THEN "kill_pending" ELSE "kill")
  /\ ctl' = Killing(t, pending)
  /\ UNCHANGED <<q, bl, pref, tk, gl, stack, active, current, err, mgr>>

(* Dead already, or "kill is already pending".                             *)
KillNothing ==
  /\ ctl.op = "kill"
  /\ ~tk[ctl.to].alive \/ tk[ctl.to].killPending
  /\ ctl' = Ret(TRUE)
  /\ UNCHANGED <<q, bl, pref, tk, gl, stack, active, current, err, mgr, fuel, program>>

Killable == ctl.op = "kill" /\ tk[ctl.to].alive /\ ~tk[ctl.to].killPending

KillSelf ==
  /\ Killable /\ ctl.to = current
  /\ tk' = [Unblock(tk, current) EXCEPT ![current].exc = "none"]
  /\ Raise("TaskletExit")
  /\ UNCHANGED <<q, bl, pref, gl, stack, active, current, mgr, fuel, program>>

QueueForKill(qu, t) == RQ!SetReschedule(RQ!InsertTasklet(qu, t), t, "NONE")

KillLater ==
  /\ Killable /\ ctl.to # current /\ ctl.pending
  /\ LET t == ctl.to
     IN  /\ q' = QueueForKill(q, t)
         /\ tk' = [Unblock(tk, t) EXCEPT ![t].exc = "TaskletExit",
                                         ![t].killPending = TRUE]
         /\ bl' = IF tk[t].blocked
                    THEN CH!RemoveTaskletFromBlocked(bl, tk[t].chan, t) ELSE bl
  /\ ctl' = Ret(TRUE)
  /\ UNCHANGED <<pref, gl, stack, active, current, err, mgr, fuel, program>>

KillNow ==
  /\ Killable /\ ctl.to # current /\ ~ctl.pending
  /\ LET t == ctl.to
     IN  /\ tk' = [Unblock(tk, t) EXCEPT ![t].exc = "TaskletExit"]
         /\ q' = RQ!SetReschedule(q, t, "NONE")
         /\ Push([f |-> "interrupt", tgt |-> t,
                  chan |-> IF tk[t].blocked THEN tk[t].chan ELSE Null])
         /\ ctl' = TaskletRunning(t)
  /\ UNCHANGED <<bl, pref, gl, active, current, err, mgr, fuel, program>>

(* On failure "Set tasklet back to original blocked state".                *)
InterruptReturn ==
  /\ Returning("interrupt")
  /\ tk' = IF ctl.ok \/ Top.chan = Null THEN tk ELSE Block(tk, Top.tgt, Top.chan)
  /\ Return(ctl.ok)
  /\ UNCHANGED <<q, bl, pref, gl, active, current, err, mgr, fuel, program>>

(* Tasklet::ThrowException, for TaskletExit and for any other error.       *)
CallThrow(t, e, pending) ==
  /\ Calls(IF WaitsInside(t) THEN "interrupt_ancestor"
           ELSE IF pending THEN "throw_pending" ELSE "throw")
  /\ \/ /\ t = current
        /\ Raise(e)
        /\ tk' = [tk EXCEPT ![t].exc = "none"]
        /\ UNCHANGED <<q, stack>>
     \/ /\ t # current /\ ~tk[t].alive /\ (pending \/ ~tk[t].blocked)
        /\ tk' = [tk EXCEPT ![t].exc = "none"]
        /\ IF e = "TaskletExit" THEN ctl' = Ret(TRUE) /\ UNCHANGED err ELSE Raise("Error")
        /\ UNCHANGED <<q, stack>>
     \/ /\ t # current /\ tk[t].alive /\ pending
        /\ q' = RQ!InsertTasklet(q, t)
        /\ tk' = [UnblockedByInsert(tk, q, t) EXCEPT ![t].exc = e]
        /\ ctl' = Ret(TRUE)
        /\ UNCHANGED <<err, stack>>
     \/ /\ t # current /\ ~pending /\ (tk[t].alive \/ tk[t].blocked)
        /\ tk' = [Unblock(tk, t) EXCEPT ![t].exc = e]
        /\ Push([f |-> "interrupt", tgt |-> t,
                 chan |-> IF tk[t].blocked THEN tk[t].chan ELSE Null])
        /\ ctl' = TaskletRunning(t)
        /\ UNCHANGED <<q, err>>
  /\ UNCHANGED <<bl, pref, gl, active, current, mgr>>

-----------------------------------------------------------------------------
(* Channel::Send and Channel::Receive.  A message is identified by the     *)
(* fuel that was left when it was sent.                                    *)
Message(isError) == [id |-> fuel, error |-> isError]

(* The peer that has been matched becomes runnable, next or last, and the  *)
(* tasklet that did it yields if the preference is the peer's.             *)
Wake(qu, peer, preferred) ==
  IF preferred
    THEN RQ!SetReschedule(RQ!InsertTaskletToRunNext(qu, peer, current), current, "BACK")
    ELSE RQ!InsertTasklet(qu, peer)

MayNotBlock(c) == tk[current].blocktrap \/ CH!Refuses(bl, c)

(* Send gives up with the transfer flag still set.                         *)
SendRefused(c) ==
  /\ CH!NextBlocked(bl, c, "RECEIVER") = Null
  /\ MayNotBlock(c)
  /\ tk' = [tk EXCEPT ![current].xfer = TRUE]
  /\ Raise("Error")
  /\ UNCHANGED <<q, bl, stack>>

SendBlocks(c, m) ==
  /\ CH!NextBlocked(bl, c, "RECEIVER") = Null
  /\ ~MayNotBlock(c)
  /\ bl' = CH!UpdateCloseState(CH!AddTaskletToWaiting(bl, c, "SENDER", current), c)
  /\ tk' = SetTransferArguments([Block(tk, current, c) EXCEPT ![current].xfer = TRUE],
                                current, m)
  /\ Push([f |-> "sendBlocked", chan |-> c, self |-> current])
  /\ ctl' = Yielding
  /\ UNCHANGED <<q, err>>

SendMatches(c, m) ==
  LET peer      == CH!NextBlocked(bl, c, "RECEIVER")
      preferred == pref[c] = "RECEIVER"
  IN  /\ peer # Null
      /\ bl' = CH!UpdateCloseState(CH!RemoveTaskletFromBlocked(bl, c, peer), c)
      /\ tk' = SetTransferArguments([Unblock(tk, peer) EXCEPT ![current].xfer = preferred],
                                    peer, m)
      /\ q' = Wake(q, peer, preferred)
      /\ IF preferred
           THEN /\ Push([f |-> "sendYielded", chan |-> c, self |-> current])
                /\ ctl' = Yielding
           ELSE ctl' = Ret(TRUE) /\ UNCHANGED stack
      /\ UNCHANGED err

CallSend(c, isError) ==
  /\ Calls(IF isError THEN "send_exception" ELSE "send")
  /\ LET m == Message(isError)
     IN  SendRefused(c) \/ SendBlocks(c, m) \/ SendMatches(c, m)
  /\ UNCHANGED <<pref, gl, active, current, mgr>>

(* A transfer that went well: SetTransferInProgress( false ).              *)
EndTransfer(ts, t) == [ts EXCEPT ![t].xfer = FALSE]

(* Mutant: the error path leaves the tasklet on the channel's list.        *)
GiveUpStaysListed(b, c, t) == CH!UpdateCloseState(b, c)

(* The error path of a blocked Send or Receive.                            *)
GiveUp(b, c, t) == CH!UpdateCloseState(CH!RemoveTaskletFromBlocked(b, c, t), c)

Abandon(ts, t) ==
  SetTransferArguments([Unblock(ts, t) EXCEPT ![t].xfer = FALSE], t, Null)

SendBlockedReturn ==
  /\ Returning("sendBlocked")
  /\ LET self == Top.self
         c    == Top.chan
     IN  IF ctl.ok
           THEN /\ tk' = EndTransfer(tk, self)
                /\ bl' = CH!UpdateCloseState(bl, c)
           ELSE /\ tk' = Abandon(tk, self)
                /\ bl' = GiveUp(bl, c, self)
  /\ Return(ctl.ok)
  /\ UNCHANGED <<q, pref, gl, active, current, err, mgr, fuel, program>>

(* A failed Schedule returns with the transfer flag still set.             *)
SendYieldedReturn ==
  /\ Returning("sendYielded")
  /\ tk' = IF ctl.ok THEN EndTransfer(tk, Top.self) ELSE tk
  /\ bl' = CH!UpdateCloseState(bl, Top.chan)
  /\ Return(ctl.ok)
  /\ UNCHANGED <<q, pref, gl, active, current, err, mgr, fuel, program>>

(* Mutant: what was received is kept.                                      *)
TakeKeeps(ts, t) == [ts EXCEPT ![t].xfer = FALSE]

(* The message leaves the tasklet: ClearTransferArguments, and the end of  *)
(* the transfer.                                                           *)
Take(ts, t) == SetTransferArguments([ts EXCEPT ![t].xfer = FALSE], t, Null)

(* The end of Receive: an error that was sent is raised, a value returned. *)
CompleteReceive(ts, b, c, self) ==
  LET m == ts[self].args
  IN  /\ tk' = Take(ts, self)
      /\ IF m # Null /\ m.error
           THEN /\ err' = "Error" /\ ctl' = Ret(FALSE)
                /\ bl' = CH!UpdateCloseState(b, c)
           ELSE /\ ctl' = Received(m) /\ bl' = b
                /\ UNCHANGED err

ReceiveRefused(c) ==
  /\ CH!NextBlocked(bl, c, "SENDER") = Null
  /\ MayNotBlock(c)
  /\ bl' = CH!RemoveTaskletFromBlocked(
             CH!AddTaskletToWaiting(bl, c, "RECEIVER", current), c, current)
  /\ tk' = [tk EXCEPT ![current].xfer = FALSE]
  /\ Raise("Error")
  /\ UNCHANGED <<q, stack>>

ReceiveBlocks(c) ==
  /\ CH!NextBlocked(bl, c, "SENDER") = Null
  /\ ~MayNotBlock(c)
  /\ bl' = CH!UpdateCloseState(CH!AddTaskletToWaiting(bl, c, "RECEIVER", current), c)
  /\ tk' = [Block(tk, current, c) EXCEPT ![current].xfer = TRUE]
  /\ Push([f |-> "receiveBlocked", chan |-> c, self |-> current])
  /\ ctl' = Yielding
  /\ UNCHANGED <<q, err>>

(* The message of the blocked sender goes to the receiver.                 *)
HandOver(ts, from, to) ==
  SetTransferArguments(
    SetTransferArguments([ts EXCEPT ![from].xfer = FALSE, ![to].xfer = TRUE],
                         to, ts[from].args),
    from, Null)

ReceiveMatches(c) ==
  LET peer      == CH!NextBlocked(bl, c, "SENDER")
      preferred == pref[c] = "SENDER"
      b         == CH!UpdateCloseState(CH!RemoveTaskletFromBlocked(bl, c, peer), c)
      ts        == HandOver(Unblock(tk, peer), peer, current)
  IN  /\ peer # Null
      /\ q' = Wake(q, peer, preferred)
      /\ IF preferred
           THEN /\ Push([f |-> "receiveYielded", chan |-> c, self |-> current])
                /\ ctl' = Yielding
                /\ tk' = ts /\ bl' = b /\ UNCHANGED err
           ELSE CompleteReceive(ts, b, c, current) /\ UNCHANGED stack

CallReceive(c) ==
  /\ Calls("receive")
  /\ ReceiveRefused(c) \/ ReceiveBlocks(c) \/ ReceiveMatches(c)
  /\ UNCHANGED <<pref, gl, active, current, mgr>>

ReceiveBlockedReturn ==
  /\ Returning("receiveBlocked")
  /\ LET self == Top.self
         c    == Top.chan
     IN  IF ctl.ok
           THEN CompleteReceive(tk, bl, c, self)
           ELSE /\ bl' = GiveUp(bl, c, self)
                /\ tk' = Abandon(tk, self)
                /\ ctl' = Ret(FALSE)
                /\ UNCHANGED err
  /\ Pop
  /\ UNCHANGED <<q, pref, gl, active, current, mgr, fuel, program>>

(* A failed Schedule returns with the message and the transfer flag still  *)
(* in the tasklet.                                                         *)
ReceiveYieldedReturn ==
  /\ Returning("receiveYielded")
  /\ IF ctl.ok
       THEN CompleteReceive(tk, bl, Top.chan, Top.self)
       ELSE /\ bl' = CH!UpdateCloseState(bl, Top.chan)
            /\ ctl' = Ret(FALSE)
            /\ tk' = [tk EXCEPT ![Top.self].left = TRUE]
            /\ UNCHANGED err
  /\ Pop
  /\ UNCHANGED <<q, pref, gl, active, current, mgr, fuel, program>>

(* channel.close(), open() and preference.                                 *)
CallClose(c) ==
  /\ Calls("close")
  /\ bl' = CH!CloseChannel(bl, c) /\ ctl' = Ret(TRUE)
  /\ UNCHANGED <<q, pref, tk, gl, stack, active, current, err, mgr>>

CallOpen(c) ==
  /\ Calls("open")
  /\ bl' = CH!OpenChannel(bl, c) /\ ctl' = Ret(TRUE)
  /\ UNCHANGED <<q, pref, tk, gl, stack, active, current, err, mgr>>

CallPreference(c, p) ==
  /\ Calls("preference")
  /\ pref' = [pref EXCEPT ![c] = p] /\ ctl' = Ret(TRUE)
  /\ UNCHANGED <<q, bl, tk, gl, stack, active, current, err, mgr>>

(* channel.clear() and scheduler.unblock_all_channels(): kill the blocked  *)
(* tasklets of each channel, first the receivers until there are none,     *)
(* then the senders.  What a kill returns is ignored; an error that it     *)
(* left pending surfaces when the call returns.                            *)
ClearFrame(c, S) == [f |-> "clear", chan |-> c, side |-> "RECEIVER", rest |-> S \ {c}]

CallClear(S) ==
  /\ tk[Main].chan \notin S      \* Run(main) would follow main's null m_previous
  /\ \E c \in S : Push(ClearFrame(c, S)) /\ ctl' = Clearing
  /\ UNCHANGED <<q, bl, pref, tk, gl, active, current, err, mgr>>

CallUnblockAll ==
  /\ Calls("unblock_all")
  /\ CallClear({c \in Channels : bl.balance[c] # 0})

ClearBlocked ==
  /\ ctl = Clearing \/ Returning("clear")
  /\ LET t == CH!NextBlocked(bl, Top.chan, Top.side)
         Becomes(f) == stack' = [stack EXCEPT ![active] = <<f>> \o Tail(@)]
     IN  \/ /\ t # Null
            /\ ctl' = Killing(t, FALSE)
            /\ UNCHANGED stack
         \/ /\ t = Null /\ Top.side = "RECEIVER"
            /\ Becomes([Top EXCEPT !.side = "SENDER"])
            /\ ctl' = Clearing
         \/ /\ t = Null /\ Top.side = "SENDER" /\ Top.rest = {}
            /\ Return(err = "none")
         \/ /\ t = Null /\ Top.side = "SENDER"
            /\ \E c \in Top.rest : Becomes(ClearFrame(c, Top.rest))
            /\ ctl' = Clearing
  /\ UNCHANGED <<q, bl, pref, tk, gl, active, current, err, mgr, fuel, program>>

-----------------------------------------------------------------------------
(* Python code between calls: a call has returned to it, it catches an     *)
(* error or raises one, or it ends and its greenlet with it.               *)
CallReturns ==
  /\ ctl.op = "ret" /\ stack[active] = <<>>
  /\ ctl' = Python
  /\ UNCHANGED <<q, bl, pref, tk, gl, stack, active, current, err, mgr, fuel, program>>

Catch ==
  /\ ctl = Python /\ err # "none"
  /\ err' = "none"
  /\ UNCHANGED <<q, bl, pref, tk, gl, stack, active, current, ctl, mgr, fuel, program>>

PythonRaises ==
  /\ Calls("raise") /\ active # Main
  /\ err' = "Error"
  /\ UNCHANGED <<q, bl, pref, tk, gl, stack, active, current, ctl, mgr>>

Finish ==
  /\ ctl = Python /\ active # Main
  /\ EnterGreenlet([gl EXCEPT ![active].state = "dead"], active, err = "none")
  /\ UNCHANGED <<q, bl, pref, tk, stack, current, err, mgr, fuel, program>>

(* The program is over when main has nothing left to do.                   *)
Terminated ==
  /\ ctl = Python /\ err = "none" /\ active = Main
  /\ fuel = 0 /\ (q.next[Main] = Null \/ mgr.trap # 0)
  /\ UNCHANGED vars

-----------------------------------------------------------------------------
(* The state after main has set up the tasklets of its program.            *)
Init ==
  /\ program \in Programs
  /\ q = LET f[i \in 0 .. Len(program.start)] ==
               IF i = 0 THEN RQ!EmptyQueue ELSE RQ!InsertTasklet(f[i - 1], program.start[i])
         IN  f[Len(program.start)]
  /\ bl = CH!EmptyLists
  /\ \E p \in [program.channels -> program.preferences] :
       pref = [c \in Channels |-> IF c \in program.channels THEN p[c] ELSE "RECEIVER"]
  /\ tk = [t \in Nodes |->
             IF \E i \in DOMAIN program.start : program.start[i] = t
               THEN Initialised(NewTasklet(FALSE)) ELSE NewTasklet(t = Main)]
  /\ gl = [t \in Nodes |->
             IF t = Main THEN [state |-> "live", parent |-> Null]
             ELSE [state |-> "new", parent |-> Main]]
  /\ stack = [t \in Nodes |-> <<>>]
  /\ active = Main /\ current = Main
  /\ ctl = Python /\ err = "none"
  /\ mgr = [type |-> "STANDARD", limit |-> -1, stop |-> FALSE, skipped |-> FALSE, trap |-> 0]
  /\ fuel = program.calls

(* The tasklets that the program has.                                      *)
Known == {program.start[i] : i \in DOMAIN program.start}

ManagerCalls ==
  \/ CallSchedule \/ CallScheduleRemove \/ CallRun
  \/ \E n \in Limited : CallRunLimited("TASKLET_LIMITED", n)
  \/ CallRunLimited("TIME_LIMITED", 0)
  \/ \E delta \in {-1, 1} : CallSwitchTrap(delta)

TaskletCalls ==
  \/ \E t \in Known \cup {Main}, value \in BOOLEAN : CallBlockTrap(t, value)
  \/ \E t \in Known :
       \/ CallInsert(t) \/ CallRemove(t) \/ CallBindAndSetup(t)
       \/ CallTaskletRun(t) \/ CallSwitch(t)
       \/ \E pending \in BOOLEAN :
            CallKill(t, pending) \/ \E e \in {"TaskletExit", "Error"} : CallThrow(t, e, pending)

ChannelCalls ==
  \/ CallUnblockAll
  \/ \E c \in program.channels :
       \/ \E isError \in BOOLEAN : CallSend(c, isError)
       \/ CallReceive(c) \/ CallClose(c) \/ CallOpen(c)
       \/ Calls("clear") /\ CallClear({c})
       \/ \E p \in {"RECEIVER", "SENDER", "NEITHER"} : CallPreference(c, p)

ManagerSteps ==
  \/ YieldDeadlock \/ YieldMain \/ YieldMainReturn \/ YieldToParent \/ YieldReturn
  \/ RunBegin \/ RunDone \/ RunCyclicParent \/ RunNext \/ RunReturn \/ RunFail
  \/ RunLimitedReturn

TaskletSteps ==
  \/ SwitchTrapped \/ SwitchStillborn \/ Switch \/ SwitchReturn
  \/ TaskletRun \/ SwitchQueuedReturn \/ SwitchNewReturn
  \/ KillNothing \/ KillSelf \/ KillLater \/ KillNow \/ InterruptReturn

ChannelSteps ==
  \/ SendBlockedReturn \/ SendYieldedReturn
  \/ ReceiveBlockedReturn \/ ReceiveYieldedReturn \/ ClearBlocked

PythonSteps == CallReturns \/ Catch \/ PythonRaises \/ Finish

Next ==
  \/ ManagerCalls \/ TaskletCalls \/ ChannelCalls
  \/ ManagerSteps \/ TaskletSteps \/ ChannelSteps \/ PythonSteps
  \/ Terminated

Spec == Init /\ [][Next]_vars

(* The thread keeps executing.                                             *)
FairSpec == Spec /\ WF_vars(Next)

-----------------------------------------------------------------------------
(* Python code executes, and no C++ is under way on top of it.             *)
AtPython == ctl = Python

Makes(ops) == program.ops \cap ops # {}

(* The calls after which the queue is not well-formed any more (README,    *)
(* section 6): remove() on a tasklet that executes, and with nested        *)
(* tasklets off run() on the caller itself, on a tasklet that waits for    *)
(* the caller after its switch() or nested run, or under a switch trap.    *)
BreaksQueue ==
  \/ Makes({"remove_executing", "run_self_flat"})
  \/ ~program.nested /\ Makes({"tasklet_run"})
                      /\ Makes({"switch", "nested_run", "switch_trap"})

(* The run queue stays a well-formed list with the right end and length    *)
(* while tasklets insert, remove, run, kill and message each other, also   *)
(* while Run frames on several stacks hold pointers into it                *)
(* (ScheduleManager.cpp:423-628).  Not in programs that make the calls of  *)
(* BreaksQueue.                                                            *)
QueueWellFormed ==
  ~BreaksQueue => RQ!LinksAgree /\ RQ!TailIsEnd /\ RQ!CountIsScheduled /\ RQ!CountsAgree

(* tasklet.blocked: "True when a tasklet is blocked on a channel"          *)
(* (PyTasklet.cpp:678).  The flag, the channel's list and its balance      *)
(* agree whenever Python code can look.  Not where it throws: what         *)
(* ThrowException leaves behind is in the README.                          *)
BlockedIsListed ==
  AtPython /\ ~Makes({"throw", "throw_pending"}) =>
    /\ \A t \in Nodes : tk[t].blocked <=> bl.dir[t] # "NEITHER"
    /\ CH!BalanceCountsBlocked /\ CH!BlockedLinksAgree

(* tasklet.alive: "True while a tasklet is still running"                  *)
(* (PyTasklet.cpp:672).  SwitchTo guesses the flag from five others        *)
(* (Tasklet.cpp:427).  With nested tasklets off it never takes a tasklet   *)
(* for dead that has started and not ended; in the default, nested mode it *)
(* does (README, section 6), and the property says nothing there.          *)
UnfinishedIsAlive ==
  AtPython /\ ~program.nested =>
    \A t \in Tasklets : gl[t].state = "live" => tk[t].alive

(* A send that blocked returns only after its message has been taken, a    *)
(* receive only with a message (Channel.cpp:82, :201), whoever switched to *)
(* the waiting tasklet in between.                                         *)
WokenByTransfer ==
  /\ Returning("sendBlocked") /\ ctl.ok => tk[Top.self].args = Null
  /\ Returning("receiveBlocked") /\ ctl.ok => tk[Top.self].args # Null
  /\ "got" \in DOMAIN ctl => ctl.got # Null

(* Somebody will run it, it waits on a channel, it has been set aside on   *)
(* purpose, or it waits for a tasklet that executes.                       *)
Reachable(t) == q.scheduled[t] \/ tk[t].blocked \/ tk[t].paused \/ Executing(t)

(* No tasklet is lost: one that has started and not ended can be reached.  *)
(* PyTasklet.cpp:726: paused is True "when a tasklet is alive, but not     *)
(* scheduled or blocked on a channel".  A caller of switch() can be lost   *)
(* (see the README).                                                       *)
NoneLost ==
  AtPython /\ ~Makes({"switch"}) =>
    \A t \in Tasklets : gl[t].state = "live" => Reachable(t)

(* SetTransferArguments never overwrites a message, the case that the code *)
(* reports as "TRANSFER ARGS BROKEN" (Tasklet.cpp:664-672), with one       *)
(* exception: a receive that had its message, yielded to the sender and    *)
(* was interrupted there leaves the message in its tasklet                 *)
(* (Channel.cpp:259-264), where the next transfer overwrites it.           *)
NoTransferOverwrite ==
  [][\A t \in Nodes : tk[t].args # Null /\ ~tk[t].left
                       => tk'[t].args \in {tk[t].args, Null}]_vars

(* run_n_tasklets: "Run scheduler limited to n number of Tasklets"         *)
(* (SchedulerModule.cpp:1072): main switches to no more than n of them,    *)
(* unless one of them makes a limited run of its own, which lifts the      *)
(* limit (ScheduleManager.cpp:414).                                        *)
LimitHonoured ==
  ~Makes({"nested_run_limited"}) =>
  \A t \in Nodes : \A i \in DOMAIN stack[t] :
    stack[t][i].f = "runLimited" /\ stack[t][i].type = "TASKLET_LIMITED"
      => stack[t][i].ran <= stack[t][i].n

(* No call loops forever: with finitely many calls made, the main tasklet  *)
(* executes again and again.  The re-entry loop of Yield repeats until     *)
(* somebody else makes progress.  channel.clear() is excepted: ClearBlocked*)
(* (Channel.cpp:532-545) can loop on a tasklet that Kill does not reach.   *)
ControlReturns ==
  ~Makes({"clear", "unblock_all"}) => []<>(AtPython /\ active = Main)

=============================================================================
