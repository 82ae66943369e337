------------------------------ MODULE ApplyRun ------------------------------
(***************************************************************************)
(* The apply phase (internal/application/apply): RunService.Execute, one   *)
(* goroutine per group (runAllGroups, runTeamLead), one per task           *)
(* (runImplementWithRetry), the DAG coordinator, the quota breaker, the    *)
(* build loop, the spawn governor and the tables apply_boards, groups,     *)
(* tasks and spawn_governor_state.                                         *)
(*                                                                         *)
(* phase.Service may call Execute several times for one phase id: Resume   *)
(* after a blocked run or a crash, and Resume of a row that is still       *)
(* running.  An executor is one such call; it works on an in-memory copy   *)
(* of the board (board, group, task) and writes it back row by row.        *)
(* Execute runs on a background context, so only the quota breaker cancels *)
(* it: tripped[e] also says that e's context is cancelled, and then every  *)
(* later statement of e on the database fails.                             *)
(*                                                                         *)
(* Waiting is a choice of outcome: a group waiting for a dependency may    *)
(* time out at any time, and a client of a full governor may run out of    *)
(* its saturation retries.                                                 *)
(***************************************************************************)
EXTENDS ApplyAggregate

CONSTANTS
  Executors,             \* concurrent calls of Execute
  Groups, Tasks,         \* the tasks list of the change
  GroupOf,               \* [Tasks -> Groups]
  RowSeq,                \* groups and tasks in the order buildBoard saves them
  Plans,                 \* [deps : [Groups -> Seq(Groups)], invalid : SUBSET Groups]
  MaxParallelGroups, MaxParallelImplements,
  MaxSlots,              \* Spawn.Max
  Others,                \* governor clients outside the apply phase
  Threshold,             \* QuotaBreakerThreshold
  Fallback,              \* FallbackModel is configured
  MaxExecutes, MaxCrashes, MaxFaults   \* bounds

ASSUME RunAssumption ==
  /\ Groups \cap Tasks = {}
  /\ GroupOf \in [Tasks -> Groups]
  /\ RowSeq \in Seq(Groups \cup Tasks)
  /\ \A i \in 1 .. Len(RowSeq) : RowSeq[i] \in Tasks =>
       \E j \in 1 .. i - 1 : RowSeq[j] = GroupOf[RowSeq[i]]   \* a group precedes its tasks
  /\ Plans \subseteq [ deps : [Groups -> Seq(Groups)], invalid : SUBSET Groups ]
  /\ "other" \notin Executors
  /\ MaxSlots \in Nat
  /\ Threshold \in Nat \ {0}
  /\ Fallback \in BOOLEAN

VARIABLES
  active,                      \* spawn_governor_state.active_count
  others,                      \* the other clients that hold a slot
  boardRow, groupRow, taskRow, \* the tables
  plan,                        \* the tasks list in memory-engine
  epc, next,                   \* where Execute is; the row buildBoard saves next
  board, group, task,          \* the in-memory board of each executor
  gpc, pos, res, chan,         \* group goroutines, their dependency and outcome,
                               \*   and the channels of the DAG coordinator
  tpc, got, out,               \* task goroutines, what their dispatch returned,
                               \*   and their outcome
  streak, tripped,             \* the quota breaker
  env,                         \* the envelope Execute returned last
  delivered,                   \* groups copied to TargetPath
  executes, crashes, faults,
  succeeded, tries, finished   \* history: tasks an agent succeeded with, answers
                               \*   of agents per task, groups that a team lead
                               \*   ended with all their work done

governor == << active, others >>
tables   == << boardRow, groupRow, taskRow >>
memory   == << board, group, task >>
groupVars == << gpc, pos, res, chan >>
taskVars  == << tpc, got, out >>
breaker   == << streak, tripped >>
returned  == << env, delivered >>
bounds    == << executes, crashes >>
history   == << succeeded, tries, finished >>

vars == << governor, tables, plan, epc, next, memory, groupVars, taskVars,
           breaker, returned, bounds, faults, history >>

-----------------------------------------------------------------------------
OnBoard(e, g) == group[e][g].status # "absent"

TasksOn(e, g) == { t \in Tasks : GroupOf[t] = g /\ task[e][t].status # "absent" }

Holding == {"start", "tasks", "detect", "build", "repair", "finish", "end"}

(* groupSem and implSem are held from the slot taken to the goroutine's    *)
(* end.                                                                    *)
InGroupSem(e) == { g \in Groups : gpc[e][g] \in Holding \cup {"acquire"} }

InImplSem(e, g) ==
  { t \in Tasks : GroupOf[t] = g /\ tpc[e][t] \notin {"off", "sem", "over"} }

(* The clients that hold a slot.  A team lead holds one for as long as its *)
(* group works; the fallback and repair dispatches take none.              *)
Holders ==
  { p \in Executors \X Groups : gpc[p[1]][p[2]] \in Holding }
    \cup { p \in Executors \X Tasks : tpc[p[1]][p[2]] \in {"run", "release"} }
    \cup { << "other", o >> : o \in others }

DBFault == faults < MaxFaults /\ faults' = faults + 1

(* Does a statement of e on the database succeed?                          *)
DbOk(e) == ~tripped[e] /\ UNCHANGED faults

DbErr(e) == (tripped[e] /\ UNCHANGED faults) \/ (~tripped[e] /\ DBFault)

(* SaveGroup and SaveTask where the code logs the error and goes on.       *)
SaveGroup(e, g, val) ==
  \/ DbOk(e) /\ groupRow' = [groupRow EXCEPT ![g] = val]
  \/ DbErr(e) /\ UNCHANGED groupRow

SaveTask(e, t, val) ==
  \/ DbOk(e) /\ taskRow' = [taskRow EXCEPT ![t] = val]
  \/ DbErr(e) /\ UNCHANGED taskRow

(* SpawnGovernorRepo.Release, bounded at 0; the slot is lost on an error.  *)
ReleaseSlot(e) ==
  \/ DbOk(e) /\ active' = IF active > 0 THEN active - 1 ELSE 0
  \/ DbErr(e) /\ UNCHANGED active

(* Mutant: a retried Acquire is counted twice.                             *)
TakesSlotTwice(e) == ~tripped[e] /\ active + 1 < MaxSlots /\ active' = active + 2 /\ UNCHANGED faults

(* Acquire under the retries of acquireWithSaturationRetries: a slot, or   *)
(* the saturation lasts longer than the retries, or an error.              *)
TakesSlot(e) == ~tripped[e] /\ active < MaxSlots /\ active' = active + 1 /\ UNCHANGED faults

NoSlot(e) ==
  /\ \/ active >= MaxSlots /\ UNCHANGED faults
     \/ DbErr(e)
  /\ UNCHANGED active

-----------------------------------------------------------------------------
Init ==
  /\ active = 0 /\ others = {}
  /\ boardRow = "absent"
  /\ groupRow = [ g \in Groups |-> NoGroup ]
  /\ taskRow = [ t \in Tasks |-> NoTask ]
  /\ plan \in Plans
  /\ epc = [ e \in Executors |-> "idle" ]
  /\ next = [ e \in Executors |-> 1 ]
  /\ board = [ e \in Executors |-> "absent" ]
  /\ group = [ e \in Executors |-> [ g \in Groups |-> NoGroup ] ]
  /\ task = [ e \in Executors |-> [ t \in Tasks |-> NoTask ] ]
  /\ gpc = [ e \in Executors |-> [ g \in Groups |-> "off" ] ]
  /\ pos = [ e \in Executors |-> [ g \in Groups |-> 1 ] ]
  /\ res = [ e \in Executors |-> [ g \in Groups |-> "none" ] ]
  /\ chan = [ e \in Executors |-> [ g \in Groups |-> "empty" ] ]
  /\ tpc = [ e \in Executors |-> [ t \in Tasks |-> "off" ] ]
  /\ got = [ e \in Executors |-> [ t \in Tasks |-> "none" ] ]
  /\ out = [ e \in Executors |-> [ t \in Tasks |-> "none" ] ]
  /\ streak = [ e \in Executors |-> 0 ]
  /\ tripped = [ e \in Executors |-> FALSE ]
  /\ env = [ e \in Executors |-> "none" ]
  /\ delivered = {}
  /\ executes = 0 /\ crashes = 0 /\ faults = 0
  /\ succeeded = {} /\ tries = [ t \in Tasks |-> 0 ] /\ finished = {}

-----------------------------------------------------------------------------
(* Execute: the synchronous part.                                          *)

Called(e) == epc[e] = "idle" /\ executes < MaxExecutes /\ executes' = executes + 1

(* failEnv.                                                                *)
ReturnBlocked(e) ==
  epc' = [epc EXCEPT ![e] = "idle"] /\ env' = [env EXCEPT ![e] = "blocked"]

(* Goroutines, channels, results and the breaker are local to the call.    *)
FreshCall(e) ==
  /\ next' = [next EXCEPT ![e] = 1]
  /\ gpc' = [gpc EXCEPT ![e] = [ g \in Groups |-> "off" ]]
  /\ pos' = [pos EXCEPT ![e] = [ g \in Groups |-> 1 ]]
  /\ res' = [res EXCEPT ![e] = [ g \in Groups |-> "none" ]]
  /\ chan' = [chan EXCEPT ![e] = [ g \in Groups |-> "empty" ]]
  /\ tpc' = [tpc EXCEPT ![e] = [ t \in Tasks |-> "off" ]]
  /\ got' = [got EXCEPT ![e] = [ t \in Tasks |-> "none" ]]
  /\ out' = [out EXCEPT ![e] = [ t \in Tasks |-> "none" ]]
  /\ streak' = [streak EXCEPT ![e] = 0]
  /\ tripped' = [tripped EXCEPT ![e] = FALSE]

(* The tasks list or the prior context cannot be loaded.                   *)
LoadFails(e) ==
  /\ Called(e)
  /\ ReturnBlocked(e)
  /\ UNCHANGED << governor, tables, plan, next, memory, groupVars, taskVars,
                  breaker, delivered, crashes, faults >>

(* FindBoardByPhaseID: an existing board is reused as it is stored; an     *)
(* error of the lookup is taken for "no board".                            *)
Execute(e) ==
  /\ Called(e)
  /\ FreshCall(e)
  /\ env' = [env EXCEPT ![e] = "none"]
  /\ \/ /\ boardRow # "absent"
        /\ board' = [board EXCEPT ![e] = boardRow]
        /\ group' = [group EXCEPT ![e] = groupRow]
        /\ task' = [task EXCEPT ![e] = taskRow]
        /\ epc' = [epc EXCEPT ![e] = "worktrees"]
        /\ UNCHANGED faults
     \/ /\ \/ boardRow = "absent" /\ UNCHANGED faults
           \/ boardRow # "absent" /\ DBFault
        /\ board' = [board EXCEPT ![e] = "building"]
        /\ group' = [group EXCEPT ![e] = [ g \in Groups |-> NoGroup ]]
        /\ task' = [task EXCEPT ![e] = [ t \in Tasks |-> NoTask ]]
        /\ epc' = [epc EXCEPT ![e] = "new"]
  /\ UNCHANGED << governor, tables, plan, delivered, crashes >>

(* The first SaveBoard; phase_id is unique.                                *)
SaveNewBoard(e) ==
  /\ epc[e] = "new"
  /\ \/ /\ boardRow = "absent" /\ UNCHANGED faults
        /\ boardRow' = "building"
        /\ epc' = [epc EXCEPT ![e] = "rows"]
        /\ UNCHANGED env
     \/ /\ (boardRow # "absent" /\ UNCHANGED faults) \/ DBFault
        /\ ReturnBlocked(e)
        /\ UNCHANGED boardRow
  /\ UNCHANGED << governor, groupRow, taskRow, plan, next, memory, groupVars,
                  taskVars, breaker, delivered, bounds >>

(* NewTask refuses an empty description or pattern, ValidateDAG a cycle    *)
(* among the groups added so far.                                          *)
RejectsGroup(e, g) ==
  \/ g \in plan.invalid
  \/ HasCycle(plan.deps, { h \in Groups : OnBoard(e, h) } \cup {g})

(* One row of buildBoard.  The rows saved before a failure stay.           *)
BuildRow(e) ==
  LET r == RowSeq[next[e]]
  IN  /\ epc[e] = "rows"
      /\ next[e] <= Len(RowSeq)
      /\ \/ /\ r \in Groups /\ ~RejectsGroup(e, r) /\ UNCHANGED faults
            /\ group' = [group EXCEPT ![e][r] = NewGroup]
            /\ groupRow' = [groupRow EXCEPT ![r] = NewGroup]
            /\ next' = [next EXCEPT ![e] = @ + 1]
            /\ UNCHANGED << task, taskRow, epc, env >>
         \/ /\ r \in Tasks /\ UNCHANGED faults
            /\ task' = [task EXCEPT ![e][r] = NewTask]
            /\ taskRow' = [taskRow EXCEPT ![r] = NewTask]
            /\ next' = [next EXCEPT ![e] = @ + 1]
            /\ UNCHANGED << group, groupRow, epc, env >>
         \/ /\ (r \in Groups /\ RejectsGroup(e, r) /\ UNCHANGED faults) \/ DBFault
            /\ ReturnBlocked(e)
            /\ UNCHANGED << task, taskRow, group, groupRow, next >>
  /\ UNCHANGED << governor, boardRow, plan, board, groupVars, taskVars, breaker,
                  delivered, bounds >>

BoardBuilt(e) ==
  /\ epc[e] = "rows" /\ next[e] > Len(RowSeq)
  /\ epc' = [epc EXCEPT ![e] = "worktrees"]
  /\ UNCHANGED << governor, tables, plan, next, memory, groupVars, taskVars,
                  breaker, returned, bounds, faults >>

(* createWorktrees writes every group back with its worktree path; errors  *)
(* of the runtime are only reported.                                       *)
CreateWorktrees(e) ==
  /\ epc[e] = "worktrees"
  /\ \/ /\ groupRow' = [ g \in Groups |-> IF OnBoard(e, g) THEN group[e][g] ELSE groupRow[g] ]
        /\ epc' = [epc EXCEPT ![e] = "begin"]
        /\ UNCHANGED << env, faults >>
     \/ DBFault /\ ReturnBlocked(e) /\ UNCHANGED groupRow
  /\ UNCHANGED << governor, boardRow, taskRow, plan, next, memory, groupVars,
                  taskVars, breaker, delivered, bounds >>

(* A building board is started and saved; then one goroutine per group.    *)
StartBoard(e) ==
  /\ epc[e] = "begin"
  /\ \/ /\ IF board[e] = "building"
           THEN /\ board' = [board EXCEPT ![e] = "running"]
                /\ boardRow' = "running"
           ELSE UNCHANGED << board, boardRow >>
        /\ epc' = [epc EXCEPT ![e] = "groups"]
        /\ gpc' = [gpc EXCEPT ![e] =
                     [ g \in Groups |-> IF OnBoard(e, g) THEN "wait" ELSE "off" ]]
        /\ UNCHANGED << env, faults >>
     \/ /\ board[e] = "building" /\ DBFault
        /\ board' = [board EXCEPT ![e] = "running"]
        /\ ReturnBlocked(e)
        /\ UNCHANGED << boardRow, gpc >>
  /\ UNCHANGED << governor, groupRow, taskRow, plan, next, group, task, pos, res,
                  chan, taskVars, breaker, delivered, bounds >>

-----------------------------------------------------------------------------
(* runAllGroups: the goroutine of a group.                                 *)

At(e, g, pc) == gpc[e][g] = pc

(* The goroutine is over; Signal puts its outcome on the group's channel.  *)
SignalOver(e, g, failed) ==
  /\ chan' = [chan EXCEPT ![e][g] = failed]
  /\ gpc' = [gpc EXCEPT ![e][g] = "over"]

(* A group that a previous call completed is not run again.                *)
SkipCompleted(e, g) ==
  /\ At(e, g, "wait")
  /\ group[e][g].status = "completed"
  /\ res' = [res EXCEPT ![e][g] = "ok"]
  /\ SignalOver(e, g, "ok")
  /\ UNCHANGED << governor, tables, plan, epc, next, memory, pos, taskVars,
                  breaker, returned, bounds, faults >>

DepsOf(g) == plan.deps[g]

Waiting(e, g) == At(e, g, "wait") /\ group[e][g].status # "completed"

AwaitedDep(e, g) == DepsOf(g)[pos[e][g]]

(* Wait takes the dependencies in order, each from a channel of capacity   *)
(* one.                                                                    *)
ReceiveDep(e, g) ==
  /\ Waiting(e, g)
  /\ pos[e][g] <= Len(DepsOf(g))
  /\ LET d == AwaitedDep(e, g)
     IN  /\ OnBoard(e, d)
         /\ chan[e][d] # "empty"
         /\ gpc' = [gpc EXCEPT ![e][g] = IF chan[e][d] = "ok" THEN "relayOk" ELSE "relayFailed"]
         /\ chan' = [chan EXCEPT ![e][d] = "empty"]
  /\ UNCHANGED << governor, tables, plan, epc, next, memory, pos, res, taskVars,
                  breaker, returned, bounds, faults >>

(* Mutant: only a failure is published again.                              *)
RepublishFailure(e, g) ==
  LET d == AwaitedDep(e, g)
  IN  /\ \/ /\ At(e, g, "relayOk")
            /\ UNCHANGED chan
            /\ pos' = [pos EXCEPT ![e][g] = @ + 1]
            /\ gpc' = [gpc EXCEPT ![e][g] = "wait"]
         \/ /\ At(e, g, "relayFailed")
            /\ chan' = [chan EXCEPT ![e][d] = "failed"]
            /\ gpc' = [gpc EXCEPT ![e][g] = "sem"]
            /\ UNCHANGED pos
      /\ UNCHANGED << governor, tables, plan, epc, next, memory, res, taskVars,
                      breaker, returned, bounds, faults >>

(* The received signal is published again for the other dependents.  At    *)
(* the first failed dependency Wait returns ErrGroupFailed and the group   *)
(* runs all the same (degraded).                                           *)
Republish(e, g) ==
  LET d == AwaitedDep(e, g)
  IN  /\ \/ /\ At(e, g, "relayOk")
            /\ chan' = [chan EXCEPT ![e][d] = "ok"]
            /\ pos' = [pos EXCEPT ![e][g] = @ + 1]
            /\ gpc' = [gpc EXCEPT ![e][g] = "wait"]
         \/ /\ At(e, g, "relayFailed")
            /\ chan' = [chan EXCEPT ![e][d] = "failed"]
            /\ gpc' = [gpc EXCEPT ![e][g] = "sem"]
            /\ UNCHANGED pos
      /\ UNCHANGED << governor, tables, plan, epc, next, memory, res, taskVars,
                      breaker, returned, bounds, faults >>

(* Mutant: a group may start while a dependency has not signalled.         *)
DepsReceivedEarly(e, g) ==
  /\ Waiting(e, g)
  /\ pos[e][g] >= Len(DepsOf(g))
  /\ gpc' = [gpc EXCEPT ![e][g] = "sem"]
  /\ UNCHANGED << governor, tables, plan, epc, next, memory, pos, res, chan,
                  taskVars, breaker, returned, bounds, faults >>

DepsReceived(e, g) ==
  /\ Waiting(e, g)
  /\ pos[e][g] > Len(DepsOf(g))
  /\ gpc' = [gpc EXCEPT ![e][g] = "sem"]
  /\ UNCHANGED << governor, tables, plan, epc, next, memory, pos, res, chan,
                  taskVars, breaker, returned, bounds, faults >>

(* Unknown dependency, cancelled context or timeout, which select may pick *)
(* although the signal is there.                                           *)
WaitFails(e, g) ==
  /\ Waiting(e, g)
  /\ pos[e][g] <= Len(DepsOf(g))
  /\ res' = [res EXCEPT ![e][g] = "failed"]
  /\ SignalOver(e, g, "failed")
  /\ UNCHANGED << governor, tables, plan, epc, next, memory, pos, taskVars,
                  breaker, returned, bounds, faults >>

(* groupSem; a cancelled group signals and records no outcome.             *)
EnterGroupSem(e, g) ==
  /\ At(e, g, "sem")
  /\ \/ /\ Cardinality(InGroupSem(e)) < MaxParallelGroups
        /\ gpc' = [gpc EXCEPT ![e][g] = "acquire"]
        /\ UNCHANGED chan
     \/ tripped[e] /\ SignalOver(e, g, "failed")
  /\ UNCHANGED << governor, tables, plan, epc, next, memory, pos, res, taskVars,
                  breaker, returned, bounds, faults >>

(* The team lead's own slot.                                               *)
AcquireTeamLead(e, g) ==
  /\ At(e, g, "acquire")
  /\ \/ /\ TakesSlot(e)
        /\ gpc' = [gpc EXCEPT ![e][g] = "start"]
        /\ UNCHANGED << res, chan >>
     \/ /\ NoSlot(e)
        /\ res' = [res EXCEPT ![e][g] = "failed"]
        /\ SignalOver(e, g, "failed")
  /\ UNCHANGED << others, tables, plan, epc, next, memory, pos, taskVars, breaker,
                  returned, bounds >>

-----------------------------------------------------------------------------
(* runTeamLead.  res carries the outcome that the goroutine records in the *)
(* results map when runTeamLead returns; the map is read after all of them *)
(* are over.                                                               *)

Fails(e, g, pc) ==
  res' = [res EXCEPT ![e][g] = "failed"] /\ gpc' = [gpc EXCEPT ![e][g] = pc]

(* group.Start refuses a group that is not pending.  The session of the    *)
(* team lead is saved after the group.                                     *)
StartTeamLead(e, g) ==
  /\ At(e, g, "start")
  /\ \/ /\ ~CanStartGroup(group[e][g])
        /\ Fails(e, g, "end")
        /\ UNCHANGED << groupRow, group, tpc, faults >>
     \/ /\ CanStartGroup(group[e][g]) /\ DbOk(e)
        /\ group' = [group EXCEPT ![e][g] = StartGroup(@)]
        /\ groupRow' = [groupRow EXCEPT ![g] = group'[e][g]]
        /\ gpc' = [gpc EXCEPT ![e][g] = "tasks"]
        /\ tpc' = [tpc EXCEPT ![e] =
                     [ t \in Tasks |-> IF t \in TasksOn(e, g) THEN "sem" ELSE tpc[e][t] ]]
        /\ UNCHANGED res
     \/ /\ CanStartGroup(group[e][g]) /\ DbErr(e)
        /\ group' = [group EXCEPT ![e][g] = StartGroup(@)]
        /\ \/ UNCHANGED groupRow
           \/ ~tripped[e] /\ groupRow' = [groupRow EXCEPT ![g] = group'[e][g]]
        /\ Fails(e, g, "end")
        /\ UNCHANGED tpc
  /\ UNCHANGED << governor, boardRow, taskRow, plan, epc, next, board, task, pos,
                  chan, got, out, breaker, returned, bounds >>

TasksOver(e, g) == \A t \in TasksOn(e, g) : tpc[e][t] = "over"

(* Mutant: a task whose goroutine recorded FALSE is overlooked.            *)
AggregateNoFailure(e, g) ==
  /\ At(e, g, "tasks") /\ TasksOver(e, g)
  /\ gpc' = [gpc EXCEPT ![e][g] = "detect"]
  /\ UNCHANGED << governor, tables, plan, epc, next, memory, pos, res, chan,
                  taskVars, breaker, returned, bounds, faults >>

(* After the task goroutines: one FALSE in taskOutcomes fails the group.   *)
Aggregate(e, g) ==
  /\ At(e, g, "tasks") /\ TasksOver(e, g)
  /\ IF \E t \in TasksOn(e, g) : out[e][t] = "false"
     THEN Fails(e, g, "finish")
     ELSE gpc' = [gpc EXCEPT ![e][g] = "detect"] /\ UNCHANGED res
  /\ UNCHANGED << governor, tables, plan, epc, next, memory, pos, chan, taskVars,
                  breaker, returned, bounds, faults >>

(* runGroupBuildFeedbackLoop: without a manifest, or when it cannot be     *)
(* detected, the build is skipped (SkipBuild accepts: a group that just    *)
(* started has its build pending).                                         *)
DetectBuild(e, g) ==
  /\ At(e, g, "detect")
  /\ \/ /\ group' = [group EXCEPT ![e][g] = SkipBuild(@)]
        /\ SaveGroup(e, g, group'[e][g])
        /\ res' = [res EXCEPT ![e][g] = "ok"]
        /\ gpc' = [gpc EXCEPT ![e][g] = "finish"]
     \/ /\ ~tripped[e]
        /\ gpc' = [gpc EXCEPT ![e][g] = "build"]
        /\ UNCHANGED << group, groupRow, res, faults >>
  /\ UNCHANGED << governor, boardRow, taskRow, plan, epc, next, board, task, pos,
                  chan, taskVars, breaker, returned, bounds >>

(* One build; a runtime error counts as a failed build.                    *)
Build(e, g) ==
  /\ At(e, g, "build")
  /\ \E pass \in BOOLEAN :
       /\ pass => ~tripped[e]
       /\ group' = [group EXCEPT ![e][g] = RecordBuildAttempt(@, pass)]
       /\ IF pass
          THEN res' = [res EXCEPT ![e][g] = "ok"] /\ gpc' = [gpc EXCEPT ![e][g] = "finish"]
          ELSE IF group'[e][g].build = "failed"
          THEN Fails(e, g, "finish")
          ELSE gpc' = [gpc EXCEPT ![e][g] = "repair"] /\ UNCHANGED res
  /\ SaveGroup(e, g, group'[e][g])
  /\ UNCHANGED << governor, boardRow, taskRow, plan, epc, next, board, task, pos,
                  chan, taskVars, breaker, returned, bounds >>

(* dispatchBuildRepair, whose result is ignored.                           *)
Repair(e, g) ==
  /\ At(e, g, "repair")
  /\ gpc' = [gpc EXCEPT ![e][g] = "build"]
  /\ UNCHANGED << governor, tables, plan, epc, next, memory, pos, res, chan,
                  taskVars, breaker, returned, bounds, faults >>

(* Complete or Fail, and SaveGroup.                                        *)
FinishTeamLead(e, g) ==
  /\ At(e, g, "finish")
  /\ group' = [group EXCEPT ![e][g] =
                 IF res[e][g] = "ok" THEN CompleteGroup(@) ELSE FailGroup(@)]
  /\ SaveGroup(e, g, group'[e][g])
  /\ gpc' = [gpc EXCEPT ![e][g] = "end"]
  /\ UNCHANGED << governor, boardRow, taskRow, plan, epc, next, board, task, pos,
                  res, chan, taskVars, breaker, returned, bounds >>

ReleaseTeamLead(e, g) ==
  /\ At(e, g, "end")
  /\ ReleaseSlot(e)
  /\ SignalOver(e, g, res[e][g])
  /\ UNCHANGED << others, tables, plan, epc, next, memory, pos, res, taskVars,
                  breaker, returned, bounds >>

-----------------------------------------------------------------------------
(* runImplementWithRetry: the goroutine of a task.                         *)

TaskAt(e, t, pc) == tpc[e][t] = pc

TaskOver(e, t, ok) ==
  tpc' = [tpc EXCEPT ![e][t] = "over"] /\ out' = [out EXCEPT ![e][t] = ok]

EnterImplSem(e, t) ==
  /\ TaskAt(e, t, "sem")
  /\ \/ /\ Cardinality(InImplSem(e, GroupOf[t])) < MaxParallelImplements
        /\ tpc' = [tpc EXCEPT ![e][t] = "claim"]
        /\ UNCHANGED out
     \/ tripped[e] /\ TaskOver(e, t, "none")
  /\ UNCHANGED << governor, tables, plan, epc, next, memory, groupVars, got,
                  breaker, returned, bounds, faults >>

(* A task done in a previous call counts as done.  Otherwise ClaimTask     *)
(* moves the row, not the copy in memory, from pending to claimed.         *)
ClaimTask(e, t) ==
  /\ TaskAt(e, t, "claim")
  /\ \/ /\ task[e][t].status = "done"
        /\ TaskOver(e, t, "true")
        /\ UNCHANGED << taskRow, faults >>
     \/ /\ task[e][t].status # "done" /\ taskRow[t].status = "pending" /\ DbOk(e)
        /\ taskRow' = [taskRow EXCEPT ![t].status = "claimed"]
        /\ tpc' = [tpc EXCEPT ![e][t] = "acquire"]
        /\ UNCHANGED out
     \/ /\ task[e][t].status # "done"
        /\ (taskRow[t].status # "pending" /\ UNCHANGED faults) \/ DbErr(e)
        /\ TaskOver(e, t, "false")
        /\ UNCHANGED taskRow
  /\ UNCHANGED << governor, boardRow, groupRow, plan, epc, next, memory, groupVars,
                  got, breaker, returned, bounds >>

AcquireImplement(e, t) ==
  /\ TaskAt(e, t, "acquire")
  /\ \/ TakesSlot(e) /\ tpc' = [tpc EXCEPT ![e][t] = "run"] /\ UNCHANGED out
     \/ NoSlot(e) /\ TaskOver(e, t, "false")
  /\ UNCHANGED << others, tables, plan, epc, next, memory, groupVars, got, breaker,
                  returned, bounds >>

(* dispatchImplement.  A valid envelope, whatever its status, makes the    *)
(* service try Task.Complete and save the task; no envelope, an invalid    *)
(* one or a dispatch error do not; neither does a quota error.             *)
Dispatch(e, t, result) ==
  /\ got' = [got EXCEPT ![e][t] = result]
  /\ \/ /\ result \in {"ok", "fail"}
        /\ task' = [task EXCEPT ![e][t] = CompleteTask(@)]
        /\ SaveTask(e, t, task'[e][t])
     \/ /\ result \in {"fail", "quota"}
        /\ UNCHANGED << task, taskRow, faults >>

DispatchImplement(e, t) ==
  /\ TaskAt(e, t, "run")
  /\ \E result \in {"ok", "fail", "quota"} : Dispatch(e, t, result)
  /\ tpc' = [tpc EXCEPT ![e][t] = "release"]
  /\ UNCHANGED << governor, boardRow, groupRow, plan, epc, next, board, group,
                  groupVars, out, breaker, returned, bounds >>

ReleaseImplement(e, t) ==
  /\ TaskAt(e, t, "release")
  /\ ReleaseSlot(e)
  /\ tpc' = [tpc EXCEPT ![e][t] =
               IF got[e][t] = "quota" /\ Fallback THEN "fallback" ELSE "record"]
  /\ UNCHANGED << others, tables, plan, epc, next, memory, groupVars, got, out,
                  breaker, returned, bounds >>

(* dispatchImplementWithOverride; everything but a success is a quota      *)
(* outcome of the task.                                                    *)
DispatchFallback(e, t) ==
  /\ TaskAt(e, t, "fallback")
  /\ \/ Dispatch(e, t, "ok")
     \/ /\ \/ Dispatch(e, t, "quota")
           \/ UNCHANGED << got, task >> /\ SaveTask(e, t, CompleteTask(task[e][t]))
  /\ tpc' = [tpc EXCEPT ![e][t] = "record"]
  /\ UNCHANGED << governor, boardRow, groupRow, plan, epc, next, board, group,
                  groupVars, out, breaker, returned, bounds >>

(* The attempt is recorded and the task saved; a success resets the quota  *)
(* streak, the attempt that reaches MaxAttempts blocks the task.  A quota  *)
(* outcome counts no attempt; recordQuotaOutcome cancels the context at    *)
(* the threshold.                                                          *)
RecordOutcome(e, t) ==
  LET rec == IF got[e][t] = "quota" THEN ReleaseTask(task[e][t])
             ELSE RecordAttempt(task[e][t], got[e][t] = "ok")
  IN  /\ TaskAt(e, t, "record")
      /\ task' = [task EXCEPT ![e][t] = rec]
      /\ SaveTask(e, t, rec)
      /\ CASE got[e][t] = "ok" ->
                 /\ streak' = [streak EXCEPT ![e] = 0]
                 /\ UNCHANGED tripped
                 /\ TaskOver(e, t, "true")
           [] got[e][t] = "quota" ->
                 /\ streak' = [streak EXCEPT ![e] = IF tripped[e] THEN @ ELSE @ + 1]
                 /\ tripped' = [tripped EXCEPT ![e] = @ \/ streak'[e] >= Threshold]
                 /\ TaskOver(e, t, "false")
           [] got[e][t] = "fail" /\ rec.status = "blocked" ->
                 TaskOver(e, t, "false") /\ UNCHANGED breaker
           [] OTHER ->
                 /\ tpc' = [tpc EXCEPT ![e][t] = "acquire"]
                 /\ UNCHANGED << out, breaker >>
      /\ UNCHANGED << governor, boardRow, groupRow, plan, epc, next, board, group,
                      groupVars, got, returned, bounds >>

-----------------------------------------------------------------------------
(* The end of Execute.                                                     *)

GroupsOver(e) == epc[e] = "groups" /\ \A g \in Groups : gpc[e][g] \in {"off", "over"}

(* Mutant: Execute waits for one recorded outcome per group.               *)
BreakerTrippedOnResults(e) ==
  /\ GroupsOver(e) /\ tripped[e]
  /\ \A g \in Groups : OnBoard(e, g) => res[e][g] # "none"
  /\ ReturnBlocked(e)
  /\ UNCHANGED << governor, tables, plan, next, memory, groupVars, taskVars,
                  breaker, delivered, bounds, faults >>

BreakerTripped(e) ==
  /\ GroupsOver(e) /\ tripped[e]
  /\ ReturnBlocked(e)
  /\ UNCHANGED << governor, tables, plan, next, memory, groupVars, taskVars,
                  breaker, delivered, bounds, faults >>

FailedGroups(e) == { g \in Groups : res[e][g] = "failed" }

(* materializeWorktrees skips failed groups.                               *)
Deliverable(e) == { g \in Groups : res[e][g] = "ok" }

(* Mutant: one completed group is enough.                                  *)
AllFailed(e) == FailedGroups(e) # {} /\ Deliverable(e) = {}

HasFailure(e) == FailedGroups(e) # {}

(* finalize and materializeWorktrees; a copy that fails is only reported.  *)
Finalize(e) ==
  /\ GroupsOver(e) /\ ~tripped[e]
  /\ board' = [board EXCEPT ![e] = IF HasFailure(e) THEN FailBoard(@) ELSE CompleteBoard(@)]
  /\ \/ boardRow' = board'[e] /\ UNCHANGED faults
     \/ UNCHANGED boardRow /\ DBFault
  /\ \E copied \in SUBSET Deliverable(e) : delivered' = delivered \cup copied
  /\ env' = [env EXCEPT ![e] = IF HasFailure(e) THEN "blocked" ELSE "done"]
  /\ epc' = [epc EXCEPT ![e] = "idle"]
  /\ UNCHANGED << governor, groupRow, taskRow, plan, next, group, task, groupVars,
                  taskVars, breaker, bounds >>

-----------------------------------------------------------------------------
(* Outside the apply phase: phase dispatches and the critic use the same   *)
(* governor, and the process may crash.  The counter is a row, and no code *)
(* resets it at startup.                                                   *)

OtherAcquires(o) ==
  /\ o \in Others \ others /\ active < MaxSlots
  /\ active' = active + 1
  /\ others' = others \cup {o}
  /\ UNCHANGED << tables, plan, epc, next, memory, groupVars, taskVars, breaker,
                  returned, bounds, faults >>

(* The error of Release is logged by the phase service and dropped by the  *)
(* critic: the slot is lost.                                               *)
OtherReleases(o) ==
  /\ o \in others
  /\ \/ active' = (IF active > 0 THEN active - 1 ELSE 0) /\ UNCHANGED faults
     \/ UNCHANGED active /\ DBFault
  /\ others' = others \ {o}
  /\ UNCHANGED << tables, plan, epc, next, memory, groupVars, taskVars, breaker,
                  returned, bounds >>

Crash ==
  /\ crashes < MaxCrashes
  /\ \E e \in Executors : epc[e] # "idle"
  /\ crashes' = crashes + 1
  /\ others' = {}
  /\ epc' = [ e \in Executors |-> "idle" ]
  /\ next' = [ e \in Executors |-> 1 ]
  /\ board' = [ e \in Executors |-> "absent" ]
  /\ group' = [ e \in Executors |-> [ g \in Groups |-> NoGroup ] ]
  /\ task' = [ e \in Executors |-> [ t \in Tasks |-> NoTask ] ]
  /\ gpc' = [ e \in Executors |-> [ g \in Groups |-> "off" ] ]
  /\ pos' = [ e \in Executors |-> [ g \in Groups |-> 1 ] ]
  /\ res' = [ e \in Executors |-> [ g \in Groups |-> "none" ] ]
  /\ chan' = [ e \in Executors |-> [ g \in Groups |-> "empty" ] ]
  /\ tpc' = [ e \in Executors |-> [ t \in Tasks |-> "off" ] ]
  /\ got' = [ e \in Executors |-> [ t \in Tasks |-> "none" ] ]
  /\ out' = [ e \in Executors |-> [ t \in Tasks |-> "none" ] ]
  /\ streak' = [ e \in Executors |-> 0 ]
  /\ tripped' = [ e \in Executors |-> FALSE ]
  /\ env' = [ e \in Executors |-> "none" ]
  /\ UNCHANGED << active, tables, plan, delivered, executes, faults >>

-----------------------------------------------------------------------------
MainStep(e) ==
  \/ SaveNewBoard(e) \/ BuildRow(e) \/ BoardBuilt(e) \/ CreateWorktrees(e)
  \/ StartBoard(e) \/ BreakerTripped(e) \/ Finalize(e)

GroupStep(e, g) ==
  \/ SkipCompleted(e, g) \/ ReceiveDep(e, g) \/ Republish(e, g)
  \/ DepsReceived(e, g) \/ WaitFails(e, g) \/ EnterGroupSem(e, g)
  \/ AcquireTeamLead(e, g) \/ StartTeamLead(e, g) \/ Aggregate(e, g)
  \/ DetectBuild(e, g) \/ Build(e, g) \/ Repair(e, g)
  \/ FinishTeamLead(e, g) \/ ReleaseTeamLead(e, g)

TaskStep(e, t) ==
  \/ EnterImplSem(e, t) \/ ClaimTask(e, t) \/ AcquireImplement(e, t)
  \/ DispatchImplement(e, t) \/ ReleaseImplement(e, t)
  \/ DispatchFallback(e, t) \/ RecordOutcome(e, t)

Step ==
  \/ \E e \in Executors :
       \/ LoadFails(e) \/ Execute(e) \/ MainStep(e)
       \/ \E g \in Groups : GroupStep(e, g)
       \/ \E t \in Tasks : TaskStep(e, t)
  \/ \E o \in Others : OtherAcquires(o) \/ OtherReleases(o)
  \/ Crash

(* History.  An agent answers when its dispatch, or the fallback dispatch, *)
(* returns; a quota error is no answer.                                    *)
Answers(e, t, results) ==
  /\ tpc[e][t] \in {"run", "fallback"} /\ tpc'[e][t] \in {"release", "record"}
  /\ got'[e][t] \in results

(* The team lead of e ends g when an agent has succeeded with every task   *)
(* of g on e's board and the build gate is open.                           *)
EndsDone(e, g) ==
  /\ At(e, g, "finish") /\ gpc'[e][g] = "end"
  /\ TasksOn(e, g) \subseteq succeeded
  /\ group[e][g].build \in {"passed", "skipped"}

Record ==
  /\ succeeded' = succeeded \cup { t \in Tasks : \E e \in Executors : Answers(e, t, {"ok"}) }
  /\ tries' = [ t \in Tasks |->
                  IF \E e \in Executors : Answers(e, t, {"ok", "fail"})
                  THEN tries[t] + 1 ELSE tries[t] ]
  /\ finished' = finished \cup { g \in Groups : \E e \in Executors : EndsDone(e, g) }

Next == Step /\ Record

Spec == Init /\ [][Next]_vars

(* Every goroutine keeps running: database calls return, dispatches,       *)
(* builds and waits have timeouts, and the retries on a full governor end. *)
Fairness ==
  \A e \in Executors :
    /\ WF_vars(MainStep(e) /\ Record)
    /\ \A g \in Groups : WF_vars(GroupStep(e, g) /\ Record)
    /\ \A t \in Tasks : WF_vars(TaskStep(e, t) /\ Record)

FairSpec == Spec /\ Fairness

-----------------------------------------------------------------------------
(* Properties.                                                             *)

Slots == INSTANCE SlotPool
         WITH holders <- Holders,
              Clients <- (Executors \X (Groups \cup Tasks)) \cup ({"other"} \X Others)

(* The governor, its row and its clients implement SlotPool: whatever the  *)
(* interleaving of team leads, implement agents, other phases, failed      *)
(* Releases, cancelled contexts and crashes, a slot is never handed out    *)
(* twice and never given back by someone who does not hold it.             *)
SlotsImplemented == Slots!Spec

(* At any time at most MaxSlots clients of the governor hold a slot, each  *)
(* of them counted in spawn_governor_state.                                *)
SlotsCovered == Slots!Covered

(* The signal of a finished group is never lost: it is in the group's      *)
(* channel or in the hands of a waiter that is about to publish it again.  *)
SignalKept ==
  \A e \in Executors : \A d \in Groups :
    gpc[e][d] = "over" =>
      \/ chan[e][d] # "empty"
      \/ \E g \in Groups :
           /\ gpc[e][g] \in {"relayOk", "relayFailed"}
           /\ AwaitedDep(e, g) = d

(* A group runs only after its dependencies: all of them succeeded, or one *)
(* of them is over without success (the degraded run).                     *)
StartsAfterDeps ==
  \A e \in Executors : \A g \in Groups :
    gpc[e][g] \in {"sem", "acquire"} \cup Holding =>
      \/ \A d \in DepSet(plan.deps, g) : gpc[e][d] = "over" /\ res[e][d] = "ok"
      \/ \E d \in DepSet(plan.deps, g) : gpc[e][d] = "over" /\ res[e][d] # "ok"

StoredTasks(g) == { t \in Tasks : GroupOf[t] = g /\ taskRow[t].status # "absent" }

(* A group stored as completed has all its stored tasks done and its build *)
(* passed or skipped, also across a tripped breaker, a crash and resumed   *)
(* runs (one executor at a time, no failing save).                         *)
CompletedIsDone ==
  \A g \in Groups : groupRow[g].status = "completed" =>
    /\ \A t \in StoredTasks(g) : taskRow[t].status = "done"
    /\ groupRow[g].build \in {"passed", "skipped"}

(* Execute returns a DONE envelope only when every stored group is         *)
(* completed and every stored task done.                                   *)
DoneIsComplete ==
  \A e \in Executors : env[e] = "done" =>
    /\ \A g \in Groups : groupRow[g].status \in {"absent", "completed"}
    /\ \A t \in Tasks : taskRow[t].status \in {"absent", "done"}

(* What is stored, reported and delivered was earned, although calls of    *)
(* Execute may overlap on one board, each with its own copy, saves may     *)
(* fail and the process may crash: a task stored as done is one an agent   *)
(* succeeded with, a task stored as blocked was tried MaxAttempts times, a *)
(* group stored as completed or copied to TargetPath was ended by a team   *)
(* lead with all the work on its board done, and so was every group on the *)
(* board of a call that returned DONE.                                     *)
OutcomesEarned ==
  /\ \A t \in Tasks : /\ taskRow[t].status = "done" => t \in succeeded
                      /\ taskRow[t].status = "blocked" => tries[t] >= MaxAttempts
  /\ \A g \in Groups : groupRow[g].status = "completed" => g \in finished
  /\ delivered \subseteq finished
  /\ \A e \in Executors : env[e] = "done" =>
       \A g \in Groups : OnBoard(e, g) => g \in finished

Ledger == INSTANCE TaskLedger WITH rows <- taskRow

(* The stored rows of the tasks implement TaskLedger over all the calls of *)
(* Execute for one phase: claims, saves in the middle of an attempt, quota *)
(* outcomes, fallbacks and crashes neither lose an attempt nor revive a    *)
(* task that is done or blocked (one executor at a time, no failing save). *)
TasksKept == Ledger!Spec

(* Every call of Execute returns: no group goroutine waits for ever on a   *)
(* dependency, a semaphore or the governor, also when the breaker trips.   *)
ExecuteReturns == \A e \in Executors : epc[e] # "idle" ~> epc[e] = "idle"
=============================================================================
