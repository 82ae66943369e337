---------------------------- MODULE SkillRegistry ---------------------------
(***************************************************************************)
(* The skills table and everything that writes it: the HTTP API            *)
(* (PATCH .../status and .../metrics), the boot seeder, and the reeval     *)
(* command line tool, which promotes and demotes skills from the recorded  *)
(* apply attempts and reverts such runs (internal/application/skill,       *)
(* internal/bootstrap, cmd/sophia-orchestator).                            *)
(*                                                                         *)
(* Every command of the tool calls bootstrap.Wire first, exactly as the    *)
(* server does when it starts, so it seeds the table before it does        *)
(* anything else.  PatchStatus reads the row and then updates it, in two   *)
(* statements; PatchMetrics locks the row in a transaction.  A statement   *)
(* that fails has no effect.                                               *)
(***************************************************************************)
EXTENDS SkillLifecycle

CONSTANTS
  Skills,                \* the skills, one per (name, version)
  Seeds,                 \* the canonical skills of buildSeedSkills
  SkillOrder,            \* the order of SkillRepo.List
  InitRows,              \* rows of the other skills when the model starts
  InitAudit,             \* runs recorded by then
  Changes, Usage,        \* which skill was used in which change
  InitSum, MaxSum,       \* attempts of a change, when the model starts and at most
  Requests,              \* API requests that may be in flight together
  MaxCommands, MaxEvents, MaxFaults   \* bounds: commands of the tool,
                         \* requests and restarts, failing statements

(* An item of a recorded run; read is the status its PatchStatus saw.      *)
Item == [ skill : Skills, prior : Statuses, new : Statuses, read : Statuses ]

Run == [ mode : {"apply", "revert"}, reverts : Nat, items : Seq(Item) ]

ASSUME RegistryAssumption ==
  /\ Seeds \subseteq Skills
  /\ Usage \subseteq Skills \X Changes
  /\ InitRows \subseteq Row
  /\ \A row \in InitRows :
       /\ row.status \in {"validated", "active", "deprecated"} => row.validated
       /\ row.rollbacks = 0
  /\ InitAudit \in Seq(Run)
  /\ {"free", "tool"} \cap Requests = {}
  /\ SkillOrder \in Seq(Skills)

(* SkillRepo.List returns a row once, so a run lists a skill once; and no  *)
(* run was reverted when the model starts, as the counters are new then.   *)
ASSUME TrailAssumption ==
  /\ \A i, j \in 1 .. Len(SkillOrder) : SkillOrder[i] = SkillOrder[j] => i = j
  /\ \A r \in 1 .. Len(InitAudit) :
       /\ InitAudit[r].mode = "apply"
       /\ \A i, j \in 1 .. Len(InitAudit[r].items) :
            InitAudit[r].items[i].skill = InitAudit[r].items[j].skill => i = j

(* A run recorded before the model starts has true prior statuses, too.    *)
ASSUME PriorAssumption ==
  \A r \in 1 .. Len(InitAudit) : \A i \in 1 .. Len(InitAudit[r].items) :
    InitAudit[r].items[i].prior = InitAudit[r].items[i].read

VARIABLES
  rows,      \* the skills table
  lock,      \* the request or tool that holds a row lock (FOR UPDATE)
  sums,      \* SumApplyAttemptsByChange
  audit,     \* the table reeval_run with its items, oldest first
  req,       \* PATCH requests of the API
  pc, mode,  \* the reeval tool
  report,    \* what is left of the plan, or of the run to revert
  run,       \* the run that is reverted
  skip,      \* skipMetrics
  items,     \* the items collected for the audit
  start, path, reached,   \* the walk of one item
  read, count,   \* what PatchStatus and PatchMetrics read
  added,     \* rollbacks added to each skill, by anyone
  restored,  \* the run whose revert was complete, if nothing was written since
  commands, events, faults

tool   == << pc, mode, report, run, skip, items, start, path, reached, read, count >>
bounds == << commands, events >>
vars   == << rows, lock, sums, audit, req, tool, added, restored, bounds, faults >>

-----------------------------------------------------------------------------
DBFault == faults < MaxFaults /\ faults' = faults + 1

NoRequest == [ at |-> "none", skill |-> "none", to |-> "none", count |-> 0 ]

Init ==
  /\ rows \in { r \in [Skills -> InitRows \cup {NewLegacy}] :
                  \A s \in Skills : s \in Seeds <=> r[s] = NewLegacy }
  /\ lock = [ s \in Skills |-> "free" ]
  /\ sums = [ c \in Changes |-> InitSum ]
  /\ audit = InitAudit
  /\ req = [ q \in Requests |-> NoRequest ]
  /\ pc = "idle" /\ mode = "none" /\ report = << >> /\ run = 0 /\ skip = FALSE
  /\ items = << >> /\ start = "none" /\ path = << >> /\ reached = "none" /\ read = "none"
  /\ count = 0
  /\ added = [ s \in Skills |-> 0 ]
  /\ restored = 0
  /\ commands = 0 /\ events = 0 /\ faults = 0

(* UPDATE skills SET status: waits for a row lock.                         *)
UpdateStatus(s, to) ==
  /\ lock[s] = "free"
  /\ rows' = [rows EXCEPT ![s] = SetStatus(@, to)]

(* Mutant: the metrics are read without a lock.                            *)
LockMetricsUnlocked(s, who) == UNCHANGED lock

(* SELECT metrics ... FOR UPDATE.                                          *)
LockMetrics(s, who) == lock[s] = "free" /\ lock' = [lock EXCEPT ![s] = who]

(* The new counter is written and the transaction ends.                    *)
CommitMetrics(s, old) ==
  /\ rows' = [rows EXCEPT ![s].rollbacks = old + 1]
  /\ lock' = [lock EXCEPT ![s] = "free"]
  /\ added' = [added EXCEPT ![s] = @ + 1]

-----------------------------------------------------------------------------
(* The HTTP API.  An invalid status is refused before any statement.       *)

PatchStatusRead(q) ==
  /\ req[q].at = "none" /\ events < MaxEvents
  /\ \E s \in Skills, to \in Statuses :
       /\ to \in AllowedTransitions(rows[s].status)
       /\ req' = [req EXCEPT ![q] = [ at |-> "status", skill |-> s, to |-> to, count |-> 0 ]]
  /\ events' = events + 1
  /\ UNCHANGED << rows, lock, sums, audit, tool, added, restored, commands, faults >>

PatchStatusWrite(q) ==
  /\ req[q].at = "status"
  /\ req' = [req EXCEPT ![q] = NoRequest]
  /\ \/ UpdateStatus(req[q].skill, req[q].to) /\ restored' = 0 /\ UNCHANGED faults
     \/ DBFault /\ UNCHANGED << rows, restored >>
  /\ UNCHANGED << lock, sums, audit, tool, added, bounds >>

(* The worker of memory-engine reports a rollback; other counters are kept *)
(* the same way and no rule reads them.                                    *)
PatchMetricsLock(q) ==
  /\ req[q].at = "none" /\ events < MaxEvents
  /\ \E s \in Skills :
       /\ LockMetrics(s, q)
       /\ req' = [req EXCEPT ![q] =
                    [ at |-> "metrics", skill |-> s, to |-> "none", count |-> rows[s].rollbacks ]]
  /\ events' = events + 1
  /\ UNCHANGED << rows, sums, audit, tool, added, restored, commands, faults >>

PatchMetricsCommit(q) ==
  /\ req[q].at = "metrics"
  /\ \/ CommitMetrics(req[q].skill, req[q].count) /\ UNCHANGED faults
     \/ DBFault /\ lock' = [lock EXCEPT ![req[q].skill] = "free"] /\ UNCHANGED << rows, added >>
  /\ req' = [req EXCEPT ![q] = NoRequest]
  /\ UNCHANGED << sums, audit, tool, restored, bounds >>

(* Another attempt of an apply task of the change.                         *)
TaskAttempted(c) ==
  /\ sums[c] < MaxSum
  /\ sums' = [sums EXCEPT ![c] = @ + 1]
  /\ UNCHANGED << rows, lock, audit, req, tool, added, restored, bounds, faults >>

-----------------------------------------------------------------------------
(* SeedSkills: one Upsert per canonical skill, which replaces the whole    *)
(* row and waits for its lock; the first error ends it.                    *)
Seed(done) ==
  /\ \A s \in done : lock[s] # "tool"
  /\ rows' = [ s \in Skills |-> IF s \in done THEN NewLegacy ELSE rows[s] ]
  /\ added' = [ s \in Skills |-> IF s \in done THEN 0 ELSE added[s] ]
  /\ restored' = IF rows' = rows THEN restored ELSE 0

(* The server restarts: requests in flight are lost and their transactions *)
(* rolled back; then Wire seeds the table.                                 *)
ServerBoot ==
  /\ events < MaxEvents
  /\ events' = events + 1
  /\ req' = [ q \in Requests |-> NoRequest ]
  /\ lock' = [ s \in Skills |-> IF lock[s] \in Requests THEN "free" ELSE lock[s] ]
  /\ Seed(Seeds)
  /\ UNCHANGED << sums, audit, tool, commands, faults >>

-----------------------------------------------------------------------------
(* The reeval tool: one command at a time.  Its local state is fresh for   *)
(* every command.                                                          *)

Goto(label) ==
  /\ pc' = label
  /\ UNCHANGED << mode, report, run, skip, items, start, path, reached, read, count >>

(* The command returns, with or without an error.                          *)
End ==
  /\ pc' = "idle" /\ mode' = "none" /\ report' = << >> /\ run' = 0 /\ skip' = FALSE
  /\ items' = << >> /\ start' = "none" /\ path' = << >> /\ reached' = "none" /\ read' = "none"
  /\ count' = 0

ToolUnchanged == UNCHANGED << sums, req, bounds >>

(* A statement of the tool fails and the command returns the error.        *)
Aborts == DBFault /\ End /\ UNCHANGED << rows, audit, added, restored >>

(* dispatch and Wire.  --apply without --confirm is a dry run.             *)
Command(m) ==
  /\ pc = "idle" /\ commands < MaxCommands
  /\ commands' = commands + 1
  /\ \A s \in Seeds : lock[s] = "free"
  /\ \/ /\ Seed(Seeds)
        /\ mode' = m
        /\ pc' = IF m \in {"dry", "apply"} THEN "plan" ELSE "find"
        /\ UNCHANGED << report, run, skip, items, start, path, reached, read, count, faults >>
     \/ /\ DBFault
        /\ \E done \in (SUBSET Seeds) \ {Seeds} : Seed(done)
        /\ UNCHANGED tool
  /\ UNCHANGED << lock, sums, audit, req, events >>

(* RepoEvidenceProvider.Rows: the most attempts of a change that used s.   *)
ApplyAttempts(s) ==
  LET used == { sums[c] : c \in { d \in Changes : << s, d >> \in Usage } }
  IN  CHOOSE n \in used \cup {0} : \A k \in used \cup {0} : k <= n

PlanRow(s) ==
  [ skill |-> s, prior |-> rows[s].status,
    new |-> Proposed(rows[s].status, ApplyAttempts(s)) ]

(* plan; a dry run only prints it.  The tool lists the skills first and    *)
(* reads the attempts after that; as an attempt commutes with every other  *)
(* step, both are one step here.                                           *)
Plan ==
  /\ pc = "plan"
  /\ \/ /\ IF mode = "dry" THEN End
           ELSE /\ report' = [ i \in 1 .. Len(SkillOrder) |-> PlanRow(SkillOrder[i]) ]
                /\ pc' = "patch"
                /\ UNCHANGED << mode, run, skip, items, start, path, reached, read, count >>
        /\ UNCHANGED << rows, audit, added, restored, faults >>
     \/ Aborts
  /\ UNCHANGED lock /\ ToolUnchanged

(* Apply, one row: nothing to do for one that would not change.            *)
ApplySkip ==
  /\ pc = "patch" /\ report # << >> /\ Head(report).new = Head(report).prior
  /\ report' = Tail(report)
  /\ UNCHANGED << pc, mode, run, skip, items, start, path, reached, read, count >>
  /\ UNCHANGED << rows, lock, audit, added, restored, faults >> /\ ToolUnchanged

(* PatchStatus reads the row again; a transition that is forbidden by now  *)
(* is skipped.                                                             *)
ApplyRead ==
  /\ pc = "patch" /\ report # << >> /\ Head(report).new # Head(report).prior
  /\ LET row == Head(report)
     IN  \/ /\ row.new \in AllowedTransitions(rows[row.skill].status)
            /\ pc' = "update"
            /\ read' = rows[row.skill].status
            /\ UNCHANGED << mode, report, run, skip, items, start, path, reached, count >>
            /\ UNCHANGED << rows, audit, added, restored, faults >>
         \/ /\ row.new \notin AllowedTransitions(rows[row.skill].status)
            /\ report' = Tail(report)
            /\ UNCHANGED << pc, mode, run, skip, items, start, path, reached, read, count >>
            /\ UNCHANGED << rows, audit, added, restored, faults >>
         \/ Aborts
  /\ UNCHANGED lock /\ ToolUnchanged

ApplyWrite ==
  /\ pc = "update"
  /\ LET row == Head(report)
     IN  \/ /\ UpdateStatus(row.skill, row.new)
            /\ items' = Append(items, [ skill |-> row.skill, prior |-> row.prior,
                                        new |-> row.new, read |-> read ])
            /\ report' = Tail(report)
            /\ pc' = "patch" /\ read' = "none"
            /\ restored' = 0
            /\ UNCHANGED << mode, run, skip, start, path, reached, count, audit, added, faults >>
         \/ Aborts
  /\ UNCHANGED lock /\ ToolUnchanged

(* The snapshot is saved once all rows are through, if any was applied.    *)
SaveApply ==
  /\ pc = "patch" /\ report = << >>
  /\ \/ /\ audit' = IF items = << >> THEN audit
                    ELSE Append(audit, [ mode |-> "apply", reverts |-> 0, items |-> items ])
        /\ End
        /\ UNCHANGED << rows, added, restored, faults >>
     \/ items # << >> /\ Aborts
  /\ UNCHANGED lock /\ ToolUnchanged

-----------------------------------------------------------------------------
(* Revert and RevertLast.                                                  *)

FindRun ==
  /\ pc = "find"
  /\ \/ /\ audit = << >> /\ End
        /\ UNCHANGED << rows, audit, added, restored, faults >>
     \/ /\ audit # << >>
        /\ run' \in IF mode = "last" THEN {Len(audit)} ELSE 1 .. Len(audit)
        /\ report' = audit[run'].items
        /\ pc' = "exists"
        /\ UNCHANGED << mode, skip, items, start, path, reached, read, count >>
        /\ UNCHANGED << rows, audit, added, restored, faults >>
     \/ Aborts
  /\ UNCHANGED lock /\ ToolUnchanged

(* ExistsByRevertsRunID.                                                   *)
CheckReverted ==
  /\ pc = "exists"
  /\ \/ /\ skip' = \E i \in 1 .. Len(audit) : audit[i].reverts = run
        /\ pc' = "item"
        /\ UNCHANGED << mode, report, run, items, start, path, reached, read, count >>
        /\ UNCHANGED << rows, audit, added, restored, faults >>
     \/ Aborts
  /\ UNCHANGED lock /\ ToolUnchanged

(* Mutant: the walk starts at the recorded status, not at the live one.    *)
LiveStatusRecorded(item) == item.new

LiveStatus(item) == rows[item.skill].status

(* One item: where the skill sits now, and the way back.  A skill that is  *)
(* there already, or has no way back, is skipped.                          *)
RevertItem ==
  /\ pc = "item" /\ report # << >>
  /\ LET live == LiveStatus(Head(report))
         to   == Head(report).prior
     IN  \/ /\ IF live = to \/ ~HasPath(live, to)
               THEN /\ report' = Tail(report)
                    /\ UNCHANGED << pc, start, path, reached >>
               ELSE /\ start' = live /\ reached' = live
                    /\ path' = TransitionPath(live, to)
                    /\ pc' = "hop"
                    /\ UNCHANGED report
            /\ UNCHANGED << mode, run, skip, items, read, count >>
            /\ UNCHANGED << rows, audit, added, restored, faults >>
         \/ Aborts
  /\ UNCHANGED lock /\ ToolUnchanged

WalkedItem(to) ==
  [ skill |-> Head(report).skill, prior |-> start, new |-> to, read |-> start ]

(* The walk stops in the middle: what it reached is recorded.              *)
WalkFails ==
  /\ items' = IF reached = start THEN items ELSE Append(items, WalkedItem(reached))
  /\ report' = Tail(report)
  /\ pc' = "item"
  /\ start' = "none" /\ path' = << >> /\ reached' = "none"
  /\ UNCHANGED << mode, run, skip, read, count >>

(* PatchStatus of one hop: the read, then the update.                      *)
HopRead ==
  /\ pc = "hop"
  /\ LET allowed == Head(path) \in AllowedTransitions(rows[Head(report).skill].status)
     IN  \/ allowed /\ Goto("hopUpdate") /\ UNCHANGED faults
         \/ ~allowed /\ WalkFails /\ UNCHANGED faults
         \/ WalkFails /\ DBFault
  /\ UNCHANGED << rows, lock, audit, added, restored >> /\ ToolUnchanged

HopWrite ==
  /\ pc = "hopUpdate"
  /\ \/ /\ UpdateStatus(Head(report).skill, Head(path))
        /\ restored' = 0
        /\ IF Tail(path) # << >>
           THEN /\ reached' = Head(path) /\ path' = Tail(path) /\ pc' = "hop"
                /\ UNCHANGED << report, items, start >>
           ELSE /\ items' = Append(items, WalkedItem(Head(path)))
                /\ pc' = IF skip THEN "item" ELSE "metric"
                /\ report' = IF skip THEN Tail(report) ELSE report
                /\ start' = "none" /\ path' = << >> /\ reached' = "none"
        /\ UNCHANGED << mode, run, skip, read, count, faults >>
     \/ WalkFails /\ DBFault /\ UNCHANGED << rows, restored >>
  /\ UNCHANGED << lock, audit, added >> /\ ToolUnchanged

(* Mutant: the rollback is counted for nobody.                             *)
MetricLockNot ==
  /\ pc = "metric"
  /\ report' = Tail(report) /\ pc' = "item"
  /\ UNCHANGED << mode, run, skip, items, start, path, reached, read, count, rows, lock,
                  audit, added, restored, faults >>
  /\ ToolUnchanged

(* PatchMetrics with RollbackDelta 1, before the revert is recorded.       *)
MetricLock ==
  /\ pc = "metric"
  /\ \/ /\ LockMetrics(Head(report).skill, "tool")
        /\ count' = rows[Head(report).skill].rollbacks
        /\ pc' = "commit"
        /\ UNCHANGED << mode, report, run, skip, items, start, path, reached, read >>
        /\ UNCHANGED << rows, audit, added, restored, faults >>
     \/ Aborts /\ UNCHANGED lock
  /\ ToolUnchanged

MetricCommit ==
  /\ pc = "commit"
  /\ \/ /\ CommitMetrics(Head(report).skill, count)
        /\ report' = Tail(report) /\ count' = 0 /\ pc' = "item"
        /\ UNCHANGED << mode, run, skip, items, start, path, reached, read, audit,
                        restored, faults >>
     \/ Aborts /\ lock' = [lock EXCEPT ![Head(report).skill] = "free"]
  /\ ToolUnchanged

RevertRun == [ mode |-> "revert", reverts |-> run, items |-> items ]

(* The revert is recorded as a run of its own, also without items.         *)
SaveRevert ==
  /\ pc = "item" /\ report = << >>
  /\ \/ /\ audit' = Append(audit, RevertRun)
        /\ restored' = IF \A i \in 1 .. Len(audit[run].items) :
                            rows[audit[run].items[i].skill].status = audit[run].items[i].prior
                       THEN run ELSE restored
        /\ End
        /\ UNCHANGED << rows, added, faults >>
     \/ Aborts
  /\ UNCHANGED lock /\ ToolUnchanged

(* The tool is killed; its transaction is rolled back.                     *)
Kill ==
  /\ pc # "idle"
  /\ Aborts
  /\ lock' = [ s \in Skills |-> IF lock[s] = "tool" THEN "free" ELSE lock[s] ]
  /\ ToolUnchanged

-----------------------------------------------------------------------------
ToolStep ==
  \/ Plan \/ ApplySkip \/ ApplyRead \/ ApplyWrite \/ SaveApply
  \/ FindRun \/ CheckReverted \/ RevertItem \/ HopRead \/ HopWrite
  \/ MetricLock \/ MetricCommit \/ SaveRevert

RequestStep(q) == PatchStatusWrite(q) \/ PatchMetricsCommit(q)

Next ==
  \/ \E q \in Requests : PatchStatusRead(q) \/ PatchMetricsLock(q) \/ RequestStep(q)
  \/ \E c \in Changes : TaskAttempted(c)
  \/ ServerBoot
  \/ \E m \in {"dry", "apply", "revert", "last"} : Command(m)
  \/ ToolStep \/ Kill

Spec == Init /\ [][Next]_vars

(* A command and a request in flight go on: their statements return.       *)
Fairness == WF_vars(ToolStep) /\ \A q \in Requests : WF_vars(RequestStep(q))

FairSpec == Spec /\ Fairness

-----------------------------------------------------------------------------
(* Properties.                                                             *)

(* The rows, the audit trail and the state of the tool have their types: a *)
(* run reverts an earlier one, and a walk always has a next hop.           *)
TypeOK ==
  /\ rows \in [Skills -> Row]
  /\ \A s \in Skills : lock[s] \in Requests \cup {"free", "tool"}
  /\ \A i \in 1 .. Len(audit) :
       /\ audit[i].mode \in {"apply", "revert"}
       /\ audit[i].reverts \in 0 .. i - 1
       /\ \A k \in 1 .. Len(audit[i].items) : audit[i].items[k] \in Item
  /\ pc \in {"hop", "hopUpdate"} => path # << >> /\ report # << >>

(* No skill is offered to an agent that was not validated at some time,    *)
(* whatever the operators, the gate and the revert of the tool write in    *)
(* between the read and the update of a PatchStatus.  Seeds are exempt.    *)
ActiveWasValidated ==
  \A s \in Skills \ Seeds :
    rows[s].status \in {"active", "deprecated"} => rows[s].validated

(* The prior status an apply run records is the one its PatchStatus saw,   *)
(* though the plan is older: so the revert leads back where it came from.  *)
AuditPriorIsTrue ==
  \A i \in 1 .. Len(audit) : \A k \in 1 .. Len(audit[i].items) :
    audit[i].items[k].prior = audit[i].items[k].read

(* The first recorded revert of a run has counted a rollback for every     *)
(* skill it brought back ("attribution: only skills that were actually     *)
(* reverted"); a seed's counter is reset by the next boot.                 *)
FirstRevertCounted ==
  \A i \in 1 .. Len(audit) :
    (/\ audit[i].mode = "revert"
     /\ \A j \in 1 .. i - 1 : audit[j].reverts # audit[i].reverts)
    => \A k \in 1 .. Len(audit[i].items) :
         LET item == audit[i].items[k]
             back == \E r \in 1 .. Len(audit[audit[i].reverts].items) :
                       LET old == audit[audit[i].reverts].items[r]
                       IN  old.skill = item.skill /\ old.prior = item.new
         IN  back /\ item.skill \notin Seeds => rows[item.skill].rollbacks >= 1

(* No delta of PatchMetrics is lost: the counter is the sum of what the    *)
(* API and the tool added since the row was created or seeded.             *)
MetricsAdditive == \A s \in Skills : rows[s].rollbacks = added[s]

(* revertRun: once a revert has brought every skill of a run back, another *)
(* revert of that run writes no status ("an item is a no-op ... instead of *)
(* re-walking a spurious full lifecycle").                                 *)
RevertIsIdempotent ==
  [][ run # 0 /\ restored = run /\ UNCHANGED << req, events >>
      => \A s \in Skills : rows'[s].status = rows[s].status ]_vars

(* The statuses that n transitions of PatchStatus lead to.                 *)
ReachedIn(a, n) ==
  LET reach[k \in 0 .. n] ==
        IF k = 0 THEN {a} ELSE UNION { AllowedTransitions(b) : b \in reach[k - 1] }
  IN  reach[n]

(* When a walk begins, its hops are legal one after the other, lead to the *)
(* recorded prior status, and no shorter chain of legal hops does          *)
(* (transitionPath: "the shortest legal chain").                           *)
PathIsShortest ==
  pc = "hop" /\ reached = start =>
    /\ path[1] \in AllowedTransitions(start)
    /\ \A i \in 2 .. Len(path) : path[i] \in AllowedTransitions(path[i - 1])
    /\ path[Len(path)] = Head(report).prior
    /\ \A n \in 0 .. Len(path) - 1 : Head(report).prior \notin ReachedIn(start, n)

(* A run whose skills are where it left them, and nobody but the tool      *)
(* writes the table: once a revert of the run is recorded and every skill  *)
(* of it is back, each of them has a rollback ("would under-count ... a    *)
(* worse, false-negative outcome").                                        *)
RestoredIsCounted ==
  (\A i \in 1 .. Len(audit) : \A k \in 1 .. Len(audit[i].items) :
     rows[audit[i].items[k].skill].status = audit[i].items[k].new)
  => [](restored # 0 /\ events = 0 =>
          \A k \in 1 .. Len(audit[restored].items) :
            rows[audit[restored].items[k].skill].rollbacks >= 1)

(* The tool's usage: "An explicit --dry-run always wins and forces no      *)
(* mutation."                                                              *)
DryRunWritesNothing ==
  [][ "dry" \in {mode, mode'} /\ UNCHANGED << req, events >> => rows' = rows ]_vars

(* A command of the tool returns, although its statements wait for row     *)
(* locks of requests and a walk may fail at any hop.                       *)
CommandReturns == pc # "idle" ~> pc = "idle"
=============================================================================
