--------------------------- MODULE ApplyRunProofs ---------------------------
(***************************************************************************)
(* Proofs about the slots of ApplyRun, for any number of executors,        *)
(* groups, tasks and slots and any number of crashes and faults: the       *)
(* governor and its clients implement SlotPool.                            *)
(***************************************************************************)
EXTENDS ApplyRun, FiniteSetTheorems, TLAPS

GroupPCs ==
  Holding \cup {"off", "wait", "relayOk", "relayFailed", "sem", "acquire", "over"}

TaskPCs ==
  {"off", "sem", "claim", "acquire", "run", "release", "fallback", "record", "over"}

PCsOK ==
  /\ gpc \in [Executors -> [Groups -> GroupPCs]]
  /\ tpc \in [Executors -> [Tasks -> TaskPCs]]

Clients == (Executors \X (Groups \cup Tasks)) \cup ({"other"} \X Others)

(* The inductive invariant: the counter of the governor                    *)
(* covers the clients that hold a slot.  Without it a Release bounded at   *)
(* zero could hide that a slot was given back twice.                       *)
SlotInv ==
  /\ PCsOK /\ others \subseteq Others
  /\ active \in Nat /\ active <= MaxSlots
  /\ IsFiniteSet(Holders) /\ Cardinality(Holders) <= active

(* Leaves are first-order unless they name SMT.                            *)
USE Zenon

(* Membership in Holders, kind by kind.                                    *)
LEMMA HolderKinds ==
  ASSUME NEW e \in Executors
  PROVE  /\ \A g \in Groups : << e, g >> \in Holders <=> gpc[e][g] \in Holding
         /\ \A t \in Tasks : << e, t >> \in Holders <=> tpc[e][t] \in {"run", "release"}
         /\ \A o : << "other", o >> \in Holders <=> o \in others
<1>1. "other" \notin Executors /\ Groups \cap Tasks = {}
  BY RunAssumption
<1> QED BY <1>1 DEF Holders

(* A holder is a team lead, an implement agent or another client.          *)
LEMMA HolderShapes ==
  ASSUME NEW p \in Holders
  PROVE  \/ \E e \in Executors, g \in Groups : p = << e, g >> /\ gpc[e][g] \in Holding
         \/ \E e \in Executors, t \in Tasks : p = << e, t >> /\ tpc[e][t] \in {"run", "release"}
         \/ \E o \in others : p = << "other", o >>
BY SMT DEF Holders

(* No step that leaves the counter alone hands out a slot.                 *)
LEMMA LoseStep ==
  ASSUME SlotInv, PCsOK', others' \subseteq others, UNCHANGED active,
         \A e \in Executors :
           /\ \A g \in Groups : gpc'[e][g] \in Holding => gpc[e][g] \in Holding
           /\ \A t \in Tasks : tpc'[e][t] \in {"run", "release"} => tpc[e][t] \in {"run", "release"}
  PROVE  SlotInv' /\ Slots!Lose
<1>1. Holders' \subseteq Holders
  BY SMT DEF Holders
<1>2. IsFiniteSet(Holders') /\ Cardinality(Holders') <= Cardinality(Holders)
      /\ Cardinality(Holders) \in Nat /\ Cardinality(Holders') \in Nat
  BY <1>1, FS_Subset, FS_CardinalityType DEF SlotInv
<1> QED BY SMT, <1>1, <1>2 DEF SlotInv, Slots!Lose

(* Acquire: one more client holds a slot, and the counter shows it.        *)
LEMMA TakeStep ==
  ASSUME SlotInv, PCsOK', others' \subseteq Others, NEW p, p \in Clients, p \notin Holders,
         Holders' = Holders \cup {p}, active < MaxSlots, active' = active + 1
  PROVE  SlotInv' /\ Slots!Take(p)
<1>1. Cardinality(Holders) \in Nat /\ IsFiniteSet(Holders)
  BY FS_CardinalityType DEF SlotInv
<1>2. IsFiniteSet(Holders') /\ Cardinality(Holders') = Cardinality(Holders) + 1
  BY <1>1, FS_AddElement
<1>3. MaxSlots \in Nat
  BY RunAssumption
<1> QED BY SMT, <1>1, <1>2, <1>3 DEF SlotInv, Slots!Take

(* Release: the counter is positive, because it covers the releaser.       *)
LEMMA GiveStep ==
  ASSUME SlotInv, PCsOK', others' \subseteq Others, NEW p, p \in Holders,
         Holders' = Holders \ {p}, active' = IF active > 0 THEN active - 1 ELSE 0
  PROVE  SlotInv' /\ Slots!Give(p)
<1>1. Cardinality(Holders) \in Nat /\ IsFiniteSet(Holders)
  BY FS_CardinalityType DEF SlotInv
<1>2. IsFiniteSet(Holders') /\ Cardinality(Holders') = Cardinality(Holders) - 1
  BY <1>1, FS_RemoveElement
<1>3. Cardinality(Holders') \in Nat
  BY <1>2, FS_CardinalityType
<1>4. MaxSlots \in Nat
  BY RunAssumption
<1> QED BY SMT, <1>1, <1>2, <1>3, <1>4 DEF SlotInv, Slots!Give

(* What every step does to the slots.                                      *)
SlotStep == Slots!Lose \/ \E p \in Clients : Slots!Take(p) \/ Slots!Give(p)

(* A group goroutine moves on without the governor.                        *)
LEMMA GroupMove ==
  ASSUME SlotInv, NEW e \in Executors, NEW g \in Groups, NEW pc \in GroupPCs,
         gpc' = [gpc EXCEPT ![e][g] = pc], pc \in Holding => gpc[e][g] \in Holding,
         UNCHANGED << active, others >>,
         PCsOK' /\ \A x \in Executors : \A t \in Tasks :
           tpc'[x][t] \in {"run", "release"} => tpc[x][t] \in {"run", "release"}
  PROVE  SlotInv' /\ SlotStep
BY LoseStep DEF SlotInv, PCsOK, SlotStep

(* A task goroutine moves on without the governor.                         *)
LEMMA TaskMove ==
  ASSUME SlotInv, NEW e \in Executors, NEW t \in Tasks, NEW pc \in TaskPCs,
         tpc' = [tpc EXCEPT ![e][t] = pc],
         pc \in {"run", "release"} => tpc[e][t] \in {"run", "release"},
         UNCHANGED << active, others, gpc >>
  PROVE  SlotInv' /\ SlotStep
<1>1. PCsOK'
  BY DEF SlotInv, PCsOK
<1> QED BY <1>1, LoseStep DEF SlotInv, PCsOK, SlotStep

(* The team lead takes its slot, or gives it back.                         *)
LEMMA TeamLeadSlots ==
  ASSUME SlotInv, NEW e \in Executors, NEW g \in Groups,
         AcquireTeamLead(e, g) \/ ReleaseTeamLead(e, g)
  PROVE  SlotInv' /\ SlotStep
<1>0. << e, g >> \in Clients /\ UNCHANGED << others, tpc >> /\ others \subseteq Others
  BY DEF Clients, AcquireTeamLead, ReleaseTeamLead, taskVars, SlotInv
<1>1. CASE At(e, g, "acquire") /\ TakesSlot(e) /\ gpc' = [gpc EXCEPT ![e][g] = "start"]
  <2>1. PCsOK'
    BY <1>0, <1>1 DEF SlotInv, PCsOK, GroupPCs, Holding
  <2>2. << e, g >> \notin Holders
    BY <1>1, HolderKinds DEF At, Holding
  <2>3. Holders' = Holders \cup { << e, g >> }
    <3>1. \A x \in Executors, h \in Groups :
            gpc'[x][h] \in Holding <=> gpc[x][h] \in Holding \/ << x, h >> = << e, g >>
      BY <1>1 DEF SlotInv, PCsOK, Holding
    <3>2. { p \in Executors \X Groups : gpc'[p[1]][p[2]] \in Holding }
            = { p \in Executors \X Groups : gpc[p[1]][p[2]] \in Holding } \cup { << e, g >> }
      BY SMT, <3>1
    <3> QED BY <1>0, <3>2 DEF Holders
  <2> QED BY <1>0, <1>1, <2>1, <2>2, <2>3, TakeStep DEF TakesSlot, SlotStep
<1>2. CASE /\ gpc' = [gpc EXCEPT ![e][g] = "over"] /\ UNCHANGED active
  <2>1. PCsOK'
    BY <1>0, <1>2 DEF SlotInv, PCsOK, GroupPCs
  <2> QED BY Zenon, <1>0, <1>2, <2>1, GroupMove DEF GroupPCs, Holding
<1>3. CASE /\ At(e, g, "end") /\ gpc' = [gpc EXCEPT ![e][g] = "over"]
           /\ active' = IF active > 0 THEN active - 1 ELSE 0
  <2>1. PCsOK'
    BY <1>0, <1>3 DEF SlotInv, PCsOK, GroupPCs
  <2>2. << e, g >> \in Holders
    BY <1>3, HolderKinds DEF At, Holding
  <2>3. Holders' = Holders \ { << e, g >> }
    <3>1. \A x \in Executors, h \in Groups :
            gpc'[x][h] \in Holding <=> gpc[x][h] \in Holding /\ << x, h >> # << e, g >>
      BY <1>3 DEF SlotInv, PCsOK, Holding
    <3>2. { p \in Executors \X Groups : gpc'[p[1]][p[2]] \in Holding }
            = { p \in Executors \X Groups : gpc[p[1]][p[2]] \in Holding } \ { << e, g >> }
      BY SMT, <3>1
    <3>3. "other" \notin Executors /\ g \notin Tasks
      BY RunAssumption
    <3> QED BY SMT, <1>0, <3>2, <3>3 DEF Holders
  <2> QED BY <1>0, <1>3, <2>1, <2>2, <2>3, GiveStep DEF SlotStep
<1> QED BY <1>1, <1>2, <1>3
        DEF AcquireTeamLead, ReleaseTeamLead, SignalOver, NoSlot, ReleaseSlot

(* An implement agent takes its slot, or gives it back.                    *)
LEMMA ImplementSlots ==
  ASSUME SlotInv, NEW e \in Executors, NEW t \in Tasks,
         AcquireImplement(e, t) \/ ReleaseImplement(e, t)
  PROVE  SlotInv' /\ SlotStep
<1>0. << e, t >> \in Clients /\ UNCHANGED << others, gpc >> /\ others \subseteq Others
  BY DEF Clients, AcquireImplement, ReleaseImplement, groupVars, SlotInv
<1>1. CASE TaskAt(e, t, "acquire") /\ TakesSlot(e) /\ tpc' = [tpc EXCEPT ![e][t] = "run"]
  <2>1. PCsOK'
    BY <1>0, <1>1 DEF SlotInv, PCsOK, TaskPCs
  <2>2. << e, t >> \notin Holders
    BY <1>1, HolderKinds DEF TaskAt
  <2>3. Holders' = Holders \cup { << e, t >> }
    BY SMT, <1>0, <1>1, RunAssumption DEF Holders, SlotInv, PCsOK, TaskAt
  <2> QED BY <1>0, <1>1, <2>1, <2>2, <2>3, TakeStep DEF TakesSlot, SlotStep
<1>2. ASSUME NEW pc \in {"over", "fallback", "record"}, tpc' = [tpc EXCEPT ![e][t] = pc],
             UNCHANGED active
      PROVE  SlotInv' /\ SlotStep
  BY Zenon, <1>0, <1>2, TaskMove DEF TaskPCs
<1>3. ASSUME NEW pc \in {"over", "fallback", "record"}, tpc' = [tpc EXCEPT ![e][t] = pc],
             TaskAt(e, t, "release"), active' = IF active > 0 THEN active - 1 ELSE 0
      PROVE  SlotInv' /\ SlotStep
  <2>1. PCsOK'
    BY <1>0, <1>3 DEF SlotInv, PCsOK, TaskPCs
  <2>2. << e, t >> \in Holders
    BY <1>3, HolderKinds DEF TaskAt
  <2>3. Holders' = Holders \ { << e, t >> }
    BY SMT, <1>0, <1>3, RunAssumption DEF Holders, SlotInv, PCsOK, TaskAt
  <2> QED BY <1>0, <1>3, <2>1, <2>2, <2>3, GiveStep DEF SlotStep
<1>4. CASE AcquireImplement(e, t)
  BY <1>1, <1>2, <1>4 DEF AcquireImplement, TaskOver, NoSlot
<1>5. CASE ReleaseImplement(e, t)
  BY Zenon, <1>2, <1>3, <1>5 DEF ReleaseImplement, ReleaseSlot
<1> QED BY <1>4, <1>5

(* The steps of a group goroutine that leave the governor alone.           *)
LEMMA GroupSlots ==
  ASSUME SlotInv, NEW e \in Executors, NEW g \in Groups, GroupStep(e, g)
  PROVE  SlotInv' /\ SlotStep
<1>1. ASSUME NEW pc \in GroupPCs, gpc' = [gpc EXCEPT ![e][g] = pc],
             pc \in Holding => gpc[e][g] \in Holding,
             UNCHANGED << governor, taskVars >>
      PROVE  SlotInv' /\ SlotStep
  <2>1. PCsOK' /\ UNCHANGED << active, others, tpc >>
    BY <1>1 DEF SlotInv, PCsOK, governor, taskVars
  <2> QED BY Zenon, <1>1, <2>1, GroupMove
<1>2. CASE SkipCompleted(e, g)
  BY <1>1, <1>2 DEF SkipCompleted, SignalOver, GroupPCs, Holding
<1>3. CASE ReceiveDep(e, g)
  <2>1. PICK pc \in {"relayOk", "relayFailed"} : gpc' = [gpc EXCEPT ![e][g] = pc]
    BY Zenon, <1>3 DEF ReceiveDep
  <2> QED BY Zenon, <1>1, <1>3, <2>1 DEF ReceiveDep, GroupPCs, Holding
<1>4. CASE Republish(e, g)
  <2>1. PICK pc \in {"wait", "sem"} : gpc' = [gpc EXCEPT ![e][g] = pc]
    BY <1>4 DEF Republish
  <2> QED BY <1>1, <1>4, <2>1 DEF Republish, GroupPCs, Holding
<1>5. CASE DepsReceived(e, g)
  BY <1>1, <1>5 DEF DepsReceived, GroupPCs, Holding
<1>6. CASE WaitFails(e, g)
  BY <1>1, <1>6 DEF WaitFails, SignalOver, GroupPCs, Holding
<1>7. CASE EnterGroupSem(e, g)
  BY <1>1, <1>7 DEF EnterGroupSem, SignalOver, GroupPCs, Holding
<1>8. CASE AcquireTeamLead(e, g) \/ ReleaseTeamLead(e, g)
  BY <1>8, TeamLeadSlots
<1>9. CASE StartTeamLead(e, g)
  <2>1. PICK pc \in {"end", "tasks"} : gpc' = [gpc EXCEPT ![e][g] = pc]
    BY <1>9 DEF StartTeamLead, Fails
  <2>2. /\ UNCHANGED << active, others >>
        /\ tpc' \in [Executors -> [Tasks -> TaskPCs]]
        /\ \A x \in Executors : \A t \in Tasks :
             tpc'[x][t] \in {"run", "release"} => tpc[x][t] \in {"run", "release"}
    <3>1. CASE UNCHANGED tpc
      BY <1>9, <3>1 DEF StartTeamLead, SlotInv, PCsOK, governor
    <3>2. CASE tpc' = [tpc EXCEPT ![e] =
                 [ t \in Tasks |-> IF t \in TasksOn(e, g) THEN "sem" ELSE tpc[e][t] ]]
      BY <1>9, <3>2 DEF StartTeamLead, SlotInv, PCsOK, governor, TaskPCs
    <3> QED BY <1>9, <3>1, <3>2 DEF StartTeamLead
  <2>3. gpc[e][g] \in Holding /\ pc \in GroupPCs
    BY <1>9 DEF StartTeamLead, At, Holding, GroupPCs
  <2>4. PCsOK'
    BY Zenon, <2>1, <2>2, <2>3 DEF SlotInv, PCsOK
  <2> QED BY Zenon, <2>1, <2>2, <2>3, <2>4, GroupMove
<1>10. CASE Aggregate(e, g)
  <2>1. PICK pc \in {"finish", "detect"} : gpc' = [gpc EXCEPT ![e][g] = pc]
    BY <1>10 DEF Aggregate, Fails
  <2> QED BY Zenon, <1>1, <1>10, <2>1 DEF Aggregate, At, GroupPCs, Holding
<1>11. CASE DetectBuild(e, g)
  <2>1. PICK pc \in {"finish", "build"} : gpc' = [gpc EXCEPT ![e][g] = pc]
    BY <1>11 DEF DetectBuild
  <2> QED BY <1>1, <1>11, <2>1 DEF DetectBuild, At, GroupPCs, Holding
<1>12. CASE Build(e, g)
  <2>1. PICK pc \in {"finish", "repair"} : gpc' = [gpc EXCEPT ![e][g] = pc]
    BY <1>12 DEF Build, Fails
  <2> QED BY Zenon, <1>1, <1>12, <2>1 DEF Build, At, GroupPCs, Holding
<1>13. CASE Repair(e, g)
  BY <1>1, <1>13 DEF Repair, At, GroupPCs, Holding
<1>14. CASE FinishTeamLead(e, g)
  BY <1>1, <1>14 DEF FinishTeamLead, At, GroupPCs, Holding
<1> QED BY <1>2, <1>3, <1>4, <1>5, <1>6, <1>7, <1>8, <1>9, <1>10, <1>11, <1>12,
           <1>13, <1>14 DEF GroupStep

(* The steps of a task goroutine; only a dispatch runs with a slot.        *)
LEMMA TaskSlots ==
  ASSUME SlotInv, NEW e \in Executors, NEW t \in Tasks, TaskStep(e, t)
  PROVE  SlotInv' /\ SlotStep
<1>1. ASSUME NEW pc \in TaskPCs, tpc' = [tpc EXCEPT ![e][t] = pc],
             pc \in {"run", "release"} => tpc[e][t] \in {"run", "release"},
             UNCHANGED << governor, groupVars >>
      PROVE  SlotInv' /\ SlotStep
  BY Zenon, <1>1, TaskMove DEF governor, groupVars
<1>2. CASE EnterImplSem(e, t)
  BY <1>1, <1>2 DEF EnterImplSem, TaskOver, TaskPCs
<1>3. CASE ClaimTask(e, t)
  <2>1. PICK pc \in {"over", "acquire"} : tpc' = [tpc EXCEPT ![e][t] = pc]
    BY <1>3 DEF ClaimTask, TaskOver
  <2> QED BY Zenon, <1>1, <1>3, <2>1 DEF ClaimTask, TaskPCs
<1>4. CASE AcquireImplement(e, t) \/ ReleaseImplement(e, t)
  BY <1>4, ImplementSlots
<1>5. CASE DispatchImplement(e, t)
  BY <1>1, <1>5 DEF DispatchImplement, TaskAt, TaskPCs
<1>6. CASE DispatchFallback(e, t)
  BY <1>1, <1>6 DEF DispatchFallback, TaskPCs
<1>7. CASE RecordOutcome(e, t)
  <2>1. PICK pc \in {"over", "acquire"} : tpc' = [tpc EXCEPT ![e][t] = pc]
    BY <1>7 DEF RecordOutcome, TaskOver
  <2> QED BY Zenon, <1>1, <1>7, <2>1 DEF RecordOutcome, TaskPCs
<1> QED BY <1>2, <1>3, <1>4, <1>5, <1>6, <1>7 DEF TaskStep

(* Execute itself takes no slot: a new call starts with all goroutines     *)
(* off, and StartBoard leaves them waiting.                                *)
LEMMA ExecuteSlots ==
  ASSUME SlotInv, NEW e \in Executors, LoadFails(e) \/ Execute(e) \/ MainStep(e)
  PROVE  SlotInv' /\ SlotStep
<1>1. UNCHANGED << active, others >>
  BY DEF LoadFails, Execute, MainStep, SaveNewBoard, BuildRow, BoardBuilt, CreateWorktrees,
         StartBoard, BreakerTripped, Finalize, governor
<1>2. CASE UNCHANGED << gpc, tpc >>
  BY <1>1, <1>2, LoseStep DEF SlotInv, PCsOK, SlotStep
<1>3. CASE Execute(e)
  <2>1. PCsOK'
    BY <1>3 DEF Execute, FreshCall, SlotInv, PCsOK, GroupPCs, TaskPCs
  <2>2. \A x \in Executors :
           /\ \A g \in Groups : gpc'[x][g] \in Holding => gpc[x][g] \in Holding
           /\ \A t \in Tasks : tpc'[x][t] \in {"run", "release"} => tpc[x][t] \in {"run", "release"}
    BY <1>3 DEF Execute, FreshCall, SlotInv, PCsOK, Holding
  <2> QED BY <1>1, <2>1, <2>2, LoseStep DEF SlotStep, SlotInv
<1>4. CASE UNCHANGED tpc /\ gpc' = [gpc EXCEPT ![e] =
             [ g \in Groups |-> IF OnBoard(e, g) THEN "wait" ELSE "off" ]]
  <2>1. PCsOK'
    BY <1>4 DEF SlotInv, PCsOK, GroupPCs
  <2>2. \A x \in Executors : \A g \in Groups :
           gpc'[x][g] \in Holding => gpc[x][g] \in Holding
    BY <1>4 DEF SlotInv, PCsOK, Holding
  <2> QED BY <1>1, <1>4, <2>1, <2>2, LoseStep DEF SlotStep, SlotInv
<1>5. CASE LoadFails(e) \/ SaveNewBoard(e) \/ BuildRow(e) \/ BoardBuilt(e)
           \/ CreateWorktrees(e) \/ BreakerTripped(e) \/ Finalize(e)
  BY <1>2, <1>5 DEF LoadFails, SaveNewBoard, BuildRow, BoardBuilt, CreateWorktrees,
                    BreakerTripped, Finalize, groupVars, taskVars
<1>6. CASE StartBoard(e)
  BY <1>2, <1>4, <1>6 DEF StartBoard, taskVars
<1> QED BY <1>3, <1>5, <1>6 DEF MainStep

(* The other clients take and give back slots; a crash ends every holder.  *)
LEMMA OutsideSlots ==
  ASSUME SlotInv, Crash \/ \E o \in Others : OtherAcquires(o) \/ OtherReleases(o)
  PROVE  SlotInv' /\ SlotStep
<1>0. "other" \notin Executors
  BY RunAssumption
<1>1. CASE Crash
  <2>1. PCsOK' /\ others' \subseteq others /\ UNCHANGED active
    BY <1>1 DEF Crash, SlotInv, PCsOK, GroupPCs, TaskPCs
  <2>2. \A x \in Executors :
           /\ \A g \in Groups : gpc'[x][g] \in Holding => gpc[x][g] \in Holding
           /\ \A t \in Tasks : tpc'[x][t] \in {"run", "release"} => tpc[x][t] \in {"run", "release"}
    BY <1>1 DEF Crash, Holding
  <2> QED BY <2>1, <2>2, LoseStep DEF SlotStep
<1>2. ASSUME NEW o \in Others, OtherAcquires(o)
      PROVE  SlotInv' /\ SlotStep
  <2>1. PCsOK' /\ others' \subseteq Others /\ UNCHANGED << gpc, tpc >>
    BY <1>2 DEF OtherAcquires, SlotInv, PCsOK, groupVars, taskVars
  <2>2. << "other", o >> \notin Holders
    BY <1>0, <1>2 DEF OtherAcquires, Holders
  <2>3. Holders' = Holders \cup { << "other", o >> }
    BY <1>2, <2>1 DEF OtherAcquires, Holders
  <2>4. << "other", o >> \in Clients
    BY DEF Clients
  <2> QED BY <1>2, <2>1, <2>2, <2>3, <2>4, TakeStep DEF OtherAcquires, SlotStep
<1>3. ASSUME NEW o \in Others, OtherReleases(o)
      PROVE  SlotInv' /\ SlotStep
  <2>1. PCsOK' /\ others' \subseteq Others /\ UNCHANGED << gpc, tpc >>
    BY <1>3 DEF OtherReleases, SlotInv, PCsOK, groupVars, taskVars
  <2>2. << "other", o >> \in Holders
    BY <1>3 DEF OtherReleases, Holders
  <2>3. Holders' = Holders \ { << "other", o >> }
    BY SMT, <1>0, <1>3, <2>1 DEF OtherReleases, Holders
  <2>4. << "other", o >> \in Clients
    BY DEF Clients
  <2>5. CASE active' = IF active > 0 THEN active - 1 ELSE 0
    BY <2>1, <2>2, <2>3, <2>4, <2>5, GiveStep DEF SlotStep
  <2>6. CASE UNCHANGED active
    <3>1. others' \subseteq others
      BY <1>3 DEF OtherReleases
    <3> QED BY <2>1, <2>6, <3>1, LoseStep DEF SlotStep
  <2> QED BY <1>3, <2>5, <2>6 DEF OtherReleases
<1> QED BY <1>1, <1>2, <1>3

(* At the start nobody holds a slot.                                       *)
LEMMA SlotsInit ==
  ASSUME Init
  PROVE  SlotInv /\ Slots!Init
<1>1. Holders = {}
  BY DEF Init, Holders, Holding
<1>2. PCsOK
  BY DEF Init, PCsOK, GroupPCs, TaskPCs
<1>3. MaxSlots \in Nat
  BY RunAssumption
<1> QED BY SMT, <1>1, <1>2, <1>3, FS_EmptySet DEF Init, SlotInv, Slots!Init

(* Every step keeps SlotInv and is a step of SlotPool or leaves it alone.  *)
LEMMA SlotsNext ==
  ASSUME SlotInv, [Next]_vars
  PROVE  SlotInv' /\ [Slots!Next]_(Slots!vars)
<1>1. CASE UNCHANGED vars
  <2>1. UNCHANGED << gpc, tpc, active, others >>
    BY <1>1 DEF vars, governor, groupVars, taskVars
  <2>2. Holders' = Holders
    BY <2>1 DEF Holders
  <2>3. PCsOK'
    BY <2>1 DEF SlotInv, PCsOK
  <2> QED BY <2>1, <2>2, <2>3 DEF SlotInv, Slots!vars
<1>2. CASE Next
  <2>1. SlotInv' /\ SlotStep
    BY <1>2, GroupSlots, TaskSlots, ExecuteSlots, OutsideSlots DEF Next, Step
  <2> QED BY <2>1 DEF SlotStep, Slots!Next, Clients
<1> QED BY <1>1, <1>2

(* The inductive invariant of the slots holds in every reachable state.    *)
THEOREM SlotInvCorrect == Spec => []SlotInv
BY SlotsInit, SlotsNext, PTL DEF Spec

(* At most MaxSlots clients of the governor hold a slot at any time, each  *)
(* of them counted, for any number of executors, groups and tasks.         *)
THEOREM SlotsCoveredCorrect == Spec => []SlotsCovered
<1>1. SlotInv => SlotsCovered
  BY DEF SlotInv, SlotsCovered, Slots!Covered, Slots!IsFiniteSet, IsFiniteSet,
         Slots!Cardinality, Cardinality
<1> QED BY <1>1, SlotInvCorrect, PTL

(* Refinement: the governor with all its clients, failing Releases and     *)
(* crashes implements SlotPool.                                            *)
THEOREM SlotsImplementedCorrect == Spec => SlotsImplemented
BY SlotsInit, SlotsNext, SlotInvCorrect, PTL DEF Spec, SlotsImplemented, Slots!Spec
=============================================================================
