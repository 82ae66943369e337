------------------------ MODULE SkillRegistryProofs -------------------------
(***************************************************************************)
(* Proofs about SkillRegistry, for any set of skills, seeds, requests and  *)
(* recorded runs: no skill becomes active that was never validated,        *)
(* although PatchStatus checks a transition in one statement and writes it *)
(* in another, no rollback delta is lost, a run that was reverted          *)
(* completely gives a second revert nothing to write, the first revert of  *)
(* a run has counted what it brought back, and the prior statuses of the   *)
(* audit trail are true.                                                   *)
(***************************************************************************)
EXTENDS SkillRegistry, TLAPS

(* What was checked when a status was read still justifies the write: the  *)
(* status may have changed since, but the time of validation stays.        *)
Justified(s, to) ==
  /\ to \in Statuses
  /\ s \in Skills \ Seeds /\ to \in {"active", "deprecated"} => rows[s].validated

(* A rollback is counted on the value that was read under the lock.        *)
Counted(s, who, n) ==
  s \in Skills => lock[s] = who /\ n = rows[s].rollbacks

RowsOK == rows \in [Skills -> Row] /\ lock \in [Skills -> Requests \cup {"free", "tool"}]

Flagged ==
  \A s \in Skills \ Seeds :
    rows[s].status \in {"validated", "active", "deprecated"} => rows[s].validated

WritesJustified ==
  /\ \A q \in Requests : req[q].at = "status" => Justified(req[q].skill, req[q].to)
  /\ pc = "update" => Justified(Head(report).skill, Head(report).new)
  /\ pc = "hopUpdate" => Justified(Head(report).skill, Head(path))

CountsHeld ==
  /\ \A q \in Requests : req[q].at = "metrics" => Counted(req[q].skill, q, req[q].count)
  /\ pc = "commit" => Counted(Head(report).skill, "tool", count)

CountsOK == added \in [Skills -> Nat] /\ MetricsAdditive

ReqOK == req \in [Requests -> [ at : {"none", "status", "metrics"}, skill : Skills \cup {"none"},
                                to : Statuses \cup {"none"}, count : Nat ]]

(* The inductive invariant.                                                *)
IInv == RowsOK /\ Flagged /\ WritesJustified /\ CountsHeld /\ CountsOK /\ ReqOK

(* Leaves are first-order unless they name SMT.                            *)
USE Zenon

-----------------------------------------------------------------------------
(* SkillRepo.PatchStatus on one row.                                       *)
LEMMA SetStatusRow ==
  ASSUME NEW row \in Row, NEW to \in Statuses
  PROVE  /\ SetStatus(row, to) \in Row
         /\ SetStatus(row, to).status = to
         /\ SetStatus(row, to).validated <=> row.validated \/ to = "validated"
         /\ SetStatus(row, to).rollbacks = row.rollbacks
<1>1. row = [ status |-> row.status, validated |-> row.validated, rollbacks |-> row.rollbacks ]
  BY DEF Row
<1>2. row.validated \in BOOLEAN /\ row.rollbacks \in Nat
  BY DEF Row
<1>3. PICK flag \in BOOLEAN : flag = (row.validated \/ to = "validated")
  OBVIOUS
<1>4. SetStatus(row, to) = [ row EXCEPT !.status = to, !.validated = flag ]
  BY <1>3, Zenon DEF SetStatus
<1>5. [ row EXCEPT !.status = to ] =
        [ status |-> to, validated |-> row.validated, rollbacks |-> row.rollbacks ]
  BY SMT, <1>1
<1>6. [ status |-> to, validated |-> row.validated, rollbacks |-> row.rollbacks ] \in Row
  BY <1>2, Zenon DEF Row
<1>7. PICK one \in Row : /\ one = [ row EXCEPT !.status = to ]
                         /\ one.status = to /\ one.rollbacks = row.rollbacks
  BY <1>5, <1>6
<1>8. SetStatus(row, to) = [ one EXCEPT !.validated = flag ]
  BY <1>4, <1>7
<1>9. /\ [ one EXCEPT !.validated = flag ] \in Row
      /\ [ one EXCEPT !.validated = flag ].status = one.status
      /\ [ one EXCEPT !.validated = flag ].rollbacks = one.rollbacks
      /\ [ one EXCEPT !.validated = flag ].validated <=> flag
  BY DEF Row
<1> QED BY <1>3, <1>7, <1>8, <1>9

(* The transitions lead to statuses, and to "active" and "deprecated" only *)
(* from a status that presupposes a validation.                            *)
LEMMA TransitionTargets ==
  ASSUME NEW from, NEW to \in AllowedTransitions(from)
  PROVE  /\ to \in Statuses
         /\ to \in {"active", "deprecated"} => from \in {"validated", "active", "deprecated"}
BY DEF AllowedTransitions, Statuses

(* The guard of PatchStatus justifies the write that follows it.           *)
LEMMA GuardJustifies ==
  ASSUME RowsOK, Flagged, NEW s, NEW to \in AllowedTransitions(rows[s].status)
  PROVE  Justified(s, to)
BY TransitionTargets DEF Justified, Flagged

(* A justified write of a status keeps the rows in order and disturbs      *)
(* neither what other writers have checked nor the counters.               *)
LEMMA StatusWrite ==
  ASSUME RowsOK, Flagged, CountsOK, NEW s, NEW to, Justified(s, to),
         rows' = [rows EXCEPT ![s] = SetStatus(@, to)], UNCHANGED << lock, added >>
  PROVE  /\ RowsOK' /\ Flagged' /\ CountsOK'
         /\ \A x, t : Justified(x, t) => Justified(x, t)'
         /\ \A x, w, n : Counted(x, w, n) => Counted(x, w, n)'
<1>1. CASE s \notin Skills
  <2>1. rows' = rows
    BY <1>1 DEF RowsOK
  <2> QED BY <2>1 DEF RowsOK, Flagged, CountsOK, MetricsAdditive, Justified, Counted
<1>2. CASE s \in Skills
  <2>1. rows[s] \in Row /\ to \in Statuses
    BY <1>2 DEF RowsOK, Justified
  <2>2. PICK new \in Row : /\ new = SetStatus(rows[s], to) /\ new.status = to
                           /\ new.validated <=> rows[s].validated \/ to = "validated"
                           /\ new.rollbacks = rows[s].rollbacks
    BY SMT, <2>1, SetStatusRow
  <2>3. rows' = [rows EXCEPT ![s] = new]
    BY <2>2
  <2>4. RowsOK' /\ CountsOK'
    BY <1>2, <2>2, <2>3 DEF RowsOK, CountsOK, MetricsAdditive
  <2>5. \A x \in Skills : /\ rows[x].validated => rows'[x].validated
                          /\ rows'[x].rollbacks = rows[x].rollbacks
    BY <1>2, <2>2, <2>3 DEF RowsOK
  <2>6. Flagged'
    BY <1>2, <2>2, <2>3 DEF RowsOK, Flagged, Justified
  <2> QED BY <2>4, <2>5, <2>6 DEF Justified, Counted
<1> QED BY <1>1, <1>2

(* Counting a rollback on the value read under the lock adds exactly one.  *)
LEMMA MetricsWrite ==
  ASSUME RowsOK, Flagged, CountsOK, NEW s, NEW old, NEW who, Counted(s, who, old),
         CommitMetrics(s, old)
  PROVE  /\ RowsOK' /\ Flagged' /\ CountsOK'
         /\ \A x, t : Justified(x, t) => Justified(x, t)'
         /\ \A x, w, n : w # who /\ Counted(x, w, n) => Counted(x, w, n)'
<1>1. CASE s \notin Skills
  <2>1. rows' = rows /\ lock' = lock /\ added' = added
    BY <1>1 DEF RowsOK, CountsOK, CommitMetrics
  <2> QED BY <2>1 DEF RowsOK, Flagged, CountsOK, MetricsAdditive, Justified, Counted
<1>2. CASE s \in Skills
  <2>1. rows[s] \in Row /\ old = rows[s].rollbacks /\ old \in Nat /\ lock[s] = who
    BY <1>2 DEF RowsOK, Counted, Row
  <2>2. PICK new \in Row : /\ new = [rows[s] EXCEPT !.rollbacks = old + 1]
                           /\ new.status = rows[s].status /\ new.rollbacks = old + 1
                           /\ new.validated <=> rows[s].validated
    <3>1. PICK row \in Row : row = rows[s]
      BY <2>1
    <3>2. old + 1 \in Nat
      BY SMT, <2>1
    <3>3. /\ [row EXCEPT !.rollbacks = old + 1] \in Row
          /\ [row EXCEPT !.rollbacks = old + 1].status = row.status
          /\ [row EXCEPT !.rollbacks = old + 1].rollbacks = old + 1
          /\ [row EXCEPT !.rollbacks = old + 1].validated <=> row.validated
      BY <3>2 DEF Row
    <3> QED BY <3>1, <3>3, Zenon
  <2>3. rows' = [rows EXCEPT ![s] = new]
    BY <2>2 DEF CommitMetrics
  <2>4. RowsOK'
    BY <1>2, <2>2, <2>3 DEF RowsOK, CommitMetrics
  <2>5. CountsOK'
    BY SMT, <1>2, <2>1, <2>2, <2>3 DEF RowsOK, CountsOK, MetricsAdditive, CommitMetrics
  <2>6. \A x \in Skills : /\ (rows'[x].validated <=> rows[x].validated)
                          /\ rows'[x].status = rows[x].status
                          /\ x # s => rows'[x] = rows[x] /\ lock'[x] = lock[x]
    BY <1>2, <2>2, <2>3 DEF RowsOK, CommitMetrics
  <2>7. Flagged'
    BY <1>2, <2>2, <2>3 DEF RowsOK, Flagged
  <2>8. \A x, t : Justified(x, t) => Justified(x, t)'
    BY <2>6 DEF Justified
  <2>9. \A x, w, n : w # who /\ Counted(x, w, n) => Counted(x, w, n)'
    BY <2>1, <2>6 DEF Counted
  <2> QED BY <2>4, <2>5, <2>7, <2>8, <2>9
<1> QED BY <1>1, <1>2

(* SeedSkills resets rows together with their count, and only rows that no *)
(* transaction has locked.                                                 *)
LEMMA SeedWrite ==
  ASSUME RowsOK, Flagged, CountsOK, NEW done \in SUBSET Seeds, Seed(done)
  PROVE  /\ rows' \in [Skills -> Row] /\ Flagged' /\ CountsOK'
         /\ \A x, t : Justified(x, t) => Justified(x, t)'
         /\ \A x \in Skills \ done : rows'[x] = rows[x]
<1>1. NewLegacy \in Row /\ NewLegacy.rollbacks = 0
  BY DEF NewLegacy, Row, Statuses
<1>2. rows' = [ s \in Skills |-> IF s \in done THEN NewLegacy ELSE rows[s] ]
  BY DEF Seed
<1>3. rows' \in [Skills -> Row]
  BY <1>1, <1>2 DEF RowsOK
<1>4. \A x \in Skills \ done : rows'[x] = rows[x]
  BY <1>2
<1>5. \A x \in done : x \in Skills => rows'[x] = NewLegacy
  BY <1>2
<1>6. CountsOK'
  BY <1>1, <1>4, <1>5 DEF CountsOK, MetricsAdditive, Seed
<1> QED BY <1>3, <1>4, <1>6 DEF Flagged, Justified

(* A step of the tool that writes no row, takes no lock of a request, and  *)
(* ends where nothing is pending.                                          *)
LEMMA ToolElsewhere ==
  ASSUME IInv, UNCHANGED << rows, req, added >>,
         lock' \in [Skills -> Requests \cup {"free", "tool"}],
         \A s \in Skills : lock[s] \in Requests => lock'[s] = lock[s],
         pc' \notin {"update", "hopUpdate", "commit"}
  PROVE  IInv'
<1>1. (RowsOK /\ Flagged /\ CountsOK /\ ReqOK)'
  BY DEF IInv, RowsOK, Flagged, CountsOK, MetricsAdditive, ReqOK
<1>2. WritesJustified'
  BY DEF IInv, WritesJustified, Justified
<1>3. CountsHeld'
  BY DEF IInv, CountsHeld, Counted
<1> QED BY <1>1, <1>2, <1>3 DEF IInv

(* The command returns early.                                              *)
LEMMA AbortsIInv ==
  ASSUME IInv, Aborts, UNCHANGED << lock, req >>
  PROVE  IInv'
BY ToolElsewhere DEF Aborts, End, IInv, RowsOK

-----------------------------------------------------------------------------
(* The invariant holds at the start.                                       *)
LEMMA InitIInv == Init => IInv
<1> SUFFICES ASSUME Init PROVE IInv
  OBVIOUS
<1>1. NewLegacy \in Row /\ NewLegacy.rollbacks = 0
  BY DEF NewLegacy, Row, Statuses
<1>2. RowsOK
  BY <1>1, RegistryAssumption DEF Init, RowsOK
<1>3. \A s \in Skills \ Seeds : rows[s] \in InitRows
  BY <1>1 DEF Init
<1>4. Flagged
  BY <1>3, RegistryAssumption DEF Flagged
<1>5. \A s \in Skills : rows[s].rollbacks = 0
  BY <1>1, RegistryAssumption DEF Init
<1>6. CountsOK
  BY <1>5 DEF Init, CountsOK, MetricsAdditive
<1>7. ReqOK
  BY DEF Init, ReqOK, NoRequest
<1>8. WritesJustified /\ CountsHeld
  BY DEF Init, WritesJustified, CountsHeld, NoRequest
<1> QED BY <1>2, <1>4, <1>6, <1>7, <1>8 DEF IInv

(* PATCH .../status: the read.                                             *)
LEMMA PatchStatusReadIInv ==
  ASSUME IInv, NEW q \in Requests, PatchStatusRead(q)
  PROVE  IInv'
<1>1. PICK s \in Skills, to \in Statuses :
        /\ to \in AllowedTransitions(rows[s].status)
        /\ req' = [req EXCEPT ![q] = [ at |-> "status", skill |-> s, to |-> to, count |-> 0 ]]
  BY DEF PatchStatusRead
<1> DEFINE new == [ at |-> "status", skill |-> s, to |-> to, count |-> 0 ]
<1>2. req' = [req EXCEPT ![q] = new]
  BY <1>1
<1>3. UNCHANGED << rows, lock, added, tool >>
  BY DEF PatchStatusRead
<1>4. (RowsOK /\ Flagged /\ CountsOK)'
  BY <1>3 DEF IInv, RowsOK, Flagged, CountsOK, MetricsAdditive
<1>5. ReqOK'
  BY <1>2 DEF IInv, ReqOK
<1>6. Justified(s, to)
  BY <1>1, GuardJustifies DEF IInv
<1>7. WritesJustified'
  BY <1>2, <1>3, <1>6 DEF IInv, WritesJustified, Justified, ReqOK, tool
<1>8. CountsHeld'
  BY <1>2, <1>3 DEF IInv, CountsHeld, Counted, ReqOK, tool
<1> QED BY <1>4, <1>5, <1>7, <1>8 DEF IInv

(* PATCH .../status: the update, or its failure.                           *)
LEMMA PatchStatusWriteIInv ==
  ASSUME IInv, NEW q \in Requests, PatchStatusWrite(q)
  PROVE  IInv'
<1> DEFINE s == req[q].skill
           to == req[q].to
<1>1. Justified(s, to) /\ RowsOK /\ Flagged /\ CountsOK /\ ReqOK
  BY DEF PatchStatusWrite, IInv, WritesJustified
<1>2. UNCHANGED << lock, added, tool >> /\ req' = [req EXCEPT ![q] = NoRequest]
  BY DEF PatchStatusWrite
<1>3. /\ (RowsOK /\ Flagged /\ CountsOK)'
      /\ \A x, t : Justified(x, t) => Justified(x, t)'
      /\ \A x, w, n : Counted(x, w, n) => Counted(x, w, n)'
  <2>1. CASE rows' = [rows EXCEPT ![s] = SetStatus(@, to)]
    BY <1>1, <1>2, <2>1, StatusWrite
  <2>2. CASE UNCHANGED rows
    BY <1>1, <1>2, <2>2 DEF RowsOK, Flagged, CountsOK, MetricsAdditive, Justified, Counted
  <2> QED BY <2>1, <2>2 DEF PatchStatusWrite, UpdateStatus
<1>4. ReqOK'
  BY <1>1, <1>2 DEF ReqOK, NoRequest
<1>5. \A p \in Requests : req'[p] = req[p] \/ req'[p] = NoRequest
  BY <1>1, <1>2 DEF ReqOK
<1>6. WritesJustified'
  BY SMT, <1>2, <1>3, <1>5 DEF IInv, WritesJustified, NoRequest, tool
<1>7. CountsHeld'
  BY SMT, <1>2, <1>3, <1>5 DEF IInv, CountsHeld, NoRequest, tool
<1> QED BY <1>3, <1>4, <1>6, <1>7 DEF IInv

(* PATCH .../metrics: the row lock, and what was read under it.            *)
LEMMA PatchMetricsLockIInv ==
  ASSUME IInv, NEW q \in Requests, PatchMetricsLock(q)
  PROVE  IInv'
<1>1. PICK s \in Skills :
        /\ LockMetrics(s, q)
        /\ req' = [req EXCEPT ![q] =
                     [ at |-> "metrics", skill |-> s, to |-> "none", count |-> rows[s].rollbacks ]]
  BY DEF PatchMetricsLock
<1> DEFINE new == [ at |-> "metrics", skill |-> s, to |-> "none", count |-> rows[s].rollbacks ]
<1>2. req' = [req EXCEPT ![q] = new]
  BY <1>1
<1>3. UNCHANGED << rows, added, tool >>
  BY DEF PatchMetricsLock
<1>4. /\ lock \in [Skills -> Requests \cup {"free", "tool"}]
      /\ lock[s] = "free" /\ lock' = [lock EXCEPT ![s] = q]
  BY <1>1 DEF LockMetrics, IInv, RowsOK
<1>5. rows[s].rollbacks \in Nat
  BY DEF IInv, RowsOK, Row
<1>6. (RowsOK /\ Flagged /\ CountsOK)'
  BY <1>3, <1>4 DEF IInv, RowsOK, Flagged, CountsOK, MetricsAdditive
<1>7. ReqOK'
  BY <1>2, <1>5 DEF IInv, ReqOK
<1>8. WritesJustified'
  BY <1>2, <1>3 DEF IInv, WritesJustified, Justified, ReqOK, tool
<1>9. \A x, w, n : w # "free" /\ Counted(x, w, n) => Counted(x, w, n)'
  BY <1>3, <1>4 DEF Counted
<1>10. "free" \notin Requests
  BY RegistryAssumption
<1>11. Counted(s, q, rows[s].rollbacks)'
  BY <1>3, <1>4 DEF Counted
<1>12. \A p \in Requests : p # q => req'[p] = req[p]
  BY <1>2 DEF IInv, ReqOK
<1>13. req'[q] = new
  BY <1>2 DEF IInv, ReqOK
<1>14. CountsHeld'
  BY SMT, <1>3, <1>9, <1>10, <1>11, <1>12, <1>13 DEF IInv, CountsHeld, tool
<1> QED BY <1>6, <1>7, <1>8, <1>14 DEF IInv

(* PATCH .../metrics: the commit, or the rollback of the transaction.      *)
LEMMA PatchMetricsCommitIInv ==
  ASSUME IInv, NEW q \in Requests, PatchMetricsCommit(q)
  PROVE  IInv'
<1> DEFINE s == req[q].skill
           n0 == req[q].count
<1>1. Counted(s, q, n0) /\ RowsOK /\ Flagged /\ CountsOK /\ ReqOK
  BY DEF PatchMetricsCommit, IInv, CountsHeld
<1>2. UNCHANGED tool /\ req' = [req EXCEPT ![q] = NoRequest]
  BY DEF PatchMetricsCommit
<1>3. /\ (RowsOK /\ Flagged /\ CountsOK)'
      /\ \A x, t : Justified(x, t) => Justified(x, t)'
      /\ \A x, w, n : w # q /\ Counted(x, w, n) => Counted(x, w, n)'
  <2>1. CASE CommitMetrics(s, n0)
    BY SMT, <1>1, <2>1, MetricsWrite
  <2>2. CASE lock' = [lock EXCEPT ![s] = "free"] /\ UNCHANGED << rows, added >>
    BY <1>1, <2>2 DEF RowsOK, Flagged, CountsOK, MetricsAdditive, Justified, Counted
  <2> QED BY <2>1, <2>2 DEF PatchMetricsCommit
<1>4. ReqOK'
  BY <1>1, <1>2 DEF ReqOK, NoRequest
<1>5. req'[q] = NoRequest /\ \A p \in Requests : p # q => req'[p] = req[p]
  BY <1>1, <1>2 DEF ReqOK
<1>6. WritesJustified'
  BY SMT, <1>2, <1>3, <1>5 DEF IInv, WritesJustified, NoRequest, tool
<1>7. q # "tool"
  BY RegistryAssumption
<1>8. CountsHeld'
  BY SMT, <1>2, <1>3, <1>5, <1>7 DEF IInv, CountsHeld, NoRequest, tool
<1> QED BY <1>3, <1>4, <1>6, <1>8 DEF IInv

(* A restart of the server loses its requests with their locks, and seeds. *)
LEMMA ServerBootIInv ==
  ASSUME IInv, ServerBoot
  PROVE  IInv'
<1>1. RowsOK /\ Flagged /\ CountsOK /\ Seed(Seeds) /\ UNCHANGED tool
  BY DEF IInv, ServerBoot
<1>2. /\ rows' \in [Skills -> Row] /\ Flagged' /\ CountsOK'
      /\ \A x, t : Justified(x, t) => Justified(x, t)'
      /\ \A x \in Skills \ Seeds : rows'[x] = rows[x]
  BY <1>1, SeedWrite
<1>3. lock' \in [Skills -> Requests \cup {"free", "tool"}]
      /\ \A x \in Skills : lock[x] = "tool" => lock'[x] = "tool"
  BY <1>1, RegistryAssumption DEF ServerBoot, RowsOK
<1>4. \A p \in Requests : req'[p] = NoRequest
  BY DEF ServerBoot
<1>5. ReqOK'
  BY DEF ServerBoot, ReqOK, NoRequest
<1>6. WritesJustified'
  <2>1. \A p \in Requests : req'[p].at # "status"
    BY SMT, <1>4 DEF NoRequest
  <2>2. WritesJustified /\ UNCHANGED << pc, report, path >>
    BY <1>1 DEF IInv, tool
  <2> QED BY <1>2, <2>1, <2>2 DEF WritesJustified
<1>7. \A x \in Seeds : lock[x] # "tool"
  BY <1>1 DEF Seed
<1>8. \A x, n : Counted(x, "tool", n) => Counted(x, "tool", n)'
  BY <1>2, <1>3, <1>7 DEF Counted
<1>9. CountsHeld'
  BY SMT, <1>1, <1>4, <1>8 DEF IInv, CountsHeld, NoRequest, tool
<1> QED BY <1>2, <1>3, <1>5, <1>6, <1>9 DEF IInv, RowsOK

(* A command begins: Wire seeds the table, all of it or a part.            *)
LEMMA CommandIInv ==
  ASSUME IInv, NEW m, Command(m)
  PROVE  IInv'
<1>1. RowsOK /\ Flagged /\ CountsOK /\ ReqOK /\ UNCHANGED << lock, req >> /\ pc = "idle"
  BY DEF IInv, Command
<1>2. PICK done \in SUBSET Seeds : Seed(done)
  BY DEF Command
<1>3. /\ rows' \in [Skills -> Row] /\ Flagged' /\ CountsOK'
      /\ \A x, t : Justified(x, t) => Justified(x, t)'
      /\ \A x \in Skills \ done : rows'[x] = rows[x]
  BY <1>1, <1>2, SeedWrite
<1>4. pc' \in {"idle", "plan", "find"}
  BY <1>1 DEF Command, tool
<1>5. RowsOK' /\ ReqOK'
  BY <1>1, <1>3 DEF RowsOK, ReqOK
<1>6. WritesJustified'
  BY <1>1, <1>3, <1>4 DEF IInv, WritesJustified
<1>7. \A x, w, n : w # "free" /\ Counted(x, w, n) => Counted(x, w, n)'
  BY <1>1, <1>3 DEF Counted, Command
<1>8. "free" \notin Requests
  BY RegistryAssumption
<1>9. CountsHeld'
  BY <1>1, <1>4, <1>7, <1>8 DEF IInv, CountsHeld
<1> QED BY <1>3, <1>5, <1>6, <1>9 DEF IInv

-----------------------------------------------------------------------------
(* The reeval tool.  What it reads justifies what it writes next.          *)

(* PatchStatus reads the row, in the plan's loop and in a walk.            *)
LEMMA ReadIInv ==
  ASSUME IInv, ApplyRead \/ HopRead
  PROVE  IInv'
<1>0. UNCHANGED << rows, lock, added, req >>
  BY DEF ApplyRead, HopRead, Aborts, ToolUnchanged
<1>1. CASE pc' \notin {"update", "hopUpdate", "commit"}
  BY <1>0, <1>1, ToolElsewhere DEF IInv, RowsOK
<1>2. CASE pc' \in {"update", "hopUpdate", "commit"}
  <2>1. \/ /\ pc' = "update" /\ UNCHANGED << report, path >>
           /\ Head(report).new \in AllowedTransitions(rows[Head(report).skill].status)
        \/ /\ pc' = "hopUpdate" /\ UNCHANGED << report, path >>
           /\ Head(path) \in AllowedTransitions(rows[Head(report).skill].status)
    BY <1>2 DEF ApplyRead, HopRead, Aborts, End, Goto, WalkFails
  <2>2. \/ /\ pc' = "update" /\ UNCHANGED << report, path >>
           /\ Justified(Head(report).skill, Head(report).new)
        \/ /\ pc' = "hopUpdate" /\ UNCHANGED << report, path >>
           /\ Justified(Head(report).skill, Head(path))
    BY <2>1, GuardJustifies DEF IInv
  <2>3. (RowsOK /\ Flagged /\ CountsOK /\ ReqOK)'
    BY <1>0 DEF IInv, RowsOK, Flagged, CountsOK, MetricsAdditive, ReqOK
  <2>4. WritesJustified'
    BY <1>0, <2>2 DEF IInv, WritesJustified, Justified
  <2>5. CountsHeld'
    BY <1>0, <2>2 DEF IInv, CountsHeld, Counted
  <2> QED BY <2>3, <2>4, <2>5 DEF IInv
<1> QED BY <1>1, <1>2

(* PatchStatus updates the row.                                            *)
LEMMA WriteIInv ==
  ASSUME IInv, ApplyWrite \/ HopWrite
  PROVE  IInv'
<1>0. UNCHANGED << lock, added, req >>
  BY DEF ApplyWrite, HopWrite, Aborts, ToolUnchanged
<1>1. pc' \notin {"update", "hopUpdate", "commit"}
  BY DEF ApplyWrite, HopWrite, Aborts, End, WalkFails
<1>2. CASE UNCHANGED rows
  BY <1>0, <1>1, <1>2, ToolElsewhere DEF IInv, RowsOK
<1>3. CASE ~UNCHANGED rows
  <2>1. PICK s, to : Justified(s, to) /\ rows' = [rows EXCEPT ![s] = SetStatus(@, to)]
    <3>1. CASE ApplyWrite
      BY <1>3, <3>1 DEF IInv, WritesJustified, ApplyWrite, UpdateStatus, Aborts
    <3>2. CASE HopWrite
      BY <1>3, <3>2 DEF IInv, WritesJustified, HopWrite, UpdateStatus
    <3> QED BY <3>1, <3>2
  <2>2. /\ RowsOK' /\ Flagged' /\ CountsOK'
        /\ \A x, t : Justified(x, t) => Justified(x, t)'
        /\ \A x, w, n : Counted(x, w, n) => Counted(x, w, n)'
    BY <1>0, <2>1, StatusWrite DEF IInv
  <2>3. ReqOK'
    BY <1>0 DEF IInv, ReqOK
  <2>4. WritesJustified'
    BY <1>0, <1>1, <2>2 DEF IInv, WritesJustified
  <2>5. CountsHeld'
    BY <1>0, <1>1, <2>2 DEF IInv, CountsHeld
  <2> QED BY <2>2, <2>3, <2>4, <2>5 DEF IInv
<1> QED BY <1>2, <1>3

(* The rollback is counted: the lock and the read.                         *)
LEMMA MetricLockIInv ==
  ASSUME IInv, MetricLock
  PROVE  IInv'
<1>1. CASE Aborts /\ UNCHANGED lock
  BY <1>1, AbortsIInv DEF MetricLock, ToolUnchanged
<1>2. CASE ~(Aborts /\ UNCHANGED lock)
  <2> DEFINE s == Head(report).skill
  <2>1. /\ lock[s] = "free" /\ lock' = [lock EXCEPT ![s] = "tool"] /\ pc' = "commit"
        /\ count' = rows[s].rollbacks /\ UNCHANGED << rows, added, req, report >>
    BY <1>2 DEF MetricLock, LockMetrics, ToolUnchanged
  <2>2. (RowsOK /\ Flagged /\ CountsOK /\ ReqOK)'
    BY <2>1 DEF IInv, RowsOK, Flagged, CountsOK, MetricsAdditive, ReqOK
  <2>3. WritesJustified'
    BY <2>1 DEF IInv, WritesJustified, Justified
  <2>4. \A x, w, n : w # "free" /\ Counted(x, w, n) => Counted(x, w, n)'
    BY <2>1 DEF IInv, RowsOK, Counted
  <2>5. Counted(s, "tool", rows[s].rollbacks)'
    BY <2>1 DEF IInv, RowsOK, Counted
  <2>6. "free" \notin Requests
    BY RegistryAssumption
  <2>7. CountsHeld'
    BY <2>1, <2>4, <2>5, <2>6 DEF IInv, CountsHeld
  <2> QED BY <2>2, <2>3, <2>7 DEF IInv
<1> QED BY <1>1, <1>2

(* The rollback is counted: the commit, or the end of the transaction.     *)
LEMMA MetricCommitIInv ==
  ASSUME IInv, MetricCommit
  PROVE  IInv'
<1> DEFINE s == Head(report).skill
<1>0. Counted(s, "tool", count) /\ "tool" \notin Requests
  BY RegistryAssumption DEF MetricCommit, IInv, CountsHeld
<1>1. CASE Aborts /\ lock' = [lock EXCEPT ![s] = "free"]
  <2>1. \A x \in Skills : lock[x] \in Requests => lock'[x] = lock[x]
    BY <1>0, <1>1 DEF Counted, IInv, RowsOK
  <2> QED BY <1>1, <2>1, ToolElsewhere DEF MetricCommit, ToolUnchanged, Aborts, End, IInv, RowsOK
<1>2. CASE CommitMetrics(s, count) /\ pc' = "item"
  <2>1. /\ RowsOK' /\ Flagged' /\ CountsOK'
        /\ \A x, t : Justified(x, t) => Justified(x, t)'
        /\ \A x, w, n : w # "tool" /\ Counted(x, w, n) => Counted(x, w, n)'
    BY <1>0, <1>2, MetricsWrite DEF IInv
  <2>2. UNCHANGED req
    BY DEF MetricCommit, ToolUnchanged
  <2>3. ReqOK'
    BY <2>2 DEF IInv, ReqOK
  <2>4. WritesJustified'
    BY <1>2, <2>1, <2>2 DEF IInv, WritesJustified
  <2>5. CountsHeld'
    BY <1>0, <1>2, <2>1, <2>2 DEF IInv, CountsHeld
  <2> QED BY <2>1, <2>3, <2>4, <2>5 DEF IInv
<1> QED BY <1>1, <1>2 DEF MetricCommit

(* Everything else the tool does, and its end by a signal.                 *)
LEMMA OtherToolIInv ==
  ASSUME IInv,
         \/ Plan \/ ApplySkip \/ SaveApply \/ FindRun \/ CheckReverted \/ RevertItem
         \/ SaveRevert \/ Kill
  PROVE  IInv'
<1>1. UNCHANGED << rows, added, req >> /\ pc' \notin {"update", "hopUpdate", "commit"}
  BY DEF Plan, ApplySkip, SaveApply, FindRun, CheckReverted, RevertItem, SaveRevert, Kill, Aborts,
         End, ToolUnchanged
<1>2. /\ lock' \in [Skills -> Requests \cup {"free", "tool"}]
      /\ \A s \in Skills : lock[s] \in Requests => lock'[s] = lock[s]
  <2>1. CASE UNCHANGED lock
    BY <2>1 DEF IInv, RowsOK
  <2>2. CASE Kill
    BY <2>2, RegistryAssumption DEF Kill, IInv, RowsOK
  <2> QED BY <2>1, <2>2 DEF Plan, ApplySkip, SaveApply, FindRun, CheckReverted, RevertItem, SaveRevert
<1> QED BY <1>1, <1>2, ToolElsewhere

(* Every step keeps the invariant.                                         *)
LEMMA NextIInv == IInv /\ [Next]_vars => IInv'
<1> SUFFICES ASSUME IInv, [Next]_vars PROVE IInv'
  OBVIOUS
<1>1. CASE UNCHANGED vars
  BY <1>1 DEF vars, tool, IInv, RowsOK, Flagged, WritesJustified, Justified, CountsHeld, Counted,
              CountsOK, MetricsAdditive, ReqOK
<1>2. ASSUME NEW c \in Changes, TaskAttempted(c) PROVE IInv'
  BY <1>2 DEF TaskAttempted, tool, IInv, RowsOK, Flagged, WritesJustified, Justified, CountsHeld,
              Counted, CountsOK, MetricsAdditive, ReqOK
<1>3. CASE ToolStep
  BY <1>3, ReadIInv, WriteIInv, MetricLockIInv, MetricCommitIInv, OtherToolIInv DEF ToolStep
<1> QED BY <1>1, <1>2, <1>3, PatchStatusReadIInv, PatchStatusWriteIInv, PatchMetricsLockIInv,
           PatchMetricsCommitIInv, ServerBootIInv, CommandIInv, OtherToolIInv
           DEF Next, RequestStep

(* The inductive invariant holds in every reachable state.                 *)
THEOREM IInvCorrect == Spec => []IInv
BY InitIInv, NextIInv, PTL DEF Spec

(* No skill outside the seeds is active, or has been, that was never       *)
(* validated, whatever requests and commands overlap.                      *)
THEOREM ActiveWasValidatedCorrect == Spec => []ActiveWasValidated
<1>1. IInv => ActiveWasValidated
  BY DEF IInv, Flagged, ActiveWasValidated
<1> QED BY <1>1, IInvCorrect, PTL

(* No rollback delta is lost: PatchMetrics reads and writes under the lock. *)
THEOREM MetricsAdditiveCorrect == Spec => []MetricsAdditive
<1>1. IInv => MetricsAdditive
  BY DEF IInv, CountsOK
<1> QED BY <1>1, IInvCorrect, PTL

-----------------------------------------------------------------------------
(* The audit trail, and the revert of a run.                               *)

Recorded(r) == { audit[r].items[k] : k \in 1 .. Len(audit[r].items) }

(* Every skill of the run is where the run found it.                       *)
IsBack(r) == \A item \in Recorded(r) : rows[item.skill].status = item.prior

PlanRows == [ skill : Skills, prior : Statuses, new : Statuses ]

Applying  == {"idle", "plan", "find", "patch", "update"}
Walking   == {"hop", "hopUpdate"}
Reverting == {"exists", "item", "metric", "commit"} \cup Walking

(* What is recorded, and where the tool is in it: a revert has a run, and  *)
(* goes through items of that run.                                         *)
TrailOK ==
  /\ audit \in Seq(Run) /\ items \in Seq(Item)
  /\ pc \in Applying \cup Reverting
  /\ pc \in Applying => run = 0
  /\ pc \in Reverting => run \in 1 .. Len(audit) /\ report \in Seq(Recorded(run))
  /\ pc \in {"patch", "update"} => report \in Seq(PlanRows)
  /\ pc \in Walking \cup {"update", "metric", "commit"} => report # << >>
  /\ pc = "update" => read \in Statuses
  /\ pc \in Walking => start \in Statuses /\ reached \in Statuses

(* A complete revert, as long as nothing was written since, leaves the     *)
(* next one of that run nothing to walk.                                   *)
RestoredOK ==
  /\ restored \in 0 .. Len(audit)
  /\ restored # 0 => IsBack(restored)
  /\ run # 0 /\ restored = run => pc \in {"exists", "item"}

TrailInv == TrailOK /\ RestoredOK

EventsOK == events \in Nat

(* The head and the tail of a list.                                        *)
LEMMA ListParts ==
  ASSUME NEW S, NEW s \in Seq(S), s # << >>
  PROVE  Head(s) \in S /\ Tail(s) \in Seq(S)
BY SMT

(* A list grows.                                                           *)
LEMMA ListGrows ==
  ASSUME NEW S, NEW s \in Seq(S), NEW x \in S
  PROVE  Append(s, x) \in Seq(S)
BY SMT

(* The items of a recorded run are items of skills.                        *)
LEMMA RecordedItems ==
  ASSUME audit \in Seq(Run), NEW r \in 1 .. Len(audit)
  PROVE  /\ Recorded(r) \subseteq Item
         /\ audit[r].items \in Seq(Recorded(r))
<1>1. audit[r] \in Run
  BY SMT
<1>2. audit[r].items \in Seq(Item)
  BY <1>1 DEF Run
<1>3. \A k \in 1 .. Len(audit[r].items) : audit[r].items[k] \in Item
  BY SMT, <1>2
<1>4. Recorded(r) \subseteq Item
  BY <1>3 DEF Recorded
<1>5. ASSUME NEW q \in Seq(Item) PROVE q \in Seq({ q[k] : k \in 1 .. Len(q) })
  BY SMT
<1> QED
  BY <1>2, <1>4, <1>5 DEF Recorded

(* A run is recorded, and the earlier ones stay as they are.               *)
LEMMA TrailGrows ==
  ASSUME audit \in Seq(Run), NEW x \in Run, audit' = Append(audit, x)
  PROVE  /\ audit' \in Seq(Run) /\ \A n \in 0 .. Len(audit) : n \in 0 .. Len(audit')
         /\ \A r \in 1 .. Len(audit) : Recorded(r)' = Recorded(r)
<1>1. audit' \in Seq(Run)
  BY ListGrows
<1>2. \A n \in 0 .. Len(audit) : n \in 0 .. Len(audit')
  BY SMT
<1>3. \A r \in 1 .. Len(audit) : audit'[r] = audit[r]
  BY SMT
<1> QED
  BY <1>1, <1>2, <1>3 DEF Recorded

(* The skills of a run that are back stay there while no status changes.   *)
LEMMA BackStays ==
  ASSUME audit \in Seq(Run), NEW r \in 1 .. Len(audit), IsBack(r), Recorded(r)' = Recorded(r),
         \A s \in Skills : rows'[s].status = rows[s].status
  PROVE  IsBack(r)'
<1>1. \A item \in Recorded(r) : item.skill \in Skills
  BY RecordedItems DEF Item
<1> QED
  BY <1>1 DEF IsBack

(* What the part about the last complete revert needs of a step that       *)
(* records nothing.                                                        *)
LEMMA RestoredKept ==
  ASSUME TrailInv, audit' = audit,
         \/ restored' = 0
         \/ restored' = restored /\ \A s \in Skills : rows'[s].status = rows[s].status,
         run' # 0 /\ restored' = run' => pc' \in {"exists", "item"}
  PROVE  RestoredOK'
<1>1. audit \in Seq(Run) /\ restored \in 0 .. Len(audit)
  BY DEF TrailInv, TrailOK, RestoredOK
<1>2. 0 \in 0 .. Len(audit) /\ (restored # 0 => restored \in 1 .. Len(audit))
  BY SMT, <1>1
<1>3. \A r : Recorded(r)' = Recorded(r)
  BY DEF Recorded
<1>4. CASE restored' = 0
  BY <1>2, <1>4 DEF RestoredOK
<1>5. CASE restored' = restored /\ \A s \in Skills : rows'[s].status = rows[s].status
  <2>1. PICK r : r = restored
    OBVIOUS
  <2>2. r # 0 => IsBack(r)
    BY <2>1 DEF TrailInv, RestoredOK
  <2>3. r # 0 => IsBack(r)'
    BY <1>1, <1>2, <1>3, <1>5, <2>1, <2>2, BackStays
  <2>4. restored' # 0 => IsBack(restored)'
    BY <1>5, <2>1, <2>3
  <2> QED
    BY <1>1, <1>5, <2>4 DEF RestoredOK
<1> QED
  BY <1>4, <1>5

(* Counting a rollback changes no status.                                  *)
LEMMA CommitKeepsStatus ==
  ASSUME RowsOK, NEW s, NEW old, CommitMetrics(s, old), NEW x \in Skills
  PROVE  rows'[x].status = rows[x].status
<1>1. rows \in [Skills -> Row] /\ rows' = [rows EXCEPT ![s].rollbacks = old + 1]
  BY DEF RowsOK, CommitMetrics
<1>2. CASE x # s
  BY <1>1, <1>2
<1>3. CASE x = s
  <2>1. rows[s] \in Row /\ rows'[s] = [rows[s] EXCEPT !.rollbacks = old + 1]
    BY <1>1, <1>3
  <2> QED
    BY <1>3, <2>1 DEF Row
<1> QED
  BY <1>2, <1>3

(* Nothing is recorded at the start that was not there before.             *)
LEMMA InitTrail == Init => TrailInv
<1> SUFFICES ASSUME Init PROVE TrailInv
  OBVIOUS
<1>1. audit \in Seq(Run) /\ << >> \in Seq(Item)
  BY SMT, RegistryAssumption DEF Init
<1>2. 0 \in 0 .. Len(audit)
  BY SMT, <1>1
<1> QED
  BY <1>1, <1>2 DEF Init, TrailInv, TrailOK, RestoredOK, Applying, Reverting, Walking

(* The tool does not move.                                                 *)
LEMMA ToolWaits ==
  ASSUME TrailInv, UNCHANGED << tool, audit >>,
         \/ restored' = 0
         \/ restored' = restored /\ \A s \in Skills : rows'[s].status = rows[s].status
  PROVE  TrailInv'
<1>1. TrailOK'
  BY DEF TrailInv, TrailOK, Recorded, tool
<1>2. run' # 0 /\ restored' = run' => pc' \in {"exists", "item"}
  BY DEF TrailInv, RestoredOK, tool
<1>3. RestoredOK'
  BY <1>2, RestoredKept
<1> QED
  BY <1>1, <1>3 DEF TrailInv

(* Requests, attempts and restarts of the server.                          *)
LEMMA SurroundingsTrail ==
  ASSUME IInv, TrailInv,
         \/ \E q \in Requests : PatchStatusRead(q) \/ PatchMetricsLock(q) \/ RequestStep(q)
         \/ \E c \in Changes : TaskAttempted(c)
         \/ ServerBoot
  PROVE  TrailInv'
<1>1. UNCHANGED << tool, audit >>
  BY DEF PatchStatusRead, PatchMetricsLock, RequestStep, PatchStatusWrite, PatchMetricsCommit,
         TaskAttempted, ServerBoot
<1>2. CASE rows' = rows /\ restored' = restored
  BY <1>1, <1>2, ToolWaits
<1>3. CASE restored' = 0
  BY <1>1, <1>3, ToolWaits
<1>4. ASSUME NEW q \in Requests, PatchMetricsCommit(q) PROVE TrailInv'
  <2>1. restored' = restored
    BY <1>4 DEF PatchMetricsCommit
  <2>2. CASE CommitMetrics(req[q].skill, req[q].count)
    BY <1>1, <2>1, <2>2, CommitKeepsStatus, ToolWaits DEF IInv
  <2>3. CASE rows' = rows
    BY <1>2, <2>1, <2>3
  <2> QED
    BY <1>4, <2>2, <2>3 DEF PatchMetricsCommit
<1>5. CASE ServerBoot
  <2>1. \/ rows' = rows /\ restored' = restored
        \/ restored' = 0
    BY <1>5 DEF ServerBoot, Seed
  <2> QED
    BY <2>1, <1>2, <1>3
<1> QED
  BY <1>2, <1>3, <1>4, <1>5 DEF PatchStatusRead, PatchMetricsLock, RequestStep, PatchStatusWrite,
                                TaskAttempted

(* A command begins.                                                       *)
LEMMA CommandTrail ==
  ASSUME TrailInv, NEW m, Command(m)
  PROVE  TrailInv'
<1>1. \/ rows' = rows /\ restored' = restored
      \/ restored' = 0
  BY DEF Command, Seed
<1>2. audit' = audit /\ pc = "idle"
  BY DEF Command
<1>3. CASE UNCHANGED tool
  BY <1>1, <1>2, <1>3, ToolWaits
<1>4. CASE pc' \in {"plan", "find"} /\ run' = run /\ items' = items
  <2>1. run = 0
    BY <1>2 DEF TrailInv, TrailOK, Applying
  <2>2. TrailOK'
    BY <1>2, <1>4, <2>1 DEF TrailInv, TrailOK, Applying, Reverting, Walking
  <2>3. RestoredOK'
    BY <1>1, <1>2, <1>4, <2>1, RestoredKept
  <2> QED
    BY <2>2, <2>3 DEF TrailInv
<1> QED
  BY <1>3, <1>4 DEF Command

(* A command returns without recording anything.                           *)
LEMMA EndTrail ==
  ASSUME TrailInv, End, UNCHANGED << rows, audit, restored >>
  PROVE  TrailInv'
<1>1. << >> \in Seq(Item)
  BY SMT
<1>2. TrailOK'
  BY <1>1 DEF End, TrailInv, TrailOK, Applying, Reverting, Walking
<1>3. RestoredOK'
  BY RestoredKept DEF End
<1> QED
  BY <1>2, <1>3 DEF TrailInv

(* The plan lists the skills.                                              *)
LEMMA PlanTrail ==
  ASSUME IInv, TrailInv, Plan
  PROVE  TrailInv'
<1>1. CASE End /\ UNCHANGED << rows, audit, restored >>
  BY <1>1, EndTrail
<1>2. CASE /\ report' = [ i \in 1 .. Len(SkillOrder) |-> PlanRow(SkillOrder[i]) ]
           /\ pc' = "patch" /\ UNCHANGED << rows, audit, restored, run, items >>
  <2>1. ASSUME NEW s \in Skills PROVE PlanRow(s) \in PlanRows
    <3>1. rows[s].status \in Statuses
      BY DEF IInv, RowsOK, Row
    <3>2. Proposed(rows[s].status, ApplyAttempts(s)) \in Statuses
      BY <3>1 DEF Proposed, Statuses
    <3> QED
      BY <3>1, <3>2 DEF PlanRow, PlanRows
  <2>2. \A i \in 1 .. Len(SkillOrder) : PlanRow(SkillOrder[i]) \in PlanRows
    <3>1. \A i \in 1 .. Len(SkillOrder) : SkillOrder[i] \in Skills
      BY SMT, RegistryAssumption
    <3> QED
      BY <2>1, <3>1
  <2>3. report' \in Seq(PlanRows)
    <3>1. Len(SkillOrder) \in Nat
      BY SMT, RegistryAssumption
    <3> QED
      BY SMT, <1>2, <2>2, <3>1
  <2>4. run = 0
    BY DEF Plan, TrailInv, TrailOK, Applying
  <2>5. TrailOK'
    BY <1>2, <2>3, <2>4 DEF TrailInv, TrailOK, Applying, Reverting, Walking
  <2>6. RestoredOK'
    BY <1>2, <2>4, RestoredKept
  <2> QED
    BY <2>5, <2>6 DEF TrailInv
<1> QED
  BY <1>1, <1>2 DEF Plan, Aborts

(* The rows of the plan, one after the other.                              *)
LEMMA ApplyTrail ==
  ASSUME TrailInv, ApplySkip \/ ApplyRead \/ ApplyWrite
  PROVE  TrailInv'
<1>1. CASE Aborts
  BY <1>1, EndTrail DEF Aborts
<1>2. CASE ~Aborts
  <2>1. /\ pc \in {"patch", "update"} /\ report # << >>
        /\ run' = run /\ audit' = audit /\ pc' \in {"patch", "update"}
    BY <1>2 DEF ApplySkip, ApplyRead, ApplyWrite, TrailInv, TrailOK
  <2>2. report \in Seq(PlanRows) /\ run = 0 /\ items \in Seq(Item)
    BY <2>1 DEF TrailInv, TrailOK, Applying
  <2>3. Head(report) \in PlanRows /\ Tail(report) \in Seq(PlanRows)
    BY <2>1, <2>2, ListParts
  <2>4. \/ report' = Tail(report) /\ pc' = "patch"
        \/ /\ report' = report /\ pc' = "update" /\ read' = rows[Head(report).skill].status
           /\ Head(report).new \in AllowedTransitions(rows[Head(report).skill].status)
    BY <1>2 DEF ApplySkip, ApplyRead, ApplyWrite
  <2>5. report' \in Seq(PlanRows) /\ (pc' = "update" => report' # << >>)
    BY <2>1, <2>2, <2>3, <2>4
  <2>6. pc' = "update" => read' \in Statuses
    BY <2>4 DEF AllowedTransitions, Statuses
  <2>7. items' \in Seq(Item)
    <3>1. CASE items' = items
      BY <2>2, <3>1
    <3>2. CASE ApplyWrite
      <4> DEFINE row == Head(report)
                 x == [ skill |-> row.skill, prior |-> row.prior, new |-> row.new, read |-> read ]
      <4>1. read \in Statuses
        BY <3>2 DEF ApplyWrite, TrailInv, TrailOK
      <4>2. x \in Item
        BY <2>3, <4>1 DEF PlanRows, Item
      <4>3. items' = Append(items, x)
        BY <1>2, <3>2 DEF ApplyWrite
      <4> QED
        BY <2>2, <4>2, <4>3, ListGrows
    <3> QED
      BY <1>2, <3>1, <3>2 DEF ApplySkip, ApplyRead
  <2>8. TrailOK'
    BY <2>1, <2>2, <2>5, <2>6, <2>7 DEF TrailInv, TrailOK, Applying, Reverting, Walking
  <2>9. restored' = 0 \/ (restored' = restored /\ rows' = rows)
    BY <1>2 DEF ApplySkip, ApplyRead, ApplyWrite
  <2>10. RestoredOK'
    BY <2>1, <2>2, <2>9, RestoredKept
  <2> QED
    BY <2>8, <2>10 DEF TrailInv
<1> QED
  BY <1>1, <1>2

(* A run is recorded and its command returns.                              *)
LEMMA SavedTrail ==
  ASSUME TrailInv, NEW x \in Run, audit' = Append(audit, x), End, rows' = rows,
         restored' = restored \/ (restored' \in 1 .. Len(audit) /\ IsBack(restored'))
  PROVE  TrailInv'
<1>1. audit \in Seq(Run) /\ restored \in 0 .. Len(audit)
  BY DEF TrailInv, TrailOK, RestoredOK
<1>2. /\ audit' \in Seq(Run) /\ \A n \in 0 .. Len(audit) : n \in 0 .. Len(audit')
      /\ \A r \in 1 .. Len(audit) : Recorded(r)' = Recorded(r)
  BY <1>1, TrailGrows
<1>3. << >> \in Seq(Item)
  BY SMT
<1>4. TrailOK'
  BY <1>2, <1>3 DEF End, TrailOK, Applying, Reverting, Walking
<1>5. PICK r : r = restored'
  OBVIOUS
<1>6. r \in 0 .. Len(audit) /\ (r # 0 => IsBack(r))
  <2>1. CASE r = restored
    BY <2>1 DEF TrailInv, RestoredOK
  <2>2. CASE r # restored
    <3>1. r \in 1 .. Len(audit) /\ IsBack(r)
      BY <1>5, <2>2
    <3>2. r \in 0 .. Len(audit)
      BY SMT, <1>1, <3>1
    <3> QED
      BY <3>1, <3>2
  <2> QED
    BY <2>1, <2>2
<1>7. r # 0 => r \in 1 .. Len(audit)
  BY SMT, <1>1, <1>6
<1>8. r # 0 => IsBack(r)'
  BY <1>1, <1>2, <1>6, <1>7, BackStays
<1>9. RestoredOK'
  BY <1>2, <1>5, <1>6, <1>8 DEF RestoredOK, End
<1> QED
  BY <1>4, <1>9 DEF TrailInv

(* The snapshot of an apply run.                                           *)
LEMMA SaveApplyTrail ==
  ASSUME TrailInv, SaveApply
  PROVE  TrailInv'
<1> DEFINE x == [ mode |-> "apply", reverts |-> 0, items |-> items ]
<1>1. CASE Aborts
  BY <1>1, EndTrail DEF Aborts
<1>2. CASE ~Aborts
  <2>1. End /\ rows' = rows /\ restored' = restored /\ audit' \in {audit, Append(audit, x)}
    BY <1>2 DEF SaveApply
  <2>2. x \in Run
    BY SMT DEF Run, TrailInv, TrailOK
  <2> HIDE DEF x
  <2> QED
    BY <2>1, <2>2, EndTrail, SavedTrail
<1> QED
  BY <1>1, <1>2

-----------------------------------------------------------------------------
(* A step of a revert, which goes on with what is left of its run.         *)
LEMMA RevertMoves ==
  ASSUME TrailInv, pc \in Reverting, pc' \in Reverting, run' = run, audit' = audit,
         items' \in Seq(Item), report' \in Seq(Recorded(run)),
         pc' \in Walking \cup {"metric", "commit"} => report' # << >>,
         pc' \in Walking => start' \in Statuses /\ reached' \in Statuses,
         pc' \in {"exists", "item"} \/ restored' # run,
         \/ restored' = 0
         \/ restored' = restored /\ \A s \in Skills : rows'[s].status = rows[s].status
  PROVE  TrailInv'
<1>1. run \in 1 .. Len(audit) /\ audit \in Seq(Run)
  BY DEF TrailInv, TrailOK
<1>2. Recorded(run)' = Recorded(run)
  BY DEF Recorded
<1>3. pc' \notin Applying /\ pc' \notin {"patch", "update"}
  BY DEF Reverting, Walking, Applying
<1>4. TrailOK'
  BY <1>1, <1>2, <1>3 DEF TrailOK
<1>5. RestoredOK'
  BY RestoredKept
<1> QED
  BY <1>4, <1>5 DEF TrailInv

(* The run is looked up, and whether it was reverted before.               *)
LEMMA FindTrail ==
  ASSUME TrailInv, FindRun \/ CheckReverted
  PROVE  TrailInv'
<1>1. CASE End /\ UNCHANGED << rows, audit, restored >>
  BY <1>1, EndTrail
<1>2. CASE /\ pc = "find" /\ audit # << >> /\ pc' = "exists"
           /\ run' \in IF mode = "last" THEN {Len(audit)} ELSE 1 .. Len(audit)
           /\ report' = audit[run'].items /\ UNCHANGED << items, rows, audit, restored >>
  <2>1. audit \in Seq(Run) /\ items \in Seq(Item)
    BY DEF TrailInv, TrailOK
  <2>2. Len(audit) \in 1 .. Len(audit)
    BY SMT, <1>2, <2>1
  <2>3. PICK r \in 1 .. Len(audit) : r = run'
    BY <1>2, <2>2
  <2>4. report' \in Seq(Recorded(r)) /\ Recorded(r)' = Recorded(r)
    BY <1>2, <2>1, <2>3, RecordedItems DEF Recorded
  <2>5. TrailOK'
    BY <1>2, <2>1, <2>3, <2>4 DEF TrailOK, Applying, Reverting, Walking
  <2>6. RestoredOK'
    BY <1>2, RestoredKept
  <2> QED
    BY <2>5, <2>6 DEF TrailInv
<1>3. CASE pc = "exists" /\ pc' = "item" /\ UNCHANGED << run, report, items, rows, audit, restored >>
  <2>1. pc \in Reverting /\ pc' \in Reverting /\ pc' \notin Walking
    BY <1>3 DEF Reverting, Walking
  <2>2. items \in Seq(Item) /\ report \in Seq(Recorded(run))
    BY <2>1 DEF TrailInv, TrailOK
  <2> QED
    BY <1>3, <2>1, <2>2, RevertMoves
<1> QED
  BY <1>1, <1>2, <1>3 DEF FindRun, CheckReverted, Aborts

(* What a revert that is under way is left with: items of its run.         *)
LEMMA ItemsLeft ==
  ASSUME TrailInv, pc \in Reverting
  PROVE  /\ run \in 1 .. Len(audit) /\ audit \in Seq(Run) /\ items \in Seq(Item)
         /\ report \in Seq(Recorded(run)) /\ Recorded(run) \subseteq Item
         /\ report # << >> => /\ Head(report) \in Recorded(run) /\ Head(report) \in Item
                              /\ Tail(report) \in Seq(Recorded(run))
<1>1. run \in 1 .. Len(audit) /\ audit \in Seq(Run) /\ items \in Seq(Item)
      /\ report \in Seq(Recorded(run))
  BY DEF TrailInv, TrailOK
<1>2. Recorded(run) \subseteq Item
  BY <1>1, RecordedItems
<1>3. report # << >> => Head(report) \in Recorded(run) /\ Tail(report) \in Seq(Recorded(run))
  BY <1>1, ListParts
<1> QED
  BY <1>1, <1>2, <1>3

(* A complete revert leaves nothing to walk: the next one of its run finds *)
(* every skill at the recorded status.                                     *)
LEMMA NothingToWalk ==
  ASSUME TrailInv, pc = "item", report # << >>, restored = run
  PROVE  LiveStatus(Head(report)) = Head(report).prior
<1>1. pc \in Reverting
  BY DEF Reverting
<1>2. run \in 1 .. Len(audit) /\ audit \in Seq(Run) /\ Head(report) \in Recorded(run)
  BY <1>1, ItemsLeft
<1>3. run # 0
  BY SMT, <1>2
<1> QED
  BY <1>2, <1>3 DEF TrailInv, RestoredOK, IsBack, LiveStatus

LEMMA RevertItemTrail ==
  ASSUME IInv, TrailInv, RevertItem
  PROVE  TrailInv'
<1>1. CASE Aborts
  BY <1>1, EndTrail DEF Aborts
<1>2. CASE ~Aborts
  <2> DEFINE live == LiveStatus(Head(report))
             to   == Head(report).prior
  <2>1. /\ pc = "item" /\ report # << >> /\ UNCHANGED << run, items, rows, audit, restored >>
        /\ \/ report' = Tail(report) /\ pc' = "item"
           \/ live # to /\ start' = live /\ reached' = live /\ pc' = "hop" /\ report' = report
    BY <1>2 DEF RevertItem
  <2>2. pc \in Reverting /\ pc' \in Reverting
    BY <2>1 DEF Reverting, Walking
  <2>3. /\ items \in Seq(Item) /\ Head(report) \in Item /\ report \in Seq(Recorded(run))
        /\ Tail(report) \in Seq(Recorded(run))
    BY <2>1, <2>2, ItemsLeft
  <2>4. live \in Statuses
    <3>1. Head(report).skill \in Skills
      BY <2>3 DEF Item
    <3>2. rows[Head(report).skill] \in Row
      BY <3>1 DEF IInv, RowsOK
    <3> QED
      BY <3>2 DEF LiveStatus, Row
  <2>5. pc' = "item" \/ restored # run
    BY <2>1, NothingToWalk
  <2>6. pc' \in Walking => start' \in Statuses /\ reached' \in Statuses
    BY <2>1, <2>4 DEF Walking
  <2>7. report' \in Seq(Recorded(run)) /\ (pc' = "hop" => report' # << >>)
    BY <2>1, <2>3
  <2>8. pc' \in Walking \cup {"metric", "commit"} => report' # << >>
    BY <2>1, <2>7 DEF Walking
  <2> QED
    BY <2>1, <2>2, <2>3, <2>5, <2>6, <2>7, <2>8, RevertMoves
<1> QED
  BY <1>1, <1>2

(* A walk that stops in the middle.                                        *)
LEMMA WalkFailsTrail ==
  ASSUME TrailInv, pc \in Walking, WalkFails, UNCHANGED << rows, audit, restored >>
  PROVE  TrailInv'
<1>1. pc \in Reverting /\ pc' \in Reverting /\ pc' = "item" /\ report # << >>
  BY DEF TrailInv, TrailOK, WalkFails, Reverting
<1>2. /\ items \in Seq(Item) /\ Head(report) \in Item /\ Tail(report) \in Seq(Recorded(run))
  BY <1>1, ItemsLeft
<1>3. start \in Statuses /\ reached \in Statuses
  BY DEF TrailInv, TrailOK
<1>4. WalkedItem(reached) \in Item
  BY <1>2, <1>3 DEF WalkedItem, Item
<1>5. items' \in Seq(Item)
  BY <1>2, <1>4, ListGrows DEF WalkFails
<1>6. pc' \notin Walking /\ pc' \notin {"metric", "commit"}
  BY <1>1 DEF Walking
<1> QED
  BY <1>1, <1>2, <1>5, <1>6, RevertMoves DEF WalkFails

(* The two halves of a hop.  A walk is under way only if the run is not    *)
(* the one that is back.                                                   *)
LEMMA HopTrail ==
  ASSUME IInv, TrailInv, HopRead \/ HopWrite
  PROVE  TrailInv'
<1>1. pc \in Walking /\ pc \in Reverting /\ audit' = audit /\ report # << >>
  BY DEF HopRead, HopWrite, Walking, Reverting, TrailInv, TrailOK
<1>2. /\ items \in Seq(Item) /\ Head(report) \in Item /\ Tail(report) \in Seq(Recorded(run))
      /\ report \in Seq(Recorded(run)) /\ run \in 1 .. Len(audit)
  BY <1>1, ItemsLeft
<1>3. start \in Statuses /\ reached \in Statuses
  BY <1>1 DEF TrailInv, TrailOK
<1>4. run # 0
  BY SMT, <1>2
<1>5. restored # run
  BY <1>1, <1>4 DEF TrailInv, RestoredOK, Walking
<1>6. CASE WalkFails /\ UNCHANGED << rows, restored >>
  BY <1>1, <1>6, WalkFailsTrail
<1>7. CASE Goto("hopUpdate") /\ UNCHANGED << rows, restored >>
  <2>1. pc' \in Reverting
    BY <1>7 DEF Goto, Reverting, Walking
  <2> QED
    BY <1>1, <1>2, <1>3, <1>5, <1>7, <2>1, RevertMoves DEF Goto
<1>8. CASE /\ pc = "hopUpdate" /\ restored' = 0 /\ run' = run
           /\ \/ /\ reached' = Head(path) /\ pc' = "hop"
                 /\ UNCHANGED << report, items, start >>
              \/ /\ items' = Append(items, WalkedItem(Head(path)))
                 /\ \/ pc' = "item" /\ report' = Tail(report)
                    \/ pc' = "metric" /\ report' = report
  <2>1. Head(path) \in Statuses
    BY <1>8 DEF IInv, WritesJustified, Justified
  <2>2. WalkedItem(Head(path)) \in Item
    BY <1>2, <1>3, <2>1 DEF WalkedItem, Item
  <2>3. items' \in Seq(Item)
    BY <1>2, <1>8, <2>2, ListGrows
  <2>4. pc' \in Reverting /\ report' \in Seq(Recorded(run))
    BY <1>2, <1>8 DEF Reverting, Walking
  <2>5. pc' \in Walking \cup {"metric", "commit"} => report' # << >>
    BY <1>1, <1>8 DEF Walking
  <2>6. pc' \in Walking => start' \in Statuses /\ reached' \in Statuses
    BY <1>3, <1>8, <2>1 DEF Walking
  <2>7. restored' # run
    BY <1>4, <1>8
  <2> QED
    BY <1>1, <1>8, <2>3, <2>4, <2>5, <2>6, <2>7, RevertMoves
<1> QED
  BY <1>6, <1>7, <1>8 DEF HopRead, HopWrite

(* The rollback is counted; no status is written.                          *)
LEMMA MetricTrail ==
  ASSUME IInv, TrailInv, MetricLock \/ MetricCommit
  PROVE  TrailInv'
<1>1. CASE Aborts
  BY <1>1, EndTrail DEF Aborts
<1>2. CASE ~Aborts
  <2>1. /\ pc \in {"metric", "commit"} /\ UNCHANGED << run, items, audit, restored >>
        /\ \/ pc' = "commit" /\ report' = report
           \/ pc' = "item" /\ report' = Tail(report)
    BY <1>2 DEF MetricLock, MetricCommit
  <2>2. pc \in Reverting /\ pc' \in Reverting /\ pc' \notin Walking
    BY <2>1 DEF Reverting, Walking
  <2>3. report # << >>
    BY <2>1 DEF TrailInv, TrailOK
  <2>4. /\ run \in 1 .. Len(audit) /\ items \in Seq(Item)
        /\ report \in Seq(Recorded(run)) /\ Tail(report) \in Seq(Recorded(run))
    BY <2>2, <2>3, ItemsLeft
  <2>5. report' \in Seq(Recorded(run)) /\ (pc' \in {"metric", "commit"} => report' # << >>)
    BY <2>1, <2>3, <2>4
  <2>6. run # 0
    BY SMT, <2>4
  <2>7. restored' # run
    BY <2>1, <2>6 DEF TrailInv, RestoredOK
  <2>8. \A s \in Skills : rows'[s].status = rows[s].status
    <3>1. CASE rows' = rows
      BY <3>1
    <3>2. CASE CommitMetrics(Head(report).skill, count)
      BY <3>2, CommitKeepsStatus DEF IInv
    <3> QED
      BY <1>2, <3>1, <3>2 DEF MetricLock, MetricCommit
  <2> QED
    BY <2>1, <2>2, <2>4, <2>5, <2>7, <2>8, RevertMoves
<1> QED
  BY <1>1, <1>2

(* The revert is recorded; it is complete when every item is back.         *)
LEMMA SaveRevertTrail ==
  ASSUME TrailInv, SaveRevert
  PROVE  TrailInv'
<1>1. CASE Aborts
  BY <1>1, EndTrail DEF Aborts
<1>2. CASE ~Aborts
  <2>1. /\ pc = "item" /\ End /\ rows' = rows /\ audit' = Append(audit, RevertRun)
        /\ \/ restored' = restored
           \/ /\ restored' = run
              /\ \A i \in 1 .. Len(audit[run].items) :
                   rows[audit[run].items[i].skill].status = audit[run].items[i].prior
    BY <1>2 DEF SaveRevert
  <2>2. run \in 1 .. Len(audit) /\ items \in Seq(Item)
    BY <2>1, ItemsLeft DEF Reverting
  <2>3. RevertRun \in Run
    BY SMT, <2>2 DEF RevertRun, Run
  <2>4. restored' = restored \/ (restored' \in 1 .. Len(audit) /\ IsBack(restored'))
    BY <2>1, <2>2 DEF IsBack, Recorded
  <2> QED
    BY <2>1, <2>3, <2>4, SavedTrail
<1> QED
  BY <1>1, <1>2

-----------------------------------------------------------------------------
(* Every step keeps the trail.                                             *)
LEMMA NextTrail == IInv /\ TrailInv /\ [Next]_vars => TrailInv'
<1> SUFFICES ASSUME IInv, TrailInv, [Next]_vars PROVE TrailInv'
  OBVIOUS
<1>1. CASE UNCHANGED vars
  BY <1>1, ToolWaits DEF vars
<1>2. CASE Kill
  BY <1>2, EndTrail DEF Kill, Aborts
<1>3. CASE ToolStep
  BY <1>3, PlanTrail, ApplyTrail, SaveApplyTrail, FindTrail, RevertItemTrail, HopTrail,
     MetricTrail, SaveRevertTrail DEF ToolStep
<1>4. CASE \E m \in {"dry", "apply", "revert", "last"} : Command(m)
  BY <1>4, CommandTrail
<1>5. CASE \/ \E q \in Requests : PatchStatusRead(q) \/ PatchMetricsLock(q) \/ RequestStep(q)
           \/ \E c \in Changes : TaskAttempted(c)
           \/ ServerBoot
  BY <1>5, SurroundingsTrail
<1> QED
  BY <1>1, <1>2, <1>3, <1>4, <1>5 DEF Next

(* A revert goes through items of a recorded run, and a run that is back   *)
(* stays so until someone writes a status.                                 *)
THEOREM TrailInvCorrect == Spec => []TrailInv
BY InitTrail, NextTrail, IInvCorrect, PTL DEF Spec

(* Requests and restarts are counted.                                      *)
LEMMA EventsCounted == Spec => []EventsOK
<1>1. Init => EventsOK
  BY SMT DEF Init, EventsOK
<1>2. EventsOK /\ [Next]_vars => EventsOK'
  <2> SUFFICES ASSUME events \in Nat, [Next]_vars PROVE events' \in Nat
    BY DEF EventsOK
  <2>1. events + 1 \in Nat
    BY SMT
  <2>2. events' = events \/ events' = events + 1
    BY DEF Next, vars, bounds, ToolStep, Kill, ToolUnchanged, Command, Plan, ApplySkip, ApplyRead,
           ApplyWrite, SaveApply, FindRun, CheckReverted, RevertItem, HopRead, HopWrite,
           MetricLock, MetricCommit, SaveRevert, PatchStatusRead, PatchMetricsLock, RequestStep,
           PatchStatusWrite, PatchMetricsCommit, TaskAttempted, ServerBoot
  <2> QED
    BY <2>1, <2>2
<1> QED
  BY <1>1, <1>2, PTL DEF Spec

(* A step of the tool, while it reverts the run whose revert was complete. *)
LEMMA SecondRevertWrites ==
  ASSUME IInv, TrailInv, EventsOK, [Next]_vars, run # 0, restored = run,
         UNCHANGED << req, events >>, NEW s \in Skills
  PROVE  rows'[s].status = rows[s].status
<1>1. pc \in {"exists", "item"}
  BY DEF TrailInv, RestoredOK
<1>2. CASE rows' = rows
  BY <1>2
<1>3. CASE \E q \in Requests : RequestStep(q)
  <2>1. PICK q \in Requests : RequestStep(q)
    BY <1>3
  <2>2. req[q].at # "none" /\ req' = [req EXCEPT ![q] = NoRequest]
    BY <2>1 DEF RequestStep, PatchStatusWrite, PatchMetricsCommit
  <2>3. req'[q] = NoRequest
    BY <2>2 DEF IInv, ReqOK
  <2>4. req'[q] = req[q] /\ NoRequest.at = "none"
    BY DEF NoRequest
  <2> QED
    BY <2>2, <2>3, <2>4
<1>4. CASE ServerBoot
  <2>1. events' = events + 1 /\ events' = events
    BY <1>4 DEF ServerBoot
  <2> QED
    BY SMT, <2>1 DEF EventsOK
<1> QED
  BY <1>1, <1>2, <1>3, <1>4
     DEF Next, vars, ToolStep, Kill, Aborts, Command, Plan, ApplySkip, ApplyRead, ApplyWrite,
         SaveApply, FindRun, CheckReverted, RevertItem, HopRead, HopWrite, MetricLock,
         MetricCommit, SaveRevert, PatchStatusRead, PatchMetricsLock, TaskAttempted

(* Reverting a run again after a complete revert writes no status, however *)
(* requests and restarts fall between its steps.                           *)
THEOREM RevertIsIdempotentCorrect == Spec => RevertIsIdempotent
<1>1. IInv /\ TrailInv /\ EventsOK /\ [Next]_vars
      => [ run # 0 /\ restored = run /\ UNCHANGED << req, events >>
           => \A s \in Skills : rows'[s].status = rows[s].status ]_vars
  BY SecondRevertWrites
<1> QED
  BY <1>1, IInvCorrect, TrailInvCorrect, EventsCounted, PTL DEF Spec, RevertIsIdempotent

-----------------------------------------------------------------------------
(* transitionPath.  Its recursive functions take six steps, one for every  *)
(* status; what a step keeps, all six keep.                                *)

(* g takes the six steps of F, from x.                                     *)
Chain(g, S, x, F) ==
  /\ DOMAIN g = 0 .. 6 /\ g = [ n \in 0 .. 6 |-> g[n] ]
  /\ \A n \in 0 .. 6 : g[n] \in S
  /\ g[0] = x
  /\ \A n \in 1 .. 6 : g[n] = F[n][g[n - 1]]

Closed(S, F) == \A n \in 1 .. 6 : \A k \in S : F[n][k] \in S

(* Six steps that stay in a set can be taken.                              *)
LEMMA SixSteps ==
  ASSUME NEW S, NEW x \in S, NEW F, Closed(S, F)
  PROVE  \E g : Chain(g, S, x, F)
<1>1. PICK a \in S : a = F[1][x] BY SMT DEF Closed
<1>2. PICK b \in S : b = F[2][a] BY SMT DEF Closed
<1>3. PICK c \in S : c = F[3][b] BY SMT DEF Closed
<1>4. PICK d \in S : d = F[4][c] BY SMT DEF Closed
<1>5. PICK e \in S : e = F[5][d] BY SMT DEF Closed
<1>6. PICK f \in S : f = F[6][e] BY SMT DEF Closed
<1> DEFINE g == [ n \in 0 .. 6 |-> IF n = 0 THEN x ELSE IF n = 1 THEN a ELSE IF n = 2 THEN b
                    ELSE IF n = 3 THEN c ELSE IF n = 4 THEN d ELSE IF n = 5 THEN e ELSE f ]
<1>7. g \in [0 .. 6 -> S] BY SMT
<1>8. g[0] = x /\ g[1] = a /\ g[2] = b /\ g[3] = c /\ g[4] = d /\ g[5] = e /\ g[6] = f
  BY SMT
<1> HIDE DEF g
<1>9. ASSUME NEW n \in 1 .. 6 PROVE g[n] = F[n][g[n - 1]]
  <2>1. n = 1 \/ n = 2 \/ n = 3 \/ n = 4 \/ n = 5 \/ n = 6
    BY SMT
  <2>2. 1 - 1 = 0 /\ 2 - 1 = 1 /\ 3 - 1 = 2 /\ 4 - 1 = 3 /\ 5 - 1 = 4 /\ 6 - 1 = 5
    BY SMT
  <2> QED BY <1>1, <1>2, <1>3, <1>4, <1>5, <1>6, <1>8, <2>1, <2>2
<1> QED BY <1>7, <1>8, <1>9 DEF Chain

(* What is computed in six steps that stay in a set is in the set.         *)
LEMMA SixStay ==
  ASSUME NEW S, NEW g, g[0] \in S, \A n \in 1 .. 6 : g[n - 1] \in S => g[n] \in S
  PROVE  \A n \in 0 .. 6 : g[n] \in S
<1>1. g[1] \in S BY SMT
<1>2. g[2] \in S BY SMT, <1>1
<1>3. g[3] \in S BY SMT, <1>2
<1>4. g[4] \in S BY SMT, <1>3
<1>5. g[5] \in S BY SMT, <1>4
<1>6. g[6] \in S BY SMT, <1>5
<1>7. \A n \in 0 .. 6 : n = 0 \/ n = 1 \/ n = 2 \/ n = 3 \/ n = 4 \/ n = 5 \/ n = 6
  BY SMT
<1> QED BY <1>1, <1>2, <1>3, <1>4, <1>5, <1>6, <1>7

(* The order of orderedTargets has six statuses.                           *)
LEMMA SixStatuses == Len(StatusOrder) = 6 /\ \A n \in 1 .. 6 : StatusOrder[n] \in Statuses
BY SMT DEF StatusOrder, Statuses

(* What is selected is wanted, and a status.                               *)
LEMMA SelectedStatuses ==
  ASSUME NEW wanted
  PROVE  Select(StatusOrder, wanted) \in Seq(wanted \cap Statuses)
<1> DEFINE S == Seq(wanted \cap Statuses)
           next(k, n) == IF StatusOrder[n] \in wanted THEN Append(k, StatusOrder[n]) ELSE k
           Eq(f) == f = [ n \in 0 .. 6 |-> IF n = 0 THEN << >> ELSE next(f[n - 1], n) ]
           kept == CHOOSE f : Eq(f)
           F == [ n \in 1 .. 6 |-> [ k \in S |-> next(k, n) ] ]
<1>1. ASSUME NEW k \in S, NEW n \in 1 .. 6 PROVE next(k, n) \in S
  BY SMT, SixStatuses
<1>2. << >> \in S
  BY SMT
<1>3. \A n \in 1 .. 6 : \A k \in S : F[n][k] = next(k, n) /\ F[n][k] \in S
  BY <1>1
<1> HIDE DEF F, S
<1>4. PICK g : Chain(g, S, << >>, F)
  <2>1. Closed(S, F)
    BY <1>3 DEF Closed
  <2> QED BY <1>2, <2>1, SixSteps
<1>5. \A n \in 0 .. 6 : n = 0 \/ (n \in 1 .. 6 /\ n - 1 \in 0 .. 6)
  BY SMT
<1>6. \A n \in 1 .. 6 : n # 0 /\ n \in 0 .. 6 /\ n - 1 \in 0 .. 6
  BY SMT
<1> HIDE DEF next
<1>7. \A n \in 0 .. 6 : g[n] = IF n = 0 THEN << >> ELSE next(g[n - 1], n)
  <2>1. \A n \in 1 .. 6 : g[n] = next(g[n - 1], n)
    BY <1>3, <1>4, <1>6 DEF Chain
  <2> QED BY <1>4, <1>5, <1>6, <2>1 DEF Chain
<1>8. Eq(g)
  BY <1>4, <1>7 DEF Chain
<1>9. Eq(kept)
  BY <1>8
<1> HIDE DEF kept
<1>10. kept[0] = << >> /\ \A n \in 1 .. 6 : kept[n] = next(kept[n - 1], n)
  <2>1. 0 \in 0 .. 6 BY SMT
  <2> QED BY <1>9, <1>6, <2>1
<1>11. \A n \in 0 .. 6 : kept[n] \in S
  BY <1>1, <1>2, <1>10, SixStay
<1>12. Select(StatusOrder, wanted) = kept[6]
  BY SixStatuses DEF Select, kept, next
<1>13. 6 \in 0 .. 6
  BY SMT
<1> QED BY <1>11, <1>12, <1>13 DEF S

(* The steps are numbered from 1.                                          *)
LEMMA SixIndices ==
  /\ 0 \in 0 .. 6 /\ 6 \in 0 .. 6
  /\ \A n \in 0 .. 6 : n = 0 \/ n \in 1 .. 6
  /\ \A n \in 1 .. 6 : n # 0 /\ n \in 0 .. 6 /\ n - 1 \in 0 .. 6
BY SMT

(* A state of the search for the goal: what was discovered has a           *)
(* predecessor, which is not the goal, and waits in the queue at most.     *)
SearchStates(to) == UNION { [ queue : Seq(D), prev : [D -> D \ {to}] ] : D \in SUBSET Statuses }

(* A search state, put together.                                           *)
LEMMA SearchState ==
  ASSUME NEW to, NEW D \in SUBSET Statuses, NEW queue \in Seq(D), NEW prev \in [D -> D \ {to}]
  PROVE  [ queue |-> queue, prev |-> prev ] \in SearchStates(to)
<1> DEFINE W(E) == [ queue : Seq(E), prev : [E -> E \ {to}] ]
<1>1. [ queue |-> queue, prev |-> prev ] \in W(D)
  OBVIOUS
<1> HIDE DEF W
<1>2. [ queue |-> queue, prev |-> prev ] \in UNION { W(E) : E \in SUBSET Statuses }
  BY <1>1
<1> QED BY <1>2 DEF SearchStates, W

(* One round of the search, before the goal is discovered.                 *)
LEMMA DiscoverStep ==
  ASSUME NEW to, NEW b \in SearchStates(to), b.queue # << >>, to \notin DOMAIN b.prev
  PROVE  Discover(b) \in SearchStates(to)
<1>1. PICK D \in SUBSET Statuses : b \in [ queue : Seq(D), prev : [D -> D \ {to}] ]
  BY DEF SearchStates
<1>2. b.queue \in Seq(D) /\ b.prev \in [D -> D \ {to}] /\ DOMAIN b.prev = D /\ to \notin D
  BY <1>1
<1> DEFINE new == NewTargets(b)
           E == D \cup { new[i] : i \in 1 .. Len(new) }
           prev == [ s \in E |-> IF s \in D THEN b.prev[s] ELSE Head(b.queue) ]
           queue == Tail(b.queue) \o new
<1>3. new \in Seq(Statuses)
  <2>1. new \in Seq((AllowedTransitions(Head(b.queue)) \ DOMAIN b.prev) \cap Statuses)
    BY SelectedStatuses DEF NewTargets
  <2> QED BY SMT, <2>1
<1>4. Head(b.queue) \in D /\ Tail(b.queue) \in Seq(D)
  BY SMT, <1>2
<1>5. Discover(b) = [ queue |-> queue, prev |-> prev ]
  BY <1>2 DEF Discover
<1> HIDE DEF new
<1>6. E \in SUBSET Statuses /\ D \subseteq E
  <2>1. \A i \in 1 .. Len(new) : new[i] \in Statuses
    BY SMT, <1>3
  <2> QED BY <2>1
<1>7. new \in Seq(E)
  <2>1. new \in Seq({ new[i] : i \in 1 .. Len(new) })
    BY SMT, <1>3
  <2> QED BY SMT, <2>1
<1>8. queue \in Seq(E)
  BY SMT, <1>4, <1>6, <1>7
<1>9. prev \in [E -> E \ {to}]
  <2>1. \A s \in D : b.prev[s] \in E \ {to}
    BY <1>2, <1>6
  <2>2. Head(b.queue) \in E \ {to}
    BY <1>2, <1>4, <1>6
  <2> QED BY <2>1, <2>2
<1> HIDE DEF E, prev, queue
<1>10. E \in SUBSET Statuses
  BY <1>6
<1>11. [ queue |-> queue, prev |-> prev ] \in SearchStates(to)
  BY <1>8, <1>9, <1>10, SearchState
<1> QED BY <1>5, <1>11

(* transitionPath's search: every status it discovers has a predecessor    *)
(* among them, and the goal precedes none.                                 *)
LEMMA SearchFinds ==
  ASSUME NEW from \in Statuses, NEW to \in Statuses, from # to
  PROVE  \E D \in SUBSET Statuses : Search(from, to) \in [D -> D \ {to}]
<1> DEFINE S == SearchStates(to)
           b0 == [ queue |-> << from >>, prev |-> [ s \in {from} |-> from ] ]
           next(b) == IF b.queue = << >> \/ to \in DOMAIN b.prev THEN b ELSE Discover(b)
           Eq(f) == f = [ n \in 0 .. 6 |-> IF n = 0 THEN b0 ELSE next(f[n - 1]) ]
           step == CHOOSE f : Eq(f)
           F == [ n \in 1 .. 6 |-> [ b \in S |-> next(b) ] ]
<1>1. b0 \in S
  <2> DEFINE D == {from}
  <2>1. << from >> \in Seq(D)
    BY SMT
  <2>2. [ s \in D |-> from ] \in [D -> D \ {to}] /\ D \in SUBSET Statuses
    BY Zenon
  <2> QED BY <2>1, <2>2, SearchState
<1>2. ASSUME NEW b \in S PROVE next(b) \in S
  BY DiscoverStep
<1>3. \A n \in 1 .. 6 : \A b \in S : F[n][b] = next(b) /\ F[n][b] \in S
  BY <1>2
<1> HIDE DEF F, S, b0, next
<1>4. PICK g : Chain(g, S, b0, F)
  <2>1. Closed(S, F)
    BY <1>3 DEF Closed
  <2> QED BY <1>1, <2>1, SixSteps
<1>5. \A n \in 0 .. 6 : g[n] = IF n = 0 THEN b0 ELSE next(g[n - 1])
  <2>1. \A n \in 1 .. 6 : g[n] = next(g[n - 1])
    BY <1>3, <1>4, SixIndices DEF Chain
  <2> QED BY <1>4, <2>1, SixIndices DEF Chain
<1>6. Eq(g)
  BY <1>4, <1>5 DEF Chain
<1>7. Eq(step)
  BY <1>6
<1> HIDE DEF step
<1>8. step[0] = b0 /\ \A n \in 1 .. 6 : step[n] = next(step[n - 1])
  BY <1>7, SixIndices
<1>9. \A n \in 0 .. 6 : step[n] \in S
  BY <1>1, <1>2, <1>8, SixStay
<1>10. step[6] \in SearchStates(to)
  BY <1>9, SixIndices DEF S
<1>11. Search(from, to) = step[6].prev
  BY SixStatuses DEF Search, step, next, b0
<1>12. PICK D \in SUBSET Statuses : step[6] \in [ queue : Seq(D), prev : [D -> D \ {to}] ]
  BY <1>10 DEF SearchStates
<1> QED BY <1>11, <1>12

(* The statuses before the last are not the goal.                          *)
Ways(D, to) == { p \in Seq(D) : p # << >> /\ \A i \in 1 .. Len(p) - 1 : p[i] # to }

(* reconstruct: the way is not empty, and reaches the goal last.           *)
LEMMA ReconstructsWay ==
  ASSUME NEW D, NEW to \in D, NEW prev \in [D -> D \ {to}], NEW from
  PROVE  Reconstruct(prev, from, to) \in Ways(D, to)
<1> DEFINE S == Ways(D, to)
           p0 == << to >>
           next(p) == IF prev[Head(p)] = from THEN p ELSE << prev[Head(p)] >> \o p
           Eq(f) == f = [ n \in 0 .. 6 |-> IF n = 0 THEN p0 ELSE next(f[n - 1]) ]
           back == CHOOSE f : Eq(f)
           F == [ n \in 1 .. 6 |-> [ p \in S |-> next(p) ] ]
<1>1. p0 \in S
  BY SMT DEF Ways
<1>2. ASSUME NEW p \in S PROVE next(p) \in S
  <2>1. p \in Seq(D) /\ p # << >> /\ \A i \in 1 .. Len(p) - 1 : p[i] # to
    BY DEF Ways
  <2>2. Head(p) \in D
    BY SMT, <2>1
  <2>3. PICK x \in D : x = prev[Head(p)] /\ x # to
    BY <2>2
  <2>4. << x >> \o p \in Seq(D) /\ << x >> \o p # << >>
    BY SMT, <2>1
  <2>5. \A i \in 1 .. Len(<< x >> \o p) - 1 : (<< x >> \o p)[i] # to
    BY SMT, <2>1, <2>3
  <2> QED BY <2>3, <2>4, <2>5 DEF Ways
<1>3. \A n \in 1 .. 6 : \A p \in S : F[n][p] = next(p) /\ F[n][p] \in S
  BY <1>2
<1> HIDE DEF F, S, p0, next
<1>4. PICK g : Chain(g, S, p0, F)
  <2>1. Closed(S, F)
    BY <1>3 DEF Closed
  <2> QED BY <1>1, <2>1, SixSteps
<1>5. \A n \in 0 .. 6 : g[n] = IF n = 0 THEN p0 ELSE next(g[n - 1])
  <2>1. \A n \in 1 .. 6 : g[n] = next(g[n - 1])
    BY <1>3, <1>4, SixIndices DEF Chain
  <2> QED BY <1>4, <2>1, SixIndices DEF Chain
<1>6. Eq(g)
  BY <1>4, <1>5 DEF Chain
<1>7. Eq(back)
  BY <1>6
<1> HIDE DEF back
<1>8. back[0] = p0 /\ \A n \in 1 .. 6 : back[n] = next(back[n - 1])
  BY <1>7, SixIndices
<1>9. \A n \in 0 .. 6 : back[n] \in S
  BY <1>1, <1>2, <1>8, SixStay
<1>10. back[6] \in Ways(D, to)
  BY <1>9, SixIndices DEF S
<1>11. Reconstruct(prev, from, to) = back[6]
  BY SixStatuses DEF Reconstruct, back, next, p0
<1> QED BY <1>10, <1>11

(* The way of transitionPath between two different statuses: it is not     *)
(* empty, and comes to the goal only at its end.                           *)
LEMMA PathIsWay ==
  ASSUME NEW from \in Statuses, NEW to \in Statuses, from # to, HasPath(from, to)
  PROVE  TransitionPath(from, to) \in Ways(Statuses, to)
<1>1. PICK D \in SUBSET Statuses : Search(from, to) \in [D -> D \ {to}]
  BY SearchFinds
<1> DEFINE way == Reconstruct(Search(from, to), from, to)
<1>2. ASSUME NEW p \in Paths, p.from = from, p.to = to
      PROVE  p.path = way /\ to \in DOMAIN Search(from, to)
  <2>1. PICK e \in { q \in Statuses \X Statuses : q[2] \in DOMAIN Search(q[1], q[2]) } :
          p = [ from |-> e[1], to |-> e[2],
                path |-> IF e[1] = e[2] THEN << >>
                         ELSE Reconstruct(Search(e[1], e[2]), e[1], e[2]) ]
    BY DEF Paths
  <2>2. e[1] = from /\ e[2] = to
    BY <1>2, <2>1
  <2> QED BY <2>1, <2>2
<1>3. PICK p \in Paths : p = (CHOOSE q \in Paths : q.from = from /\ q.to = to) /\ p.from = from /\ p.to = to
  BY DEF HasPath
<1>4. TransitionPath(from, to) = way /\ to \in D
  BY <1>1, <1>2, <1>3 DEF TransitionPath
<1>5. way \in Ways(D, to)
  BY <1>1, <1>4, ReconstructsWay
<1>6. Ways(D, to) \subseteq Ways(Statuses, to)
  BY SMT, <1>1 DEF Ways
<1> QED BY <1>4, <1>5, <1>6

-----------------------------------------------------------------------------
(* The rollbacks of the first revert of a run.                             *)

(* No skill is listed twice.                                               *)
OnceEach(list) ==
  \A i, j \in 1 .. Len(list) : list[i].skill = list[j].skill => i = j

SkillsOf(list) == { list[i].skill : i \in 1 .. Len(list) }

Reverted(r) == \E i \in 1 .. Len(audit) : audit[i].reverts = r

(* The item of a revert brought its skill back to where run r found it.    *)
BringsBack(r, item) == \E old \in Recorded(r) : old.skill = item.skill /\ old.prior = item.new

Owes(r, item) ==
  /\ BringsBack(r, item)
  /\ item.skill \notin Seeds
  /\ ~(rows[item.skill].rollbacks >= 1)

(* Runs list a skill once, and a revert names the run it reverts.          *)
RunsOK ==
  \A i \in 1 .. Len(audit) :
    OnceEach(audit[i].items) /\ (audit[i].mode = "revert" => audit[i].reverts \in 1 .. i - 1)

(* What the tool has done and what it has left are different skills.       *)
ListsOK ==
  /\ pc \in {"idle", "plan", "find"} => items = << >> /\ report = << >>
  /\ OnceEach(items) /\ OnceEach(report)
  /\ pc \notin {"metric", "commit"} => SkillsOf(items) \cap SkillsOf(report) = {}
  /\ pc \in {"metric", "commit"} => SkillsOf(items) \cap SkillsOf(Tail(report)) = {}

(* A walk has not been where it leads to, and gets there last.             *)
WalkOK ==
  pc \in Walking =>
    /\ path \in Seq(Statuses) /\ path # << >>
    /\ \A i \in 1 .. Len(path) - 1 : path[i] # Head(report).prior
    /\ reached # Head(report).prior

(* Only a run that was reverted before is reverted without rollbacks.      *)
SkipOK == pc \in Reverting \ {"exists"} /\ skip => Reverted(run)

(* In the first revert of a run, a skill that is back has its rollback, or *)
(* gets it next.                                                           *)
CountedOK ==
  pc \in Reverting /\ ~Reverted(run) =>
    \A k \in 1 .. Len(items) :
      Owes(run, items[k]) => pc \in {"metric", "commit"} /\ items[k].skill = Head(report).skill

(* The first recorded revert of a run left nobody without a rollback.      *)
FirstOK ==
  \A i \in 1 .. Len(audit) :
    (/\ audit[i].mode = "revert"
     /\ \A j \in 1 .. i - 1 : audit[j].reverts # audit[i].reverts)
    => \A k \in 1 .. Len(audit[i].items) : ~Owes(audit[i].reverts, audit[i].items[k])

CountInv == RunsOK /\ ListsOK /\ WalkOK /\ SkipOK /\ CountedOK /\ FirstOK

RollbacksStay ==
  \A s \in Skills \ Seeds : rows[s].rollbacks >= 1 => rows'[s].rollbacks >= 1

(* A list without its first entry.                                         *)
LEMMA OnceTail ==
  ASSUME NEW S, NEW s \in Seq(S), s # << >>, OnceEach(s)
  PROVE  /\ OnceEach(Tail(s)) /\ SkillsOf(Tail(s)) \subseteq SkillsOf(s)
         /\ Head(s).skill \in SkillsOf(s) /\ Head(s).skill \notin SkillsOf(Tail(s))
<1>1. /\ Len(s) \in Nat /\ Len(s) >= 1 /\ Len(Tail(s)) = Len(s) - 1 /\ Head(s) = s[1]
      /\ \A i \in 1 .. Len(s) - 1 : Tail(s)[i] = s[i + 1]
  BY SMT
<1>2. /\ 1 \in 1 .. Len(s)
      /\ \A i \in 1 .. Len(s) - 1 : i + 1 \in 1 .. Len(s) /\ i + 1 # 1
      /\ \A i, j \in 1 .. Len(s) - 1 : i + 1 = j + 1 => i = j
  BY SMT, <1>1
<1>3. ASSUME NEW i \in 1 .. Len(Tail(s)), NEW j \in 1 .. Len(Tail(s)),
             Tail(s)[i].skill = Tail(s)[j].skill
      PROVE  i = j
  <2>1. s[i + 1].skill = s[j + 1].skill
    BY <1>1, <1>3
  <2>2. i + 1 = j + 1
    BY <1>1, <1>2, <2>1 DEF OnceEach
  <2> QED
    BY SMT, <2>2
<1>4. SkillsOf(Tail(s)) \subseteq SkillsOf(s) /\ Head(s).skill \in SkillsOf(s)
  <2>1. PICK t : t = Tail(s)
    OBVIOUS
  <2>2. \A i \in 1 .. Len(t) : \E k \in 1 .. Len(s) : t[i].skill = s[k].skill
    BY <1>1, <1>2, <2>1
  <2>3. ASSUME NEW a \in SkillsOf(t) PROVE a \in SkillsOf(s)
    <3>1. PICK i \in 1 .. Len(t) : a = t[i].skill
      BY DEF SkillsOf
    <3>2. PICK k \in 1 .. Len(s) : a = s[k].skill
      BY <2>2, <3>1
    <3> QED
      BY <3>2 DEF SkillsOf
  <2>4. s[1].skill \in SkillsOf(s)
    BY <1>2 DEF SkillsOf
  <2> QED
    BY <1>1, <2>1, <2>3, <2>4
<1>5. ASSUME NEW i \in 1 .. Len(Tail(s)) PROVE Tail(s)[i].skill # Head(s).skill
  <2>1. i + 1 \in 1 .. Len(s) /\ i + 1 # 1 /\ Tail(s)[i] = s[i + 1]
    BY <1>1, <1>2
  <2>2. s[i + 1].skill # s[1].skill
    BY <1>2, <2>1 DEF OnceEach
  <2> QED
    BY <1>1, <2>1, <2>2
<1> QED
  BY <1>3, <1>4, <1>5 DEF OnceEach, SkillsOf

(* A list with one more entry.                                             *)
LEMMA OnceAppend ==
  ASSUME NEW S, NEW s \in Seq(S), NEW x \in S, OnceEach(s), x.skill \notin SkillsOf(s)
  PROVE  OnceEach(Append(s, x)) /\ SkillsOf(Append(s, x)) = SkillsOf(s) \cup {x.skill}
<1> DEFINE n == Len(s) + 1
           t == Append(s, x)
<1>1. Len(t) = n /\ t[n] = x /\ \A i \in 1 .. Len(s) : t[i] = s[i]
  BY SMT
<1>2. /\ n \in 1 .. n /\ n \notin 1 .. Len(s)
      /\ \A i \in 1 .. n : i = n \/ i \in 1 .. Len(s)
      /\ \A i \in 1 .. Len(s) : i \in 1 .. n
  BY SMT
<1> HIDE DEF n, t
<1>3. OnceEach(t)
  BY <1>1, <1>2 DEF OnceEach, SkillsOf
<1>4. SkillsOf(t) = SkillsOf(s) \cup {x.skill}
  BY <1>1, <1>2 DEF SkillsOf
<1> QED
  BY <1>3, <1>4 DEF t

(* One entry of the plan, or of the run, is done.                          *)
LEMMA OneDone ==
  ASSUME NEW S, report \in Seq(S), report # << >>, items \in Seq(Item),
         OnceEach(items), OnceEach(report), SkillsOf(items) \cap SkillsOf(report) = {}
  PROVE  /\ OnceEach(Tail(report)) /\ SkillsOf(items) \cap SkillsOf(Tail(report)) = {}
         /\ \A x \in Item : x.skill = Head(report).skill =>
              /\ OnceEach(Append(items, x))
              /\ SkillsOf(Append(items, x)) \cap SkillsOf(Tail(report)) = {}
<1>1. /\ OnceEach(Tail(report)) /\ SkillsOf(Tail(report)) \subseteq SkillsOf(report)
      /\ Head(report).skill \in SkillsOf(report) /\ Head(report).skill \notin SkillsOf(Tail(report))
  BY OnceTail
<1>2. ASSUME NEW x \in Item, x.skill = Head(report).skill
      PROVE  /\ OnceEach(Append(items, x))
             /\ SkillsOf(Append(items, x)) = SkillsOf(items) \cup {x.skill}
  <2>1. x.skill \notin SkillsOf(items)
    BY <1>1, <1>2
  <2> QED
    BY <2>1, OnceAppend
<1> QED
  BY <1>1, <1>2

(* An empty list.                                                          *)
LEMMA OnceEmpty == OnceEach(<< >>) /\ SkillsOf(<< >>) = {}
<1>1. \A i \in 1 .. Len(<< >>) : FALSE
  BY SMT
<1> QED
  BY <1>1 DEF OnceEach, SkillsOf

(* The rollbacks of a skill that is no seed never go back to none.         *)
LEMMA StepKeepsRollbacks ==
  ASSUME IInv, [Next]_vars
  PROVE  RollbacksStay
<1>1. IInv'
  BY NextIInv
<1>2. ASSUME NEW s \in Skills \ Seeds, added[s] >= 1 PROVE added'[s] >= 1
  <2>1. added \in [Skills -> Nat]
    BY DEF IInv, CountsOK
  <2>2. CASE UNCHANGED added
    BY <1>2, <2>2
  <2>3. CASE \E x : added' = [added EXCEPT ![x] = @ + 1]
    BY SMT, <1>2, <2>1, <2>3
  <2>4. CASE \E done \in SUBSET Seeds : Seed(done)
    BY <1>2, <2>4 DEF Seed
  <2> QED
    BY <2>2, <2>3, <2>4
       DEF Next, vars, ToolStep, Kill, Aborts, Command, Plan, ApplySkip, ApplyRead, ApplyWrite,
           SaveApply, FindRun, CheckReverted, RevertItem, HopRead, HopWrite, MetricLock,
           MetricCommit, SaveRevert, CommitMetrics, PatchStatusRead, PatchMetricsLock, RequestStep,
           PatchStatusWrite, PatchMetricsCommit, TaskAttempted, ServerBoot
<1> QED
  BY <1>1, <1>2 DEF IInv, CountsOK, MetricsAdditive, RollbacksStay

(* An item that owes nothing goes on owing nothing.                        *)
LEMMA OwesLess ==
  ASSUME RollbacksStay, NEW r, Recorded(r)' = Recorded(r), NEW item \in Item, ~Owes(r, item)
  PROVE  ~Owes(r, item)'
<1>1. item.skill \in Skills
  BY DEF Item
<1> QED
  BY <1>1 DEF RollbacksStay, Owes, BringsBack

(* The runs as they are recorded.                                          *)
LEMMA RunParts ==
  ASSUME audit \in Seq(Run), NEW i \in 1 .. Len(audit)
  PROVE  /\ audit[i] \in Run /\ audit[i].items \in Seq(Item)
         /\ \A k \in 1 .. Len(audit[i].items) : audit[i].items[k] \in Item
<1>1. audit[i] \in Run
  BY SMT
<1>2. audit[i].items \in Seq(Item)
  BY <1>1 DEF Run
<1>3. ASSUME NEW q \in Seq(Item) PROVE \A k \in 1 .. Len(q) : q[k] \in Item
  BY SMT
<1> QED
  BY <1>1, <1>2, <1>3

(* Nothing is recorded.                                                    *)
LEMMA FirstKept ==
  ASSUME audit \in Seq(Run), RunsOK, FirstOK, RollbacksStay, audit' = audit
  PROVE  RunsOK' /\ FirstOK'
<1>1. RunsOK'
  BY DEF RunsOK, OnceEach
<1>2. \A r : Recorded(r)' = Recorded(r)
  BY DEF Recorded
<1>3. ASSUME NEW i \in 1 .. Len(audit), audit[i].mode = "revert",
             \A j \in 1 .. i - 1 : audit[j].reverts # audit[i].reverts,
             NEW k \in 1 .. Len(audit[i].items)
      PROVE  ~Owes(audit[i].reverts, audit[i].items[k])'
  <2>1. PICK r, item : r = audit[i].reverts /\ item = audit[i].items[k]
    OBVIOUS
  <2>2. item \in Item
    BY <2>1, RunParts
  <2>3. ~Owes(r, item)
    BY <1>3, <2>1 DEF FirstOK
  <2>4. ~Owes(r, item)'
    BY <1>2, <2>2, <2>3, OwesLess
  <2> QED
    BY <2>1, <2>4
<1>4. FirstOK'
  BY <1>3 DEF FirstOK
<1> QED
  BY <1>1, <1>4

(* A run is recorded.                                                      *)
LEMMA FirstGrows ==
  ASSUME audit \in Seq(Run), RunsOK, FirstOK, rows' = rows, NEW x \in Run,
         audit' = Append(audit, x), OnceEach(x.items),
         x.mode = "revert" =>
           /\ x.reverts \in 1 .. Len(audit)
           /\ ~Reverted(x.reverts) => \A k \in 1 .. Len(x.items) : ~Owes(x.reverts, x.items[k])
  PROVE  RunsOK' /\ FirstOK'
<1> DEFINE n == Len(audit) + 1
<1>1. /\ Len(audit') = n /\ audit'[n] = x
      /\ \A i \in 1 .. Len(audit) : audit'[i] = audit[i]
  BY SMT
<1>2. /\ \A i \in 1 .. n : i = n \/ i \in 1 .. Len(audit)
      /\ 1 .. n - 1 = 1 .. Len(audit)
      /\ \A i \in 1 .. Len(audit) : \A j \in 1 .. i - 1 : j \in 1 .. Len(audit)
  BY SMT
<1> HIDE DEF n
<1>3. RunsOK'
  <2>1. ASSUME NEW i \in 1 .. Len(audit')
        PROVE  /\ OnceEach(audit'[i].items)
               /\ audit'[i].mode = "revert" => audit'[i].reverts \in 1 .. i - 1
    <3>1. CASE i = n
      BY <1>1, <1>2, <3>1
    <3>2. CASE i \in 1 .. Len(audit)
      BY <1>1, <3>2 DEF RunsOK
    <3> QED
      BY <1>1, <1>2, <3>1, <3>2
  <2> QED
    BY <2>1 DEF RunsOK, OnceEach
<1>4. \A r \in 1 .. Len(audit) : Recorded(r)' = Recorded(r)
  BY <1>1 DEF Recorded
<1>5. ASSUME NEW r \in 1 .. Len(audit), NEW item, ~Owes(r, item) PROVE ~Owes(r, item)'
  BY <1>4, <1>5 DEF Owes, BringsBack
<1>6. ASSUME NEW i \in 1 .. Len(audit'), audit'[i].mode = "revert",
             \A j \in 1 .. i - 1 : audit'[j].reverts # audit'[i].reverts,
             NEW k \in 1 .. Len(audit'[i].items)
      PROVE  ~Owes(audit[i].reverts, audit[i].items[k])'
  <2>1. PICK r, item : r = audit'[i].reverts /\ item = audit'[i].items[k]
    OBVIOUS
  <2>2. CASE i = n
    <3>1. r = x.reverts /\ item = x.items[k] /\ x.mode = "revert" /\ k \in 1 .. Len(x.items)
      BY <1>1, <1>6, <2>1, <2>2
    <3>2. ~Reverted(r)
      BY <1>1, <1>2, <1>6, <2>1, <2>2 DEF Reverted
    <3>3. r \in 1 .. Len(audit) /\ ~Owes(r, item)
      BY <3>1, <3>2
    <3> QED
      BY <1>5, <2>1, <3>3
  <2>3. CASE i \in 1 .. Len(audit)
    <3>1. audit'[i] = audit[i]
      BY <1>1, <2>3
    <3>2. \A j \in 1 .. i - 1 : audit[j].reverts # audit[i].reverts
      BY <1>1, <1>2, <1>6, <2>3
    <3>3. r \in 1 .. Len(audit)
      BY <1>2, <1>6, <2>1, <2>3, <3>1 DEF RunsOK
    <3>4. ~Owes(r, item)
      BY <1>6, <2>1, <2>3, <3>1, <3>2 DEF FirstOK
    <3> QED
      BY <1>5, <2>1, <3>3, <3>4
  <2> QED
    BY <1>1, <1>2, <2>2, <2>3
<1>7. FirstOK'
  BY <1>6 DEF FirstOK
<1> QED
  BY <1>3, <1>7

-----------------------------------------------------------------------------
(* The invariant holds at the start: no run was reverted by then.          *)
LEMMA InitCount == Init => CountInv
<1> SUFFICES ASSUME Init PROVE CountInv
  OBVIOUS
<1>1. /\ audit = InitAudit /\ pc = "idle" /\ items = << >> /\ report = << >>
      /\ pc \notin Reverting /\ pc \notin Walking
  BY DEF Init, Reverting, Walking
<1>2. \A r \in 1 .. Len(audit) : OnceEach(audit[r].items) /\ audit[r].mode # "revert"
  BY <1>1, TrailAssumption DEF OnceEach
<1>3. RunsOK /\ FirstOK
  BY <1>2 DEF RunsOK, FirstOK
<1>4. ListsOK
  BY <1>1, OnceEmpty DEF ListsOK
<1> QED
  BY <1>1, <1>3, <1>4 DEF CountInv, WalkOK, SkipOK, CountedOK

(* The items of a revert that goes on, as they were: none owes more.       *)
LEMMA CountedKept ==
  ASSUME TrailInv, CountedOK, RollbacksStay, pc \in Reverting, run' = run, audit' = audit,
         items' = items,
         pc \in {"metric", "commit"} => pc' \in {"metric", "commit"} /\ report' = report
  PROVE  CountedOK'
<1>1. items \in Seq(Item)
  BY DEF TrailInv, TrailOK
<1>2. \A k \in 1 .. Len(items) : items[k] \in Item
  BY SMT, <1>1
<1>3. \A r : Recorded(r)' = Recorded(r)
  BY DEF Recorded
<1>4. Reverted(run)' = Reverted(run)
  BY DEF Reverted
<1>5. ASSUME ~Reverted(run), NEW k \in 1 .. Len(items), Owes(run, items[k])'
      PROVE  pc' \in {"metric", "commit"} /\ items[k].skill = Head(report').skill
  <2>1. PICK r, item : r = run /\ item = items[k]
    OBVIOUS
  <2>2. Owes(r, item)'
    BY <1>5, <2>1
  <2>3. Owes(r, item)
    BY <1>2, <1>3, <2>1, <2>2, OwesLess
  <2>4. pc \in {"metric", "commit"} /\ items[k].skill = Head(report).skill
    BY <1>5, <2>1, <2>3 DEF CountedOK
  <2> QED
    BY <2>4
<1> QED
  BY <1>4, <1>5 DEF CountedOK

(* The tool does not move.                                                 *)
LEMMA ToolWaitsCount ==
  ASSUME TrailInv, CountInv, RollbacksStay, UNCHANGED << tool, audit >>
  PROVE  CountInv'
<1>1. RunsOK' /\ FirstOK'
  BY FirstKept DEF TrailInv, TrailOK, CountInv
<1>2. ListsOK'
  BY DEF CountInv, ListsOK, tool
<1>3. WalkOK' /\ SkipOK'
  BY DEF CountInv, WalkOK, SkipOK, Reverted, tool
<1>4. CountedOK'
  <2>1. CASE pc \in Reverting
    BY <2>1, CountedKept DEF CountInv, tool
  <2>2. CASE pc \notin Reverting
    BY <2>2 DEF CountedOK, tool
  <2> QED
    BY <2>1, <2>2
<1> QED
  BY <1>1, <1>2, <1>3, <1>4 DEF CountInv

(* A command returns.                                                      *)
LEMMA EndCount ==
  ASSUME End, RunsOK', FirstOK'
  PROVE  CountInv'
<1>1. pc' = "idle" /\ items' = << >> /\ report' = << >> /\ pc' \notin Reverting /\ pc' \notin Walking
  BY DEF End, Reverting, Walking
<1>2. (OnceEach(items) /\ OnceEach(report))'
  BY <1>1, OnceEmpty
<1>3. (SkillsOf(items) \cap SkillsOf(report) = {})'
  BY <1>1, OnceEmpty
<1>4. ListsOK'
  BY <1>1, <1>2, <1>3 DEF ListsOK
<1> QED
  BY <1>1, <1>4 DEF CountInv, WalkOK, SkipOK, CountedOK

(* A command returns and nothing was recorded.                             *)
LEMMA EndEmptyCount ==
  ASSUME TrailInv, CountInv, RollbacksStay, End, audit' = audit
  PROVE  CountInv'
<1>1. RunsOK' /\ FirstOK'
  BY FirstKept DEF TrailInv, TrailOK, CountInv
<1> QED
  BY <1>1, EndCount

(* A command begins.                                                       *)
LEMMA CommandCount ==
  ASSUME TrailInv, CountInv, RollbacksStay, NEW m, Command(m)
  PROVE  CountInv'
<1>1. CASE UNCHANGED tool
  BY <1>1, ToolWaitsCount DEF Command
<1>2. CASE pc = "idle" /\ pc' \in {"plan", "find"} /\ UNCHANGED << report, items, audit >>
  <2>1. RunsOK' /\ FirstOK'
    BY <1>2, FirstKept DEF TrailInv, TrailOK, CountInv
  <2>2. items' = << >> /\ report' = << >> /\ pc' \notin Reverting /\ pc' \notin Walking
    BY <1>2 DEF CountInv, ListsOK, Reverting, Walking
  <2>3. (OnceEach(items) /\ OnceEach(report))' /\ (SkillsOf(items) \cap SkillsOf(report) = {})'
    BY <2>2, OnceEmpty
  <2>4. ListsOK'
    BY <1>2, <2>2, <2>3 DEF ListsOK
  <2> QED
    BY <2>1, <2>2, <2>4 DEF CountInv, WalkOK, SkipOK, CountedOK
<1> QED
  BY <1>1, <1>2 DEF Command

(* An apply run: the plan lists every skill once.                          *)
LEMMA PlanCount ==
  ASSUME TrailInv, CountInv, RollbacksStay, Plan
  PROVE  CountInv'
<1>1. CASE End /\ audit' = audit
  BY <1>1, EndEmptyCount
<1>2. CASE /\ report' = [ i \in 1 .. Len(SkillOrder) |-> PlanRow(SkillOrder[i]) ]
           /\ pc = "plan" /\ pc' = "patch" /\ UNCHANGED << audit, items >>
  <2>1. RunsOK' /\ FirstOK'
    BY <1>2, FirstKept DEF TrailInv, TrailOK, CountInv
  <2>2. items' = << >> /\ pc' \notin Reverting /\ pc' \notin Walking
    BY <1>2 DEF CountInv, ListsOK, Reverting, Walking
  <2>3. Len(report') = Len(SkillOrder)
    <3>1. Len(SkillOrder) \in Nat
      BY SMT, RegistryAssumption
    <3> QED
      BY SMT, <1>2, <3>1
  <2>4. \A i \in 1 .. Len(SkillOrder) : report'[i].skill = SkillOrder[i]
    BY <1>2 DEF PlanRow
  <2>5. OnceEach(report)'
    <3>1. ASSUME NEW i \in 1 .. Len(SkillOrder), NEW j \in 1 .. Len(SkillOrder),
                 report'[i].skill = report'[j].skill
          PROVE  i = j
      BY <2>4, <3>1, TrailAssumption
    <3> QED
      BY <2>3, <3>1 DEF OnceEach
  <2>6. OnceEach(items)' /\ (SkillsOf(items) \cap SkillsOf(report) = {})'
    BY <2>2, OnceEmpty
  <2>7. ListsOK'
    BY <1>2, <2>5, <2>6 DEF ListsOK
  <2> QED
    BY <2>1, <2>2, <2>7 DEF CountInv, WalkOK, SkipOK, CountedOK
<1> QED
  BY <1>1, <1>2 DEF Plan, Aborts

(* An apply run: its rows.                                                 *)
LEMMA ApplyCount ==
  ASSUME TrailInv, TrailInv', CountInv, RollbacksStay, ApplySkip \/ ApplyRead \/ ApplyWrite
  PROVE  CountInv'
<1>1. CASE Aborts
  BY <1>1, EndEmptyCount DEF Aborts
<1>2. CASE ~Aborts
  <2> DEFINE x == [ skill |-> Head(report).skill, prior |-> Head(report).prior,
                    new |-> Head(report).new, read |-> read ]
  <2>1. /\ pc \in {"patch", "update"} /\ report # << >> /\ audit' = audit
        /\ pc' \in {"patch", "update"}
    BY <1>2 DEF ApplySkip, ApplyRead, ApplyWrite, TrailInv, TrailOK
  <2>2. \/ report' = report /\ items' = items
        \/ report' = Tail(report) /\ items' = items
        \/ pc = "update" /\ report' = Tail(report) /\ items' = Append(items, x)
    BY <1>2 DEF ApplySkip, ApplyRead, ApplyWrite
  <2>3. report \in Seq(PlanRows) /\ items \in Seq(Item)
    BY <2>1 DEF TrailInv, TrailOK
  <2>4. pc = "update" => x \in Item /\ x.skill = Head(report).skill
    <3>1. Head(report) \in PlanRows
      BY <2>1, <2>3, ListParts
    <3>2. pc = "update" => read \in Statuses
      BY DEF TrailInv, TrailOK
    <3> QED
      BY <3>1, <3>2 DEF PlanRows, Item
  <2>5. OnceEach(items) /\ OnceEach(report) /\ SkillsOf(items) \cap SkillsOf(report) = {}
    BY <2>1 DEF CountInv, ListsOK
  <2> HIDE DEF x
  <2>6. (OnceEach(items) /\ OnceEach(report))' /\ (SkillsOf(items) \cap SkillsOf(report) = {})'
    BY <2>1, <2>2, <2>3, <2>4, <2>5, OneDone
  <2>7. ListsOK'
    BY <2>1, <2>6 DEF ListsOK
  <2>8. RunsOK' /\ FirstOK'
    BY <2>1, FirstKept DEF TrailInv, TrailOK, CountInv
  <2>9. pc' \notin Reverting /\ pc' \notin Walking
    BY <2>1 DEF Reverting, Walking
  <2> QED
    BY <2>7, <2>8, <2>9 DEF CountInv, WalkOK, SkipOK, CountedOK
<1> QED
  BY <1>1, <1>2

(* The snapshot of an apply run.                                           *)
LEMMA SaveApplyCount ==
  ASSUME TrailInv, CountInv, RollbacksStay, SaveApply
  PROVE  CountInv'
<1> DEFINE x == [ mode |-> "apply", reverts |-> 0, items |-> items ]
<1>1. CASE End /\ audit' = audit
  BY <1>1, EndEmptyCount
<1>2. CASE End /\ rows' = rows /\ audit' = Append(audit, x)
  <2>1. x \in Run /\ x.mode = "apply" /\ x.items = items
    BY SMT DEF Run, TrailInv, TrailOK
  <2>2. OnceEach(items) /\ RunsOK /\ FirstOK /\ audit \in Seq(Run)
    BY DEF CountInv, ListsOK, TrailInv, TrailOK
  <2> HIDE DEF x
  <2>3. RunsOK' /\ FirstOK'
    BY <1>2, <2>1, <2>2, FirstGrows
  <2> QED
    BY <1>2, <2>3, EndCount
<1> QED
  BY <1>1, <1>2 DEF SaveApply, Aborts

-----------------------------------------------------------------------------
(* The run is looked up, and whether it was reverted before.               *)
LEMMA FindCount ==
  ASSUME TrailInv, TrailInv', CountInv, RollbacksStay, FindRun \/ CheckReverted
  PROVE  CountInv'
<1>1. CASE End /\ audit' = audit
  BY <1>1, EndEmptyCount
<1>2. CASE /\ pc = "find" /\ pc' = "exists" /\ report' = audit[run'].items
           /\ UNCHANGED << audit, items >>
  <2>1. RunsOK' /\ FirstOK'
    BY <1>2, FirstKept DEF TrailInv, TrailOK, CountInv
  <2>2. items' = << >> /\ pc' \notin Walking
    BY <1>2 DEF CountInv, ListsOK, Walking
  <2>3. PICK r \in 1 .. Len(audit) : r = run'
    BY <1>2 DEF TrailInv, TrailOK, Reverting
  <2>4. OnceEach(report)'
    BY <1>2, <2>3 DEF CountInv, RunsOK
  <2>5. OnceEach(items)' /\ (SkillsOf(items) \cap SkillsOf(report) = {})'
    BY <2>2, OnceEmpty
  <2>6. ListsOK'
    BY <1>2, <2>4, <2>5 DEF ListsOK
  <2>7. \A k \in 1 .. Len(items') : FALSE
    BY SMT, <2>2
  <2> QED
    BY <1>2, <2>1, <2>2, <2>6, <2>7 DEF CountInv, WalkOK, SkipOK, CountedOK
<1>3. CASE /\ pc = "exists" /\ pc' = "item" /\ UNCHANGED << run, report, items, audit >>
           /\ skip' = \E i \in 1 .. Len(audit) : audit[i].reverts = run
  <2>1. RunsOK' /\ FirstOK'
    BY <1>3, FirstKept DEF TrailInv, TrailOK, CountInv
  <2>2. pc \in Reverting /\ pc' \notin Walking
    BY <1>3 DEF Reverting, Walking
  <2>3. ListsOK'
    BY <1>3 DEF CountInv, ListsOK
  <2>4. SkipOK'
    BY <1>3 DEF SkipOK, Reverted
  <2>5. CountedOK'
    BY <1>3, <2>2, CountedKept DEF CountInv
  <2> QED
    BY <2>1, <2>2, <2>3, <2>4, <2>5 DEF CountInv, WalkOK
<1> QED
  BY <1>1, <1>2, <1>3 DEF FindRun, CheckReverted, Aborts

(* One more item, which owes nothing or gets its rollback next.            *)
LEMMA CountedGrows ==
  ASSUME TrailInv, CountedOK, RollbacksStay, pc \in Reverting \ {"metric", "commit"},
         run' = run, audit' = audit, NEW x \in Item, items' = Append(items, x),
         ~Owes(run, x)' \/ (pc' \in {"metric", "commit"} /\ x.skill = Head(report').skill)
  PROVE  CountedOK'
<1>1. items \in Seq(Item)
  BY DEF TrailInv, TrailOK
<1>2. /\ \A k \in 1 .. Len(items) : items[k] \in Item /\ items'[k] = items[k]
      /\ \A k \in 1 .. Len(items') : k \in 1 .. Len(items) \/ items'[k] = x
  BY SMT, <1>1
<1>3. \A r : Recorded(r)' = Recorded(r)
  BY DEF Recorded
<1>4. Reverted(run)' = Reverted(run)
  BY DEF Reverted
<1>5. ASSUME ~Reverted(run), NEW k \in 1 .. Len(items), Owes(run, items[k])' PROVE FALSE
  <2>1. PICK r, item : r = run /\ item = items[k]
    OBVIOUS
  <2>2. Owes(r, item)'
    BY <1>2, <1>5, <2>1
  <2>3. Owes(r, item)
    BY <1>2, <1>3, <2>1, <2>2, OwesLess
  <2> QED
    BY <1>5, <2>1, <2>3 DEF CountedOK
<1> QED
  BY <1>2, <1>4, <1>5 DEF CountedOK

(* One item of the run: the way back ends where the run found the skill,   *)
(* and has not been there before.                                          *)
LEMMA RevertItemCount ==
  ASSUME IInv, TrailInv, CountInv, RollbacksStay, RevertItem
  PROVE  CountInv'
<1>1. CASE Aborts
  BY <1>1, EndEmptyCount DEF Aborts
<1>2. CASE ~Aborts
  <2> DEFINE live == LiveStatus(Head(report))
             to   == Head(report).prior
  <2>1. /\ pc = "item" /\ report # << >> /\ UNCHANGED << run, skip, items, audit >>
        /\ \/ report' = Tail(report) /\ pc' = "item"
           \/ /\ live # to /\ HasPath(live, to) /\ reached' = live
              /\ path' = TransitionPath(live, to) /\ pc' = "hop" /\ report' = report
    BY <1>2 DEF RevertItem
  <2>2. pc \in Reverting
    BY <2>1 DEF Reverting
  <2>3. /\ items \in Seq(Item) /\ Head(report) \in Item /\ report \in Seq(Recorded(run))
    BY <2>1, <2>2, ItemsLeft
  <2>4. RunsOK' /\ FirstOK'
    BY <2>1, FirstKept DEF TrailInv, TrailOK, CountInv
  <2>5. ListsOK'
    <3>1. OnceEach(items) /\ OnceEach(report) /\ SkillsOf(items) \cap SkillsOf(report) = {}
      BY <2>1 DEF CountInv, ListsOK
    <3>2. OnceEach(Tail(report)) /\ SkillsOf(items) \cap SkillsOf(Tail(report)) = {}
      BY <2>1, <2>3, <3>1, OneDone
    <3> QED
      BY <2>1, <3>1, <3>2 DEF ListsOK
  <2>6. SkipOK'
    <3>1. Reverted(run)' = Reverted(run)
      BY <2>1 DEF Reverted
    <3>2. skip => Reverted(run)
      BY <2>1, <2>2 DEF CountInv, SkipOK
    <3> QED
      BY <2>1, <3>1, <3>2 DEF SkipOK
  <2>7. CountedOK'
    BY <2>1, <2>2, CountedKept DEF CountInv
  <2>8. live \in Statuses /\ to \in Statuses
    <3>1. Head(report).skill \in Skills /\ to \in Statuses
      BY <2>3 DEF Item
    <3>2. rows[Head(report).skill] \in Row
      BY <3>1 DEF IInv, RowsOK
    <3> QED
      BY <3>1, <3>2 DEF LiveStatus, Row
  <2> HIDE DEF live, to
  <2>9. pc' = "hop" => path' \in Ways(Statuses, to) /\ reached' # to /\ to = Head(report').prior
    BY <2>1, <2>8, PathIsWay DEF to
  <2>10. WalkOK'
    BY <2>1, <2>9 DEF WalkOK, Walking, Ways
  <2> QED
    BY <2>4, <2>5, <2>6, <2>7, <2>10 DEF CountInv
<1> QED
  BY <1>1, <1>2

(* The items of a run are known by their skill.                            *)
LEMMA KnownBySkill ==
  ASSUME RunsOK, NEW r \in 1 .. Len(audit), NEW a \in Recorded(r), NEW b \in Recorded(r),
         a.skill = b.skill
  PROVE  a = b
<1>1. PICK i \in 1 .. Len(audit[r].items), j \in 1 .. Len(audit[r].items) :
        a = audit[r].items[i] /\ b = audit[r].items[j]
  BY DEF Recorded
<1>2. OnceEach(audit[r].items)
  BY DEF RunsOK
<1>3. i = j
  BY <1>1, <1>2 DEF OnceEach
<1> QED
  BY <1>1, <1>3

(* A walk that stops in the middle did not bring its skill back.           *)
LEMMA WalkFailsCount ==
  ASSUME TrailInv, CountInv, RollbacksStay, pc \in Walking, WalkFails, audit' = audit
  PROVE  CountInv'
<1>1. /\ pc \in Reverting \ {"metric", "commit"} /\ report # << >> /\ pc \notin {"metric", "commit"}
      /\ pc \in Reverting \ {"exists"}
  BY DEF TrailInv, TrailOK, Reverting, Walking
<1>2. /\ run \in 1 .. Len(audit) /\ items \in Seq(Item) /\ Head(report) \in Item
      /\ report \in Seq(Recorded(run)) /\ Head(report) \in Recorded(run)
  BY <1>1, ItemsLeft
<1>3. start \in Statuses /\ reached \in Statuses /\ reached # Head(report).prior
  BY DEF TrailInv, TrailOK, CountInv, WalkOK
<1>4. PICK x \in Item : x = WalkedItem(reached) /\ x.skill = Head(report).skill /\ x.new = reached
  <2>1. WalkedItem(reached) \in Item
    BY <1>2, <1>3 DEF WalkedItem, Item
  <2>2. WalkedItem(reached).skill = Head(report).skill /\ WalkedItem(reached).new = reached
    BY DEF WalkedItem
  <2> QED
    BY <2>1, <2>2
<1>5. /\ pc' = "item" /\ report' = Tail(report) /\ UNCHANGED << run, skip >>
      /\ items' = items \/ items' = Append(items, x)
  BY <1>4 DEF WalkFails
<1>6. RunsOK' /\ FirstOK'
  BY FirstKept DEF TrailInv, TrailOK, CountInv
<1>7. ListsOK'
  <2>1. OnceEach(items) /\ OnceEach(report) /\ SkillsOf(items) \cap SkillsOf(report) = {}
    BY <1>1 DEF CountInv, ListsOK
  <2>2. (OnceEach(items) /\ OnceEach(report))' /\ (SkillsOf(items) \cap SkillsOf(report) = {})'
    BY <1>1, <1>2, <1>4, <1>5, <2>1, OneDone
  <2> QED
    BY <1>5, <2>2 DEF ListsOK
<1>8. SkipOK'
  <2>1. Reverted(run)' = Reverted(run)
    BY <1>5 DEF Reverted
  <2> QED
    BY <1>1, <1>5, <2>1 DEF CountInv, SkipOK
<1>9. CountedOK'
  <2>1. CASE items' = items
    BY <1>1, <1>5, <2>1, CountedKept DEF CountInv
  <2>2. CASE items' = Append(items, x)
    <3>1. PICK r \in 1 .. Len(audit) : r = run
      BY <1>2
    <3>2. ASSUME NEW old \in Recorded(r), old.skill = x.skill PROVE old.prior # x.new
      BY <1>2, <1>3, <1>4, <3>1, <3>2, KnownBySkill DEF CountInv
    <3>3. Recorded(r)' = Recorded(r)
      BY DEF Recorded
    <3>4. ~Owes(r, x)'
      BY <3>2, <3>3 DEF Owes, BringsBack
    <3>5. ~Owes(run, x)'
      BY <1>5, <3>1, <3>4
    <3> QED
      BY <1>1, <1>5, <2>2, <3>5, CountedGrows DEF CountInv
  <2> QED
    BY <1>5, <2>1, <2>2
<1>10. WalkOK'
  BY <1>5 DEF WalkOK, Walking
<1> QED
  BY <1>6, <1>7, <1>8, <1>9, <1>10 DEF CountInv

(* The two halves of a hop.                                                *)
LEMMA HopCount ==
  ASSUME IInv, TrailInv, CountInv, RollbacksStay, HopRead \/ HopWrite
  PROVE  CountInv'
<1>1. /\ pc \in Walking /\ pc \in Reverting \ {"metric", "commit"} /\ audit' = audit
      /\ pc \notin {"metric", "commit"} /\ pc \in Reverting \ {"exists"} /\ report # << >>
  BY DEF HopRead, HopWrite, Walking, Reverting, TrailInv, TrailOK
<1>2. CASE WalkFails
  BY <1>1, <1>2, WalkFailsCount
<1>3. RunsOK' /\ FirstOK'
  BY <1>1, FirstKept DEF TrailInv, TrailOK, CountInv
<1>4. OnceEach(items) /\ OnceEach(report) /\ SkillsOf(items) \cap SkillsOf(report) = {}
  BY <1>1 DEF CountInv, ListsOK
<1>5. Reverted(run) = (\E i \in 1 .. Len(audit) : audit[i].reverts = run)
  BY DEF Reverted
<1>6. /\ path \in Seq(Statuses) /\ path # << >> /\ reached # Head(report).prior
      /\ \A i \in 1 .. Len(path) - 1 : path[i] # Head(report).prior
  BY <1>1 DEF CountInv, WalkOK
<1>7. skip => Reverted(run)
  BY <1>1 DEF CountInv, SkipOK
<1>8. CASE /\ pc' \in Walking /\ UNCHANGED << run, skip, items, report >>
           /\ \/ UNCHANGED << path, reached >>
              \/ Tail(path) # << >> /\ reached' = Head(path) /\ path' = Tail(path)
  <2>1. pc' \notin {"metric", "commit"} /\ pc' \notin {"idle", "plan", "find"}
    BY <1>8 DEF Walking
  <2>2. ListsOK'
    BY <1>4, <1>8, <2>1 DEF ListsOK
  <2>3. SkipOK'
    BY <1>1, <1>7, <1>8 DEF SkipOK, Reverted
  <2>4. CountedOK'
    BY <1>1, <1>8, CountedKept DEF CountInv
  <2>5. CASE UNCHANGED << path, reached >>
    BY <1>3, <1>6, <1>8, <2>2, <2>3, <2>4, <2>5 DEF CountInv, WalkOK
  <2>6. CASE Tail(path) # << >> /\ reached' = Head(path) /\ path' = Tail(path)
    <3>1. /\ Tail(path) \in Seq(Statuses) /\ Head(path) = path[1] /\ 1 \in 1 .. Len(path) - 1
          /\ \A i \in 1 .. Len(Tail(path)) - 1 : /\ i + 1 \in 1 .. Len(path) - 1
                                                 /\ Tail(path)[i] = path[i + 1]
      BY SMT, <1>6, <2>6
    <3>2. WalkOK'
      BY <1>6, <1>8, <2>6, <3>1 DEF WalkOK
    <3> QED
      BY <1>3, <2>2, <2>3, <2>4, <3>2 DEF CountInv
  <2> QED
    BY <1>8, <2>5, <2>6
<1>9. CASE /\ pc = "hopUpdate" /\ items' = Append(items, WalkedItem(Head(path)))
           /\ pc' = (IF skip THEN "item" ELSE "metric")
           /\ report' = (IF skip THEN Tail(report) ELSE report)
           /\ UNCHANGED << run, skip >>
  <2>1. /\ items \in Seq(Item) /\ Head(report) \in Item /\ report \in Seq(Recorded(run))
    BY <1>1, ItemsLeft
  <2>2. Head(path) \in Statuses /\ start \in Statuses
    BY <1>1, <1>9 DEF IInv, WritesJustified, Justified, TrailInv, TrailOK
  <2>3. PICK x \in Item : x = WalkedItem(Head(path)) /\ x.skill = Head(report).skill
    <3>1. WalkedItem(Head(path)) \in Item
      BY <2>1, <2>2 DEF WalkedItem, Item
    <3>2. WalkedItem(Head(path)).skill = Head(report).skill
      BY DEF WalkedItem
    <3> QED
      BY <3>1, <3>2
  <2>4. /\ OnceEach(Tail(report)) /\ OnceEach(Append(items, x))
        /\ SkillsOf(Append(items, x)) \cap SkillsOf(Tail(report)) = {}
    BY <1>1, <1>4, <2>1, <2>3, OneDone
  <2>5. ListsOK'
    <3>1. CASE skip
      BY <1>9, <2>3, <2>4, <3>1 DEF ListsOK
    <3>2. CASE ~skip
      BY <1>4, <1>9, <2>3, <2>4, <3>2 DEF ListsOK
    <3> QED
      BY <3>1, <3>2
  <2>6. SkipOK'
    BY <1>1, <1>7, <1>9 DEF SkipOK, Reverted
  <2>7. WalkOK'
    BY <1>9 DEF WalkOK, Walking
  <2>8. CountedOK'
    <3>1. CASE skip
      BY <1>1, <1>7, <1>9, <3>1 DEF CountedOK, Reverted
    <3>2. CASE ~skip
      BY <1>1, <1>9, <2>3, <3>2, CountedGrows DEF CountInv
    <3> QED
      BY <3>1, <3>2
  <2> QED
    BY <1>3, <2>5, <2>6, <2>7, <2>8 DEF CountInv
<1> QED
  <2>1. CASE HopRead
    BY <1>2, <1>8, <2>1 DEF HopRead, Goto, Walking
  <2>2. CASE HopWrite
    BY <1>2, <1>8, <1>9, <2>2 DEF HopWrite, Walking
  <2> QED
    BY <2>1, <2>2

(* The rollback of the skill that is back is counted.                      *)
LEMMA MetricCount ==
  ASSUME IInv, TrailInv, CountInv, RollbacksStay, MetricLock \/ MetricCommit
  PROVE  CountInv'
<1>1. CASE Aborts
  BY <1>1, EndEmptyCount DEF Aborts
<1>2. CASE ~Aborts
  <2>1. /\ pc \in {"metric", "commit"} /\ UNCHANGED << run, skip, items, audit >>
        /\ \/ pc' = "commit" /\ report' = report
           \/ /\ pc = "commit" /\ pc' = "item" /\ report' = Tail(report)
              /\ CommitMetrics(Head(report).skill, count)
    BY <1>2 DEF MetricLock, MetricCommit
  <2>2. pc \in Reverting /\ pc \in Reverting \ {"exists"} /\ pc' \notin Walking /\ report # << >>
    BY <2>1 DEF Reverting, Walking, TrailInv, TrailOK
  <2>3. /\ run \in 1 .. Len(audit) /\ items \in Seq(Item) /\ Head(report) \in Item
        /\ report \in Seq(Recorded(run))
    BY <2>2, ItemsLeft
  <2>4. RunsOK' /\ FirstOK'
    BY <2>1, FirstKept DEF TrailInv, TrailOK, CountInv
  <2>5. ListsOK'
    <3>1. /\ OnceEach(items) /\ OnceEach(report) /\ SkillsOf(items) \cap SkillsOf(Tail(report)) = {}
      BY <2>1 DEF CountInv, ListsOK
    <3>2. OnceEach(Tail(report))
      BY <2>2, <2>3, <3>1, OnceTail
    <3> QED
      BY <2>1, <3>1, <3>2 DEF ListsOK
  <2>6. SkipOK'
    <3>1. skip => Reverted(run)
      BY <2>2 DEF CountInv, SkipOK
    <3> QED
      BY <2>1, <3>1 DEF SkipOK, Reverted
  <2>7. CountedOK'
    <3>1. CASE pc' = "commit" /\ report' = report
      BY <2>1, <2>2, <3>1, CountedKept DEF CountInv
    <3>2. CASE pc = "commit" /\ CommitMetrics(Head(report).skill, count)
      <4> DEFINE s == Head(report).skill
      <4>1. s \in Skills
        BY <2>3 DEF Item
      <4>2. rows \in [Skills -> Row] /\ rows[s] \in Row /\ count = rows[s].rollbacks
        BY <3>2, <4>1 DEF IInv, RowsOK, CountsHeld, Counted
      <4>3. rows'[s].rollbacks = count + 1
        BY <3>2, <4>1, <4>2 DEF CommitMetrics, Row
      <4>4. rows'[s].rollbacks >= 1
        <5>1. count \in Nat
          BY <4>2 DEF Row
        <5>2. count + 1 >= 1
          BY SMT, <5>1
        <5> QED
          BY <4>3, <5>2
      <4>5. \A r : Recorded(r)' = Recorded(r)
        BY <2>1 DEF Recorded
      <4>6. \A k \in 1 .. Len(items) : items[k] \in Item
        BY SMT, <2>3
      <4>7. ASSUME ~Reverted(run), NEW k \in 1 .. Len(items), Owes(run, items[k])' PROVE FALSE
        <5>1. PICK r, item : r = run /\ item = items[k]
          OBVIOUS
        <5>2. Owes(r, item)'
          BY <2>1, <4>7, <5>1
        <5>3. Owes(r, item)
          BY <4>5, <4>6, <5>1, <5>2, OwesLess
        <5>4. item.skill = s
          BY <2>2, <4>7, <5>1, <5>3 DEF CountInv, CountedOK
        <5> QED
          BY <4>4, <5>2, <5>4 DEF Owes
      <4> QED
        BY <2>1, <4>7 DEF CountedOK, Reverted
    <3> QED
      BY <2>1, <3>1, <3>2
  <2> QED
    BY <2>2, <2>4, <2>5, <2>6, <2>7 DEF CountInv, WalkOK
<1> QED
  BY <1>1, <1>2

(* The revert is recorded: if it is the first of its run, none owes.       *)
LEMMA SaveRevertCount ==
  ASSUME TrailInv, CountInv, RollbacksStay, SaveRevert
  PROVE  CountInv'
<1>1. CASE Aborts
  BY <1>1, EndEmptyCount DEF Aborts
<1>2. CASE ~Aborts
  <2>1. pc = "item" /\ End /\ rows' = rows /\ audit' = Append(audit, RevertRun)
    BY <1>2 DEF SaveRevert
  <2>2. pc \in Reverting
    BY <2>1 DEF Reverting
  <2>3. run \in 1 .. Len(audit) /\ items \in Seq(Item) /\ audit \in Seq(Run)
    BY <2>2, ItemsLeft
  <2>4. run \in Nat
    BY SMT, <2>3
  <2>5. PICK x \in Run : x = RevertRun /\ x.reverts = run /\ x.items = items
    <3>1. RevertRun \in Run
      BY <2>3, <2>4 DEF RevertRun, Run
    <3>2. RevertRun.reverts = run /\ RevertRun.items = items
      BY DEF RevertRun
    <3> QED
      BY <3>1, <3>2
  <2>6. OnceEach(items) /\ RunsOK /\ FirstOK
    BY DEF CountInv, ListsOK
  <2>7. ~Reverted(run) => \A k \in 1 .. Len(items) : ~Owes(run, items[k])
    BY <2>1, <2>2 DEF CountInv, CountedOK
  <2>8. RunsOK' /\ FirstOK'
    BY <2>1, <2>3, <2>5, <2>6, <2>7, FirstGrows
  <2> QED
    BY <2>1, <2>8, EndCount
<1> QED
  BY <1>1, <1>2

(* Every step keeps the invariant.                                         *)
LEMMA NextCount == IInv /\ TrailInv /\ CountInv /\ [Next]_vars => CountInv'
<1> SUFFICES ASSUME IInv, TrailInv, CountInv, [Next]_vars PROVE CountInv'
  OBVIOUS
<1>0. RollbacksStay /\ TrailInv'
  BY StepKeepsRollbacks, NextTrail
<1>1. CASE UNCHANGED << tool, audit >>
  BY <1>0, <1>1, ToolWaitsCount
<1>2. CASE Kill
  BY <1>0, <1>2, EndEmptyCount DEF Kill, Aborts
<1>3. CASE ToolStep
  BY <1>0, <1>3, PlanCount, ApplyCount, SaveApplyCount, FindCount, RevertItemCount, HopCount,
     MetricCount, SaveRevertCount DEF ToolStep
<1>4. CASE \E m \in {"dry", "apply", "revert", "last"} : Command(m)
  BY <1>0, <1>4, CommandCount
<1> QED
  BY <1>1, <1>2, <1>3, <1>4
     DEF Next, vars, PatchStatusRead, PatchMetricsLock, RequestStep, PatchStatusWrite,
         PatchMetricsCommit, TaskAttempted, ServerBoot

(* The first revert of a run that is recorded has counted a rollback for   *)
(* every skill it brought back, wherever failures, kills, requests and     *)
(* restarts fall: the count is committed before the next item.             *)
THEOREM FirstRevertCountedCorrect == Spec => []FirstRevertCounted
<1>1. CountInv => FirstRevertCounted
  BY DEF CountInv, FirstOK, FirstRevertCounted, Owes, BringsBack, Recorded
<1>2. Spec => []CountInv
  BY InitCount, NextCount, IInvCorrect, TrailInvCorrect, PTL DEF Spec
<1> QED
  BY <1>1, <1>2, PTL

-----------------------------------------------------------------------------
(* The prior status of an item, and the status its PatchStatus saw.  The   *)
(* plan may be old when a row of it is written; but the gate proposes two  *)
(* transitions only, and the status each of them leads to is reached from  *)
(* a single one, so the check of PatchStatus finds out.                    *)
TrueItem == { x \in Item : x.prior = x.read }

TrueRun == { r \in Run : r.items \in Seq(TrueItem) }

GatedRow ==
  { r \in PlanRows : r.new # r.prior =>
      \/ r.prior = "validated" /\ r.new = "active"
      \/ r.prior = "active" /\ r.new = "deprecated" }

PriorInv ==
  /\ audit \in Seq(TrueRun) /\ items \in Seq(TrueItem)
  /\ pc \in {"patch", "update"} => report \in Seq(GatedRow)
  /\ pc = "update" => read = Head(report).prior

(* A transition of the gate is allowed from its prior status alone.        *)
LEMMA GateKnowsPrior ==
  ASSUME NEW r \in GatedRow, r.new # r.prior, NEW st, r.new \in AllowedTransitions(st)
  PROVE  st = r.prior
BY DEF GatedRow, AllowedTransitions

(* The list of a row's results is a list of true ones if each of them is.  *)
LEMMA AllTrue ==
  ASSUME NEW S, NEW T, NEW list \in Seq(S), \A i \in 1 .. Len(list) : list[i] \in T
  PROVE  list \in Seq(T)
BY SMT

(* Items and runs grow by true ones.                                       *)
LEMMA PriorMoves ==
  ASSUME PriorInv, audit' \in Seq(TrueRun), items' \in Seq(TrueItem),
         pc' \notin {"patch", "update"}
  PROVE  PriorInv'
BY DEF PriorInv

LEMMA EndPrior ==
  ASSUME PriorInv, End, audit' \in Seq(TrueRun)
  PROVE  PriorInv'
<1>1. << >> \in Seq(TrueItem)
  BY SMT
<1> QED
  BY <1>1, PriorMoves DEF End

LEMMA InitPrior == Init => PriorInv
<1> SUFFICES ASSUME Init PROVE PriorInv
  OBVIOUS
<1>1. << >> \in Seq(TrueItem) /\ InitAudit \in Seq(Run)
  BY SMT, RegistryAssumption
<1>2. ASSUME NEW r \in 1 .. Len(InitAudit) PROVE InitAudit[r] \in TrueRun
  <2>1. InitAudit[r] \in Run
    BY SMT, <1>1
  <2>2. PICK list \in Seq(Item) : list = InitAudit[r].items
    BY <2>1 DEF Run
  <2>3. \A i \in 1 .. Len(list) : list[i] \in TrueItem
    <3>1. \A i \in 1 .. Len(list) : list[i] \in Item
      BY SMT, <2>2
    <3> QED
      BY <2>2, <3>1, PriorAssumption DEF TrueItem
  <2> QED
    BY <2>1, <2>2, <2>3, AllTrue DEF TrueRun
<1>3. InitAudit \in Seq(TrueRun)
  BY <1>1, <1>2, AllTrue
<1> QED
  BY <1>1, <1>3 DEF Init, PriorInv

(* The plan proposes what the gate allows.                                 *)
LEMMA PlanPrior ==
  ASSUME IInv, PriorInv, Plan
  PROVE  PriorInv'
<1>1. CASE End /\ audit' = audit
  BY <1>1, EndPrior DEF PriorInv
<1>2. CASE /\ report' = [ i \in 1 .. Len(SkillOrder) |-> PlanRow(SkillOrder[i]) ]
           /\ pc' = "patch" /\ UNCHANGED << audit, items >>
  <2>1. ASSUME NEW s \in Skills PROVE PlanRow(s) \in GatedRow
    <3>1. rows[s].status \in Statuses
      BY DEF IInv, RowsOK, Row
    <3>2. PICK new : new = Proposed(rows[s].status, ApplyAttempts(s))
      OBVIOUS
    <3>3. new # rows[s].status => \/ rows[s].status = "validated" /\ new = "active"
                                  \/ rows[s].status = "active" /\ new = "deprecated"
      BY <3>2 DEF Proposed, Promotes, Demotes
    <3>4. new \in Statuses
      BY <3>1, <3>3 DEF Statuses
    <3> QED
      BY <3>1, <3>2, <3>3, <3>4 DEF PlanRow, PlanRows, GatedRow
  <2>2. \A i \in 1 .. Len(SkillOrder) : PlanRow(SkillOrder[i]) \in GatedRow
    <3>1. \A i \in 1 .. Len(SkillOrder) : SkillOrder[i] \in Skills
      BY SMT, RegistryAssumption
    <3> QED
      BY <2>1, <3>1
  <2>3. report' \in Seq(GatedRow)
    <3>1. Len(SkillOrder) \in Nat
      BY SMT, RegistryAssumption
    <3> QED
      BY SMT, <1>2, <2>2, <3>1
  <2> QED
    BY <1>2, <2>3 DEF PriorInv
<1> QED
  BY <1>1, <1>2 DEF Plan, Aborts

(* The rows of the plan: what PatchStatus saw is what the plan was made    *)
(* of, or the transition was refused.                                      *)
LEMMA ApplyPrior ==
  ASSUME TrailInv, PriorInv, ApplySkip \/ ApplyRead \/ ApplyWrite
  PROVE  PriorInv'
<1>1. CASE Aborts
  BY <1>1, EndPrior DEF Aborts, PriorInv
<1>2. CASE ~Aborts
  <2>1. /\ pc \in {"patch", "update"} /\ report # << >> /\ audit' = audit
        /\ pc' \in {"patch", "update"}
    BY <1>2 DEF ApplySkip, ApplyRead, ApplyWrite, TrailInv, TrailOK
  <2>2. report \in Seq(GatedRow) /\ audit' \in Seq(TrueRun) /\ items \in Seq(TrueItem)
    BY <2>1 DEF PriorInv
  <2>3. PICK row \in GatedRow : row = Head(report)
    BY <2>1, <2>2, ListParts
  <2>4. Tail(report) \in Seq(GatedRow)
    BY <2>1, <2>2, ListParts
  <2>5. CASE report' = Tail(report) /\ pc' = "patch" /\ items' = items
    BY <2>2, <2>4, <2>5 DEF PriorInv
  <2>6. CASE ApplyRead /\ pc' = "update"
    <3>1. /\ row.new # row.prior /\ row.new \in AllowedTransitions(rows[row.skill].status)
          /\ read' = rows[row.skill].status /\ UNCHANGED << report, items >>
      BY <1>2, <2>3, <2>6 DEF ApplyRead
    <3>2. read' = row.prior
      BY <3>1, GateKnowsPrior
    <3> QED
      BY <2>2, <2>3, <2>6, <3>1, <3>2 DEF PriorInv
  <2>7. CASE ApplyWrite
    <3> DEFINE x == [ skill |-> row.skill, prior |-> row.prior, new |-> row.new, read |-> read ]
    <3>1. /\ pc = "update" /\ items' = Append(items, x) /\ report' = Tail(report)
          /\ pc' = "patch"
      BY <1>2, <2>3, <2>7 DEF ApplyWrite
    <3>2. read = row.prior
      BY <2>3, <3>1 DEF PriorInv
    <3>3. x \in TrueItem
      BY <3>2 DEF GatedRow, PlanRows, Item, TrueItem
    <3> HIDE DEF x
    <3>4. items' \in Seq(TrueItem)
      BY <2>2, <3>1, <3>3, ListGrows
    <3> QED
      BY <2>2, <2>4, <3>1, <3>4 DEF PriorInv
  <2> QED
    BY <1>2, <2>5, <2>6, <2>7 DEF ApplySkip, ApplyRead
<1> QED
  BY <1>1, <1>2

(* A run is recorded with the items of its command.                        *)
LEMMA SavePrior ==
  ASSUME TrailInv, PriorInv, SaveApply \/ SaveRevert
  PROVE  PriorInv'
<1> DEFINE x == [ mode |-> "apply", reverts |-> 0, items |-> items ]
<1>1. audit \in Seq(TrueRun) /\ items \in Seq(TrueItem) /\ items \in Seq(Item)
  BY DEF PriorInv, TrailInv, TrailOK
<1>2. x \in TrueRun
  <2>1. x \in Run
    BY SMT, <1>1 DEF Run
  <2> QED
    BY <1>1, <2>1 DEF TrueRun
<1>3. SaveRevert => RevertRun \in TrueRun
  <2> SUFFICES ASSUME SaveRevert PROVE RevertRun \in TrueRun
    OBVIOUS
  <2>1. run \in 1 .. Len(audit)
    BY ItemsLeft DEF SaveRevert, Reverting
  <2>2. RevertRun \in Run
    BY SMT, <1>1, <2>1 DEF RevertRun, Run
  <2> QED
    BY <1>1, <2>2 DEF TrueRun, RevertRun
<1> HIDE DEF x
<1>4. /\ End
      /\ audit' = audit \/ audit' = Append(audit, x) \/ (SaveRevert /\ audit' = Append(audit, RevertRun))
  BY DEF SaveApply, SaveRevert, Aborts, x
<1>5. audit' \in Seq(TrueRun)
  BY <1>1, <1>2, <1>3, <1>4, ListGrows
<1> QED
  BY <1>4, <1>5, EndPrior

(* A revert records where a walk began.                                    *)
LEMMA WalkPrior ==
  ASSUME IInv, TrailInv, PriorInv, HopRead \/ HopWrite
  PROVE  PriorInv'
<1>1. /\ pc \in Walking /\ pc \in Reverting /\ audit' = audit /\ report # << >>
      /\ pc' \in {"item", "hop", "hopUpdate", "metric"}
  BY DEF HopRead, HopWrite, WalkFails, Goto, Walking, Reverting, TrailInv, TrailOK
<1>2. Head(report) \in Item /\ start \in Statuses /\ reached \in Statuses
  BY <1>1, ItemsLeft DEF TrailInv, TrailOK
<1>3. ASSUME NEW to \in Statuses PROVE WalkedItem(to) \in TrueItem
  BY <1>2, <1>3 DEF WalkedItem, Item, TrueItem
<1>4. pc = "hopUpdate" => Head(path) \in Statuses
  BY DEF IInv, WritesJustified, Justified
<1>5. \/ items' = items \/ items' = Append(items, WalkedItem(reached))
      \/ pc = "hopUpdate" /\ items' = Append(items, WalkedItem(Head(path)))
  BY DEF HopRead, HopWrite, WalkFails, Goto
<1>6. audit \in Seq(TrueRun) /\ items \in Seq(TrueItem)
  BY DEF PriorInv
<1>7. items' \in Seq(TrueItem)
  BY <1>2, <1>3, <1>4, <1>5, <1>6, ListGrows
<1>8. pc' \notin {"patch", "update"}
  BY <1>1
<1> QED
  BY <1>1, <1>6, <1>7, <1>8, PriorMoves

(* Every step keeps the invariant.                                         *)
LEMMA NextPrior == IInv /\ TrailInv /\ PriorInv /\ [Next]_vars => PriorInv'
<1> SUFFICES ASSUME IInv, TrailInv, PriorInv, [Next]_vars PROVE PriorInv'
  OBVIOUS
<1>1. audit \in Seq(TrueRun) /\ items \in Seq(TrueItem)
  BY DEF PriorInv
<1>2. CASE UNCHANGED << tool, audit >>
  BY <1>2 DEF PriorInv, tool
<1>3. CASE audit' = audit /\ End
  BY <1>1, <1>3, EndPrior
<1>4. CASE audit' = audit /\ items' = items /\ pc' \notin {"patch", "update"}
  BY <1>1, <1>4, PriorMoves
<1>5. CASE Command("dry") \/ Command("apply") \/ Command("revert") \/ Command("last")
  BY <1>2, <1>4, <1>5 DEF Command
<1>6. CASE ToolStep
  BY <1>3, <1>4, <1>6, PlanPrior, ApplyPrior, SavePrior, WalkPrior
     DEF ToolStep, FindRun, CheckReverted, RevertItem, MetricLock, MetricCommit, Aborts
<1>7. CASE Kill
  BY <1>3, <1>7 DEF Kill, Aborts
<1> QED
  BY <1>2, <1>5, <1>6, <1>7
     DEF Next, vars, PatchStatusRead, PatchMetricsLock, RequestStep, PatchStatusWrite,
         PatchMetricsCommit, TaskAttempted, ServerBoot

(* The prior status an item records is the one its PatchStatus saw, though *)
(* requests and restarts may come between the plan and the read.           *)
THEOREM AuditPriorIsTrueCorrect == Spec => []AuditPriorIsTrue
<1>1. PriorInv => AuditPriorIsTrue
  <2> SUFFICES ASSUME PriorInv, NEW i \in 1 .. Len(audit), NEW k \in 1 .. Len(audit[i].items)
               PROVE  audit[i].items[k].prior = audit[i].items[k].read
    BY DEF AuditPriorIsTrue
  <2>1. audit[i] \in TrueRun
    BY SMT DEF PriorInv
  <2>2. PICK list \in Seq(TrueItem) : list = audit[i].items
    BY <2>1 DEF TrueRun
  <2>3. list[k] \in TrueItem
    BY SMT, <2>2
  <2> QED
    BY <2>2, <2>3 DEF TrueItem
<1>2. Spec => []PriorInv
  BY InitPrior, NextPrior, IInvCorrect, TrailInvCorrect, PTL DEF Spec
<1> QED
  BY <1>1, <1>2, PTL
=============================================================================
