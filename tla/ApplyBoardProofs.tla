-------------------------- MODULE ApplyBoardProofs --------------------------
(***************************************************************************)
(* Proofs about the board of ApplyRun, for any number of executors,        *)
(* groups, tasks, overlapping calls, crashes and faults.  First the        *)
(* dependencies between groups, for any dependency lists: the coordinator  *)
(* loses no signal and no group starts before its dependencies.  Then the  *)
(* outcomes: what is stored, reported and delivered was earned.            *)
(***************************************************************************)
EXTENDS ApplyRun, TLAPS

GroupPCs ==
  Holding \cup {"off", "wait", "relayOk", "relayFailed", "sem", "acquire", "over"}

DagTypes ==
  /\ plan \in Plans
  /\ epc \in [Executors -> {"idle", "new", "rows", "worktrees", "begin", "groups"}]
  /\ gpc \in [Executors -> [Groups -> GroupPCs]]
  /\ pos \in [Executors -> [Groups -> Nat \ {0}]]
  /\ res \in [Executors -> [Groups -> {"none", "ok", "failed"}]]
  /\ chan \in [Executors -> [Groups -> {"empty", "ok", "failed"}]]

(* Before StartBoard no goroutine of the call exists.                      *)
Quiet(e) ==
  epc[e] \in {"new", "rows", "worktrees", "begin"} =>
    \A g \in Groups : /\ gpc[e][g] = "off" /\ pos[e][g] = 1
                      /\ res[e][g] = "none" /\ chan[e][g] = "empty"

Succeeded(e, d) == gpc[e][d] = "over" /\ res[e][d] = "ok"

(* A signal is on the channel of a finished group and tells its outcome.   *)
Signals(e) ==
  \A d \in Groups : chan[e][d] # "empty" =>
    gpc[e][d] = "over" /\ (chan[e][d] = "ok" <=> res[e][d] = "ok")

(* A waiter has received the success of the dependencies before pos, and a *)
(* relay carries the outcome of the one at pos.                            *)
Received(e, g) ==
  /\ gpc[e][g] \in {"wait", "relayOk", "relayFailed"} =>
       \A i \in 1 .. Len(DepsOf(g)) : i < pos[e][g] => Succeeded(e, DepsOf(g)[i])
  /\ gpc[e][g] \in {"relayOk", "relayFailed"} =>
       /\ pos[e][g] \in 1 .. Len(DepsOf(g))
       /\ gpc[e][AwaitedDep(e, g)] = "over"
       /\ gpc[e][g] = "relayOk" <=> res[e][AwaitedDep(e, g)] = "ok"

(* The results map has no entry before the team lead starts, and one when  *)
(* it ends.                                                                *)
Outcome(e, g) ==
  /\ gpc[e][g] \in {"wait", "relayOk", "relayFailed", "sem"} => res[e][g] = "none"
  /\ gpc[e][g] \in {"finish", "end"} => res[e][g] # "none"

Ordered(e, g) ==
  gpc[e][g] \in {"sem", "acquire"} \cup Holding =>
    \/ \A d \in DepSet(plan.deps, g) : Succeeded(e, d)
    \/ \E d \in DepSet(plan.deps, g) : gpc[e][d] = "over" /\ res[e][d] # "ok"

GroupOK(e, g) == Received(e, g) /\ Outcome(e, g) /\ Ordered(e, g)

Kept(e) ==
  \A d \in Groups :
    gpc[e][d] = "over" =>
      \/ chan[e][d] # "empty"
      \/ \E g \in Groups :
           gpc[e][g] \in {"relayOk", "relayFailed"} /\ AwaitedDep(e, g) = d

(* The inductive invariant.  SignalKept alone is not                       *)
(* inductive: a waiter could republish what it never received, and start   *)
(* on a success that was another group's.                                  *)
DagOf(e) ==
  Quiet(e) /\ Signals(e) /\ Kept(e) /\ \A g \in Groups : GroupOK(e, g)

DagInv == DagTypes /\ \A e \in Executors : DagOf(e)

(* Leaves are first-order unless they name SMT.                            *)
USE Zenon

(* The dependencies of a group are groups.                                 *)
LEMMA DepsTyped ==
  ASSUME DagTypes, NEW g \in Groups
  PROVE  /\ DepsOf(g) \in Seq(Groups)
         /\ \A i \in 1 .. Len(DepsOf(g)) : DepsOf(g)[i] \in Groups
         /\ DepSet(plan.deps, g) \subseteq Groups
         /\ \A d : d \in DepSet(plan.deps, g) <=> \E i \in 1 .. Len(DepsOf(g)) : d = DepsOf(g)[i]
<1>1. DepsOf(g) \in Seq(Groups)
  BY SMT, RunAssumption DEF DagTypes, DepsOf
<1>2. \A i \in 1 .. Len(DepsOf(g)) : DepsOf(g)[i] \in Groups
  BY SMT, <1>1
<1> QED BY <1>1, <1>2 DEF DepSet, DepsOf

(* What a step of group g (which is not over) leaves true of the others:   *)
(* finished groups keep their outcome.                                     *)
LEMMA OtherGroups ==
  ASSUME DagTypes, NEW e \in Executors, NEW g \in Groups, DagOf(e),
         UNCHANGED plan, gpc[e][g] # "over",
         \A h \in Groups \ {g} :
           gpc'[e][h] = gpc[e][h] /\ res'[e][h] = res[e][h] /\ pos'[e][h] = pos[e][h]
  PROVE  /\ \A d \in Groups : gpc[e][d] = "over" =>
              gpc'[e][d] = "over" /\ res'[e][d] = res[e][d]
         /\ \A d \in Groups : Succeeded(e, d) => Succeeded(e, d)'
         /\ \A h \in Groups \ {g} : GroupOK(e, h)'
<1>1. \A d \in Groups : gpc[e][d] = "over" => gpc'[e][d] = "over" /\ res'[e][d] = res[e][d]
  OBVIOUS
<1>2. \A d \in Groups : Succeeded(e, d) => Succeeded(e, d)'
  BY <1>1 DEF Succeeded
<1>3. ASSUME NEW h \in Groups \ {g}
      PROVE  GroupOK(e, h)'
  <2>1. /\ gpc'[e][h] = gpc[e][h] /\ res'[e][h] = res[e][h] /\ pos'[e][h] = pos[e][h]
        /\ GroupOK(e, h)
    BY <1>3 DEF DagOf
  <2>2. /\ \A i \in 1 .. Len(DepsOf(h)) : DepsOf(h)[i] \in Groups
        /\ DepSet(plan.deps, h) \subseteq Groups
        /\ DepsOf(h)' = DepsOf(h) /\ DepSet(plan.deps, h)' = DepSet(plan.deps, h)
    BY SMT, <1>3, DepsTyped DEF DepsOf, DepSet
  <2>3. AwaitedDep(e, h)' = AwaitedDep(e, h)
    BY <2>1, <2>2 DEF AwaitedDep
  <2>4. Received(e, h)'
    BY <1>1, <1>2, <2>1, <2>2, <2>3 DEF GroupOK, Received, AwaitedDep
  <2>5. Outcome(e, h)'
    BY <2>1 DEF GroupOK, Outcome
  <2>6. Ordered(e, h)'
    BY <1>1, <1>2, <2>1, <2>2 DEF GroupOK, Ordered
  <2> QED BY <2>4, <2>5, <2>6 DEF GroupOK
<1> QED BY <1>1, <1>2, <1>3

(* A step of executor e does not concern the other calls.                  *)
LEMMA OtherCalls ==
  ASSUME DagInv, DagTypes', UNCHANGED plan, NEW e \in Executors, DagOf(e)',
         \A x \in Executors \ {e} :
           /\ epc'[x] = epc[x] /\ gpc'[x] = gpc[x] /\ pos'[x] = pos[x]
           /\ res'[x] = res[x] /\ chan'[x] = chan[x]
  PROVE  DagInv'
<1>1. ASSUME NEW x \in Executors \ {e}
      PROVE  DagOf(x)'
  <2>0. /\ epc'[x] = epc[x] /\ gpc'[x] = gpc[x] /\ pos'[x] = pos[x]
        /\ res'[x] = res[x] /\ chan'[x] = chan[x] /\ plan' = plan
    BY <1>1
  <2>1. Quiet(x)'
    BY SMT, <1>1, <2>0 DEF DagInv, DagOf, Quiet
  <2>2. Signals(x)'
    BY SMT, <1>1, <2>0 DEF DagInv, DagOf, Signals
  <2>3. Kept(x)'
    BY SMT, <1>1, <2>0 DEF DagInv, DagOf, Kept, AwaitedDep, DepsOf
  <2>4. ASSUME NEW h \in Groups PROVE GroupOK(x, h)'
    <3>1. GroupOK(x, h)
      BY <1>1 DEF DagInv, DagOf
    <3>2. Received(x, h)'
      BY ZenonT(30), <2>0, <3>1 DEF GroupOK, Received, Succeeded, AwaitedDep, DepsOf
    <3>3. Outcome(x, h)' /\ Ordered(x, h)'
      BY <2>0, <3>1 DEF GroupOK, Outcome, Ordered, Succeeded
    <3> QED BY <3>2, <3>3 DEF GroupOK
  <2> QED BY <2>1, <2>2, <2>3, <2>4 DEF DagOf
<1> QED BY <1>1 DEF DagInv

(* A group that has its dependencies behind it moves on.                   *)
LEMMA MoveStep ==
  ASSUME DagInv, NEW e \in Executors, NEW g \in Groups,
         NEW pc \in {"acquire"} \cup Holding, NEW r \in {"none", "ok", "failed"},
         gpc[e][g] \in {"sem", "acquire"} \cup Holding,
         pc \in {"finish", "end"} => r # "none",
         gpc' = [gpc EXCEPT ![e][g] = pc], res' = [res EXCEPT ![e][g] = r],
         UNCHANGED << plan, epc, pos, chan >>
  PROVE  DagInv'
<1>1. DagTypes'
  BY DEF DagInv, DagTypes, GroupPCs
<1>2. /\ gpc[e][g] \notin {"over", "wait", "relayOk", "relayFailed", "off"}
      /\ pc \notin {"over", "wait", "relayOk", "relayFailed", "off", "sem"}
  BY DEF Holding
<1>3. DagOf(e) /\ DagTypes
  BY DEF DagInv
<1>4. /\ \A h \in Groups \ {g} : gpc'[e][h] = gpc[e][h] /\ res'[e][h] = res[e][h]
      /\ gpc'[e][g] = pc /\ res'[e][g] = r
      /\ \A x \in Executors \ {e} : gpc'[x] = gpc[x] /\ res'[x] = res[x]
  BY <1>3 DEF DagTypes
<1>5. /\ \A d \in Groups : gpc[e][d] = "over" => gpc'[e][d] = "over" /\ res'[e][d] = res[e][d]
      /\ \A d \in Groups : Succeeded(e, d) => Succeeded(e, d)'
      /\ \A h \in Groups \ {g} : GroupOK(e, h)'
  BY <1>2, <1>3, <1>4, OtherGroups
<1>6. Quiet(e)'
  BY <1>2, <1>3 DEF DagOf, Quiet
<1>7. Signals(e)'
  BY <1>3, <1>5 DEF DagOf, Signals
<1>8. Kept(e)'
  BY SMT, <1>2, <1>3, <1>4 DEF DagOf, Kept, AwaitedDep, DepsOf
<1>9. Ordered(e, g)'
  <2>1. \/ \A d \in DepSet(plan.deps, g) : Succeeded(e, d)
        \/ \E d \in DepSet(plan.deps, g) : gpc[e][d] = "over" /\ res[e][d] # "ok"
    BY <1>3 DEF DagOf, GroupOK, Ordered
  <2>2. DepSet(plan.deps, g) \subseteq Groups
    BY <1>3, DepsTyped
  <2> QED BY <1>5, <2>1, <2>2 DEF Ordered
<1>10. GroupOK(e, g)'
  BY <1>2, <1>4, <1>9 DEF GroupOK, Received, Outcome
<1> QED BY SMT, <1>1, <1>4, <1>5, <1>6, <1>7, <1>8, <1>10, OtherCalls DEF DagOf

(* A goroutine is over and signals its outcome.                            *)
LEMMA SignalStep ==
  ASSUME DagInv, NEW e \in Executors, NEW g \in Groups,
         NEW f \in {"ok", "failed"}, NEW r \in {"none", "ok", "failed"},
         gpc[e][g] \in {"wait", "sem", "acquire", "end"}, f = "ok" <=> r = "ok",
         SignalOver(e, g, f), res' = [res EXCEPT ![e][g] = r],
         UNCHANGED << plan, epc, pos >>
  PROVE  DagInv'
<1>1. DagTypes'
  BY DEF DagInv, DagTypes, GroupPCs, SignalOver
<1>2. DagOf(e) /\ DagTypes
  BY DEF DagInv
<1>3. /\ \A h \in Groups \ {g} : gpc'[e][h] = gpc[e][h] /\ res'[e][h] = res[e][h]
                                 /\ chan'[e][h] = chan[e][h]
      /\ gpc'[e][g] = "over" /\ res'[e][g] = r /\ chan'[e][g] = f
      /\ \A x \in Executors \ {e} : gpc'[x] = gpc[x] /\ res'[x] = res[x] /\ chan'[x] = chan[x]
  BY <1>2 DEF DagTypes, SignalOver
<1>4. /\ \A d \in Groups : gpc[e][d] = "over" => gpc'[e][d] = "over" /\ res'[e][d] = res[e][d]
      /\ \A h \in Groups \ {g} : GroupOK(e, h)'
  BY <1>2, <1>3, OtherGroups
<1>5. Quiet(e)'
  BY <1>2 DEF DagOf, Quiet
<1>6. Signals(e)'
  BY SMT, <1>2, <1>3, <1>4 DEF DagOf, Signals
<1>7. Kept(e)'
  BY SMT, <1>2, <1>3 DEF DagOf, Kept, AwaitedDep, DepsOf
<1>8. GroupOK(e, g)'
  BY <1>3 DEF GroupOK, Received, Outcome, Ordered, Holding
<1> QED BY SMT, <1>1, <1>3, <1>4, <1>5, <1>6, <1>7, <1>8, OtherCalls DEF DagOf

(* A waiter takes the signal of the dependency it waits for.               *)
LEMMA ReceiveStep ==
  ASSUME DagInv, NEW e \in Executors, NEW g \in Groups, ReceiveDep(e, g)
  PROVE  DagInv'
<1> DEFINE d == AwaitedDep(e, g)
           pc == IF chan[e][d] = "ok" THEN "relayOk" ELSE "relayFailed"
<1>0. /\ gpc[e][g] = "wait" /\ pos[e][g] <= Len(DepsOf(g)) /\ chan[e][d] # "empty"
      /\ gpc' = [gpc EXCEPT ![e][g] = pc] /\ chan' = [chan EXCEPT ![e][d] = "empty"]
      /\ UNCHANGED << plan, epc, pos, res >>
  BY DEF ReceiveDep, Waiting, At
<1>2. DagOf(e) /\ DagTypes
  BY DEF DagInv
<1>3. pos[e][g] \in 1 .. Len(DepsOf(g)) /\ d \in Groups
  <2>1. pos[e][g] \in Nat \ {0} /\ Len(DepsOf(g)) \in Nat
    BY SMT, <1>2, DepsTyped DEF DagTypes
  <2>2. pos[e][g] \in 1 .. Len(DepsOf(g))
    BY SMT, <1>0, <2>1
  <2> QED BY <1>2, <2>2, DepsTyped DEF AwaitedDep
<1> HIDE DEF d
<1>4. gpc[e][d] = "over" /\ (chan[e][d] = "ok" <=> res[e][d] = "ok") /\ d # g
  BY <1>0, <1>2, <1>3 DEF DagOf, Signals
<1>1. DagTypes'
  BY <1>0, <1>2, <1>3 DEF DagTypes, GroupPCs
<1>5. /\ \A h \in Groups \ {g} : gpc'[e][h] = gpc[e][h] /\ res'[e][h] = res[e][h]
      /\ \A h \in Groups \ {d} : chan'[e][h] = chan[e][h]
      /\ gpc'[e][g] = pc /\ chan'[e][d] = "empty" /\ pc \in {"relayOk", "relayFailed"}
      /\ \A x \in Executors \ {e} : gpc'[x] = gpc[x] /\ chan'[x] = chan[x]
  BY <1>0, <1>2, <1>3 DEF DagTypes
<1>6. /\ \A h \in Groups : gpc[e][h] = "over" => gpc'[e][h] = "over" /\ res'[e][h] = res[e][h]
      /\ \A h \in Groups : Succeeded(e, h) => Succeeded(e, h)'
      /\ \A h \in Groups \ {g} : GroupOK(e, h)'
  BY <1>0, <1>2, <1>5, OtherGroups
<1>7. Quiet(e)'
  BY <1>0, <1>2 DEF DagOf, Quiet
<1>8. Signals(e)'
  BY SMT, <1>2, <1>5, <1>6, <1>0 DEF DagOf, Signals
<1>9. \A h \in Groups : AwaitedDep(e, h)' = AwaitedDep(e, h)
  BY <1>0 DEF AwaitedDep, DepsOf
<1>10. Kept(e)'
  <2> SUFFICES ASSUME NEW k \in Groups, gpc'[e][k] = "over", chan'[e][k] = "empty"
               PROVE  \E h \in Groups : gpc'[e][h] \in {"relayOk", "relayFailed"}
                                        /\ AwaitedDep(e, h)' = k
    BY DEF Kept
  <2>1. CASE k = d
    BY <1>5, <1>9, <2>1 DEF d
  <2>2. CASE k # d
    <3>1. gpc[e][k] = "over" /\ chan[e][k] = "empty"
      BY <1>5, <2>2
    <3>2. PICK h \in Groups : gpc[e][h] \in {"relayOk", "relayFailed"} /\ AwaitedDep(e, h) = k
      BY <1>2, <3>1 DEF DagOf, Kept
    <3>3. h # g
      BY <1>0, <3>2
    <3> QED BY <1>5, <1>9, <3>2, <3>3
  <2> QED BY <2>1, <2>2
<1>11. Received(e, g)'
  <2>1. \A i \in 1 .. Len(DepsOf(g)) : i < pos[e][g] => Succeeded(e, DepsOf(g)[i])
    BY <1>0, <1>2 DEF DagOf, GroupOK, Received
  <2>2. DepsOf(g)' = DepsOf(g) /\ pos'[e][g] = pos[e][g] /\ AwaitedDep(e, g)' = d
    BY <1>0, <1>9 DEF DepsOf, d
  <2>3. \A i \in 1 .. Len(DepsOf(g)) : i < pos[e][g] => Succeeded(e, DepsOf(g)[i])'
    <3>1. \A i \in 1 .. Len(DepsOf(g)) : DepsOf(g)[i] \in Groups
      BY <1>2, DepsTyped
    <3> QED BY <1>6, <2>1, <2>2, <3>1 DEF Succeeded
  <2>4. gpc'[e][d] = "over" /\ (gpc'[e][g] = "relayOk" <=> res'[e][d] = "ok")
    BY <1>3, <1>4, <1>5, <1>6
  <2> QED BY <1>3, <2>2, <2>3, <2>4 DEF Received
<1>12. GroupOK(e, g)'
  BY <1>0, <1>2, <1>5, <1>11 DEF DagOf, GroupOK, Outcome, Ordered, Holding
<1> QED BY SMT, <1>0, <1>1, <1>5, <1>6, <1>7, <1>8, <1>10, <1>12, OtherCalls DEF DagOf

(* The waiter publishes the signal again, and waits for the next one or    *)
(* goes on degraded.                                                       *)
LEMMA RepublishStep ==
  ASSUME DagInv, NEW e \in Executors, NEW g \in Groups, Republish(e, g)
  PROVE  DagInv'
<1> DEFINE d == AwaitedDep(e, g)
<1>2. DagOf(e) /\ DagTypes
  BY DEF DagInv
<1>0. PICK ok \in BOOLEAN :
        /\ gpc[e][g] = IF ok THEN "relayOk" ELSE "relayFailed"
        /\ gpc' = [gpc EXCEPT ![e][g] = IF ok THEN "wait" ELSE "sem"]
        /\ chan' = [chan EXCEPT ![e][d] = IF ok THEN "ok" ELSE "failed"]
        /\ pos' = IF ok THEN [pos EXCEPT ![e][g] = @ + 1] ELSE pos
  <2>1. CASE At(e, g, "relayOk")
    <3>1. /\ gpc[e][g] = "relayOk" /\ gpc' = [gpc EXCEPT ![e][g] = "wait"]
          /\ chan' = [chan EXCEPT ![e][d] = "ok"] /\ pos' = [pos EXCEPT ![e][g] = @ + 1]
      BY <2>1 DEF Republish, At
    <3> QED BY <3>1
  <2>2. CASE At(e, g, "relayFailed")
    <3>1. /\ gpc[e][g] = "relayFailed" /\ gpc' = [gpc EXCEPT ![e][g] = "sem"]
          /\ chan' = [chan EXCEPT ![e][d] = "failed"] /\ pos' = pos
      BY <2>2 DEF Republish, At
    <3> QED BY <3>1
  <2> QED BY <2>1, <2>2 DEF Republish
<1>1. UNCHANGED << plan, epc, res >>
  BY DEF Republish
<1>3. /\ \A i \in 1 .. Len(DepsOf(g)) : i < pos[e][g] => Succeeded(e, DepsOf(g)[i])
      /\ pos[e][g] \in 1 .. Len(DepsOf(g)) /\ gpc[e][d] = "over"
      /\ ok <=> res[e][d] = "ok"
  BY <1>0, <1>2 DEF DagOf, GroupOK, Received
<1>4. /\ \A i \in 1 .. Len(DepsOf(g)) : DepsOf(g)[i] \in Groups
      /\ d \in Groups /\ d \in DepSet(plan.deps, g) /\ DepSet(plan.deps, g) \subseteq Groups
  BY <1>2, <1>3, DepsTyped DEF AwaitedDep
<1>5. DepsOf(g)' = DepsOf(g) /\ DepSet(plan.deps, g)' = DepSet(plan.deps, g)
  BY <1>1 DEF DepsOf, DepSet
<1>6. d # g
  BY <1>0, <1>3
<1>7. d = DepsOf(g)[pos[e][g]]
  BY DEF AwaitedDep
<1> HIDE DEF d
<1>8. /\ \A h \in Groups \ {g} : gpc'[e][h] = gpc[e][h] /\ res'[e][h] = res[e][h]
                                 /\ pos'[e][h] = pos[e][h]
      /\ \A h \in Groups \ {d} : chan'[e][h] = chan[e][h]
      /\ gpc'[e][g] = (IF ok THEN "wait" ELSE "sem") /\ pos'[e][g] = pos[e][g] + (IF ok THEN 1 ELSE 0)
      /\ chan'[e][d] = IF ok THEN "ok" ELSE "failed"
      /\ \A x \in Executors \ {e} : gpc'[x] = gpc[x] /\ chan'[x] = chan[x] /\ pos'[x] = pos[x]
  BY SMT, <1>0, <1>1, <1>2, <1>3, <1>4 DEF DagTypes
<1>9. DagTypes'
  <2>1. gpc' \in [Executors -> [Groups -> GroupPCs]]
    BY <1>0, <1>2 DEF DagTypes, GroupPCs
  <2>2. chan' \in [Executors -> [Groups -> {"empty", "ok", "failed"}]]
    BY Zenon, <1>0, <1>2 DEF DagTypes
  <2>3. pos' \in [Executors -> [Groups -> Nat \ {0}]]
    BY SMT, <1>0, <1>2 DEF DagTypes
  <2> QED BY <1>1, <1>2, <2>1, <2>2, <2>3 DEF DagTypes
<1>10. /\ \A h \in Groups : gpc[e][h] = "over" => gpc'[e][h] = "over" /\ res'[e][h] = res[e][h]
       /\ \A h \in Groups : Succeeded(e, h) => Succeeded(e, h)'
       /\ \A h \in Groups \ {g} : GroupOK(e, h)'
  BY <1>0, <1>1, <1>2, <1>8, OtherGroups
<1>11. Quiet(e)'
  BY <1>0, <1>1, <1>2 DEF DagOf, Quiet
<1>12. Signals(e)'
  BY SMT, <1>2, <1>3, <1>8, <1>10 DEF DagOf, Signals
<1>13. Kept(e)'
  <2> SUFFICES ASSUME NEW k \in Groups, gpc'[e][k] = "over", chan'[e][k] = "empty"
               PROVE  \E h \in Groups : gpc'[e][h] \in {"relayOk", "relayFailed"}
                                        /\ AwaitedDep(e, h)' = k
    BY DEF Kept
  <2>1. k # d /\ k # g /\ gpc[e][k] = "over" /\ chan[e][k] = "empty"
    BY <1>8
  <2>2. PICK h \in Groups : gpc[e][h] \in {"relayOk", "relayFailed"} /\ AwaitedDep(e, h) = k
    BY <1>2, <2>1 DEF DagOf, Kept
  <2>3. h # g
    BY <2>1, <2>2 DEF d
  <2>4. AwaitedDep(e, h)' = AwaitedDep(e, h)
    BY <1>1, <1>8, <2>3 DEF AwaitedDep, DepsOf
  <2> QED BY <1>8, <2>2, <2>3, <2>4
<1>14. Received(e, g)'
  <2>1. CASE ~ok
    BY <1>8, <2>1 DEF Received
  <2>2. CASE ok
    <3>1. Succeeded(e, d)
      BY <1>3, <2>2 DEF Succeeded
    <3>2. \A i \in 1 .. Len(DepsOf(g)) : i < pos[e][g] + 1 => Succeeded(e, DepsOf(g)[i])
      <4> SUFFICES ASSUME NEW i \in 1 .. Len(DepsOf(g)), i < pos[e][g] + 1
                   PROVE  Succeeded(e, DepsOf(g)[i])
        OBVIOUS
      <4>1. i < pos[e][g] \/ i = pos[e][g]
        BY SMT, <1>3
      <4> QED BY <1>3, <1>7, <3>1, <4>1
    <3>3. \A i \in 1 .. Len(DepsOf(g)) : i < pos'[e][g] => Succeeded(e, DepsOf(g)[i])'
      BY SMT, <1>4, <1>5, <1>8, <1>10, <2>2, <3>2 DEF Succeeded
    <3> QED BY <1>5, <1>8, <2>2, <3>3 DEF Received
  <2> QED BY <2>1, <2>2
<1>15. Ordered(e, g)'
  BY <1>3, <1>4, <1>5, <1>8, <1>10 DEF Ordered, Holding
<1>16. Outcome(e, g)'
  BY SMT, <1>0, <1>1, <1>2, <1>8 DEF DagOf, GroupOK, Outcome
<1>17. GroupOK(e, g)'
  BY <1>14, <1>15, <1>16 DEF GroupOK
<1> QED BY SMT, <1>1, <1>8, <1>9, <1>10, <1>11, <1>12, <1>13, <1>17, OtherCalls DEF DagOf

(* All dependencies have been received: the group queues for groupSem.     *)
LEMMA DepsReceivedStep ==
  ASSUME DagInv, NEW e \in Executors, NEW g \in Groups, DepsReceived(e, g)
  PROVE  DagInv'
<1>0. /\ gpc[e][g] = "wait" /\ pos[e][g] > Len(DepsOf(g))
      /\ gpc' = [gpc EXCEPT ![e][g] = "sem"] /\ UNCHANGED << plan, epc, pos, res, chan >>
  BY DEF DepsReceived, Waiting, At
<1>1. DagTypes'
  BY <1>0 DEF DagInv, DagTypes, GroupPCs
<1>2. DagOf(e) /\ DagTypes
  BY DEF DagInv
<1>3. /\ \A h \in Groups \ {g} : gpc'[e][h] = gpc[e][h]
      /\ gpc'[e][g] = "sem" /\ \A x \in Executors \ {e} : gpc'[x] = gpc[x]
  BY <1>0, <1>2 DEF DagTypes
<1>4. /\ \A d \in Groups : gpc[e][d] = "over" => gpc'[e][d] = "over" /\ res'[e][d] = res[e][d]
      /\ \A d \in Groups : Succeeded(e, d) => Succeeded(e, d)'
      /\ \A h \in Groups \ {g} : GroupOK(e, h)'
  BY <1>0, <1>2, <1>3, OtherGroups
<1>5. Quiet(e)'
  BY <1>0, <1>2 DEF DagOf, Quiet
<1>6. Signals(e)'
  BY <1>0, <1>2, <1>4 DEF DagOf, Signals
<1>7. Kept(e)'
  BY SMT, <1>0, <1>2, <1>3 DEF DagOf, Kept, AwaitedDep, DepsOf
<1>8. Ordered(e, g)'
  <2>1. \A i \in 1 .. Len(DepsOf(g)) : Succeeded(e, DepsOf(g)[i])
    <3>1. pos[e][g] \in Nat /\ Len(DepsOf(g)) \in Nat
      BY SMT, <1>2, DepsTyped DEF DagTypes
    <3>2. \A i \in 1 .. Len(DepsOf(g)) : i < pos[e][g] => Succeeded(e, DepsOf(g)[i])
      BY <1>0, <1>2 DEF DagOf, GroupOK, Received
    <3> QED BY SMT, <1>0, <3>1, <3>2
  <2>2. \A d \in DepSet(plan.deps, g) : Succeeded(e, d)'
    <3>1. \A d : d \in DepSet(plan.deps, g) => d \in Groups /\ Succeeded(e, d)
      BY <1>2, <2>1, DepsTyped, Zenon
    <3> QED BY <1>4, <3>1
  <2>3. DepSet(plan.deps, g)' = DepSet(plan.deps, g)
    BY <1>0 DEF DepSet
  <2> QED BY <2>2, <2>3 DEF Ordered
<1>9. GroupOK(e, g)'
  BY <1>0, <1>2, <1>3, <1>8 DEF DagOf, GroupOK, Received, Outcome
<1> QED BY <1>0, <1>1, <1>3, <1>4, <1>5, <1>6, <1>7, <1>9, OtherCalls DEF DagOf

(* The steps of a group goroutine.                                         *)
LEMMA GroupDag ==
  ASSUME DagInv, NEW e \in Executors, NEW g \in Groups, GroupStep(e, g)
  PROVE  DagInv'
<1>0. DagTypes /\ GroupOK(e, g) /\ res = [res EXCEPT ![e][g] = res[e][g]]
      /\ res[e][g] \in {"none", "ok", "failed"}
  BY DEF DagInv, DagOf, DagTypes
<1>1. CASE SkipCompleted(e, g)
  BY Zenon, <1>1, SignalStep DEF SkipCompleted, At
<1>2. CASE ReceiveDep(e, g) \/ Republish(e, g) \/ DepsReceived(e, g)
  BY <1>2, ReceiveStep, RepublishStep, DepsReceivedStep
<1>3. CASE WaitFails(e, g)
  BY Zenon, <1>3, SignalStep DEF WaitFails, Waiting, At
<1>4. CASE EnterGroupSem(e, g)
  <2>1. gpc[e][g] = "sem" /\ res[e][g] = "none" /\ UNCHANGED << plan, epc, pos, res >>
    BY <1>0, <1>4 DEF EnterGroupSem, At, GroupOK, Outcome
  <2>2. CASE gpc' = [gpc EXCEPT ![e][g] = "acquire"] /\ UNCHANGED chan
    BY Zenon, <1>0, <2>1, <2>2, MoveStep DEF Holding
  <2>3. CASE SignalOver(e, g, "failed")
    BY <1>0, <2>1, <2>3, SignalStep
  <2> QED BY <1>4, <2>2, <2>3 DEF EnterGroupSem
<1>5. CASE AcquireTeamLead(e, g)
  <2>1. gpc[e][g] = "acquire" /\ UNCHANGED << plan, epc, pos >>
    BY <1>5 DEF AcquireTeamLead, At
  <2>2. CASE gpc' = [gpc EXCEPT ![e][g] = "start"] /\ UNCHANGED << res, chan >>
    BY Zenon, <1>0, <2>1, <2>2, MoveStep DEF Holding
  <2>3. CASE res' = [res EXCEPT ![e][g] = "failed"] /\ SignalOver(e, g, "failed")
    BY Zenon, <2>1, <2>3, SignalStep
  <2> QED BY <1>5, <2>2, <2>3 DEF AcquireTeamLead
<1>6. ASSUME NEW pc \in Holding, NEW r \in {"none", "ok", "failed"}, gpc[e][g] \in Holding,
             pc \in {"finish", "end"} => r # "none",
             gpc' = [gpc EXCEPT ![e][g] = pc], res' = [res EXCEPT ![e][g] = r],
             UNCHANGED << plan, epc, pos, chan >>
      PROVE  DagInv'
  BY Zenon, <1>6, MoveStep
<1>7. CASE StartTeamLead(e, g)
  <2>1. gpc[e][g] \in Holding /\ UNCHANGED << plan, epc, pos, chan >>
    BY <1>7 DEF StartTeamLead, At, Holding
  <2>2. CASE Fails(e, g, "end")
    BY <1>6, <2>1, <2>2 DEF Fails, Holding
  <2>3. CASE gpc' = [gpc EXCEPT ![e][g] = "tasks"] /\ UNCHANGED res
    BY <1>0, <1>6, <2>1, <2>3 DEF Holding
  <2> QED BY <1>7, <2>2, <2>3 DEF StartTeamLead
<1>8. CASE Aggregate(e, g)
  <2>1. gpc[e][g] \in Holding /\ UNCHANGED << plan, epc, pos, chan >>
    BY <1>8 DEF Aggregate, At, Holding
  <2>2. CASE Fails(e, g, "finish")
    BY <1>6, <2>1, <2>2 DEF Fails, Holding
  <2>3. CASE gpc' = [gpc EXCEPT ![e][g] = "detect"] /\ UNCHANGED res
    BY <1>0, <1>6, <2>1, <2>3 DEF Holding
  <2> QED BY <1>8, <2>2, <2>3 DEF Aggregate
<1>9. CASE DetectBuild(e, g)
  <2>1. gpc[e][g] \in Holding /\ UNCHANGED << plan, epc, pos, chan >>
    BY <1>9 DEF DetectBuild, At, Holding
  <2>2. CASE res' = [res EXCEPT ![e][g] = "ok"] /\ gpc' = [gpc EXCEPT ![e][g] = "finish"]
    BY <1>6, <2>1, <2>2 DEF Holding
  <2>3. CASE gpc' = [gpc EXCEPT ![e][g] = "build"] /\ UNCHANGED res
    BY <1>0, <1>6, <2>1, <2>3 DEF Holding
  <2> QED BY <1>9, <2>2, <2>3 DEF DetectBuild
<1>10. CASE Build(e, g)
  <2>1. gpc[e][g] \in Holding /\ UNCHANGED << plan, epc, pos, chan >>
    BY <1>10 DEF Build, At, Holding
  <2>2. CASE res' = [res EXCEPT ![e][g] = "ok"] /\ gpc' = [gpc EXCEPT ![e][g] = "finish"]
    BY <1>6, <2>1, <2>2 DEF Holding
  <2>3. CASE Fails(e, g, "finish")
    BY <1>6, <2>1, <2>3 DEF Fails, Holding
  <2>4. CASE gpc' = [gpc EXCEPT ![e][g] = "repair"] /\ UNCHANGED res
    BY <1>0, <1>6, <2>1, <2>4 DEF Holding
  <2> QED BY <1>10, <2>2, <2>3, <2>4 DEF Build
<1>11. CASE Repair(e, g)
  BY <1>0, <1>6, <1>11 DEF Repair, At, Holding
<1>12. CASE FinishTeamLead(e, g)
  BY <1>0, <1>6, <1>12 DEF FinishTeamLead, At, Holding, GroupOK, Outcome
<1>13. CASE ReleaseTeamLead(e, g)
  BY <1>0, <1>13, SignalStep DEF ReleaseTeamLead, At, GroupOK, Outcome
<1> QED BY <1>1, <1>2, <1>3, <1>4, <1>5, <1>7, <1>8, <1>9, <1>10, <1>11, <1>12, <1>13
        DEF GroupStep

(* A call without running goroutines satisfies the invariant.              *)
LEMMA NoGoroutines ==
  ASSUME NEW e \in Executors,
         \A g \in Groups : /\ gpc[e][g] = "off" /\ pos[e][g] = 1
                           /\ res[e][g] = "none" /\ chan[e][g] = "empty"
  PROVE  DagOf(e)
<1>1. \A g \in Groups : GroupOK(e, g)
  BY DEF GroupOK, Received, Outcome, Ordered, Holding
<1> QED BY <1>1 DEF DagOf, Quiet, Signals, Kept

(* Steps that touch no goroutine of a group: the invariant only reads      *)
(* where Execute is.                                                       *)
LEMMA GroupsAlone ==
  ASSUME DagInv, UNCHANGED << plan, gpc, pos, res, chan >>,
         epc' \in [Executors -> {"idle", "new", "rows", "worktrees", "begin", "groups"}],
         \A e \in Executors : epc'[e] \in {"new", "rows", "worktrees", "begin"}
                              => epc[e] \in {"new", "rows", "worktrees", "begin"}
  PROVE  DagInv'
<1>1. DagTypes'
  BY DEF DagInv, DagTypes
<1>2. ASSUME NEW e \in Executors PROVE DagOf(e)'
  <2>1. DagOf(e)
    BY DEF DagInv
  <2>2. Quiet(e)'
    BY <2>1 DEF DagOf, Quiet
  <2>3. Signals(e)' /\ Kept(e)'
    BY SMT, <2>1 DEF DagOf, Signals, Kept, AwaitedDep, DepsOf
  <2>4. ASSUME NEW g \in Groups PROVE GroupOK(e, g)'
    <3>1. GroupOK(e, g)
      BY <2>1 DEF DagOf
    <3>2. Received(e, g)'
      BY ZenonT(30), <3>1 DEF GroupOK, Received, Succeeded, AwaitedDep, DepsOf
    <3>3. Outcome(e, g)' /\ Ordered(e, g)'
      BY <3>1 DEF GroupOK, Outcome, Ordered, Succeeded
    <3> QED BY <3>2, <3>3 DEF GroupOK
  <2> QED BY <2>2, <2>3, <2>4 DEF DagOf
<1> QED BY <1>1, <1>2 DEF DagInv

(* The steps of Execute itself.                                            *)
LEMMA ExecuteDag ==
  ASSUME DagInv, NEW e \in Executors, LoadFails(e) \/ Execute(e) \/ MainStep(e)
  PROVE  DagInv'
<1>0. DagTypes /\ DagOf(e) /\ UNCHANGED plan
  BY DEF DagInv, LoadFails, Execute, MainStep, SaveNewBoard, BuildRow, BoardBuilt,
         CreateWorktrees, StartBoard, BreakerTripped, Finalize
<1>1. ASSUME NEW pc \in {"idle", "new", "rows", "worktrees", "begin", "groups"},
             epc' = [epc EXCEPT ![e] = pc] \/ UNCHANGED epc, UNCHANGED groupVars,
             pc \in {"idle", "groups"} \/ epc[e] \in {"new", "rows", "worktrees", "begin"}
      PROVE  DagInv'
  BY Zenon, <1>0, <1>1, GroupsAlone DEF DagTypes, groupVars
<1>2. CASE LoadFails(e) \/ BreakerTripped(e)
  BY <1>1, <1>2 DEF LoadFails, BreakerTripped, ReturnBlocked
<1>3. CASE Finalize(e)
  BY <1>1, <1>3 DEF Finalize
<1>4. CASE SaveNewBoard(e)
  BY <1>1, <1>4 DEF SaveNewBoard, ReturnBlocked
<1>5. CASE BuildRow(e)
  BY <1>1, <1>5 DEF BuildRow, ReturnBlocked
<1>6. CASE BoardBuilt(e)
  BY <1>1, <1>6 DEF BoardBuilt
<1>7. CASE CreateWorktrees(e)
  BY <1>1, <1>7 DEF CreateWorktrees, ReturnBlocked
<1>8. CASE Execute(e)
  <2>1. PICK pc \in {"worktrees", "new"} : epc' = [epc EXCEPT ![e] = pc]
    BY <1>8 DEF Execute
  <2>2. DagTypes'
    <3>1. gpc' \in [Executors -> [Groups -> GroupPCs]]
      BY <1>0, <1>8 DEF Execute, FreshCall, DagTypes, GroupPCs
    <3> QED BY SMT, <1>0, <1>8, <2>1, <3>1 DEF Execute, FreshCall, DagTypes
  <2>3. /\ \A g \in Groups : /\ gpc'[e][g] = "off" /\ pos'[e][g] = 1
                             /\ res'[e][g] = "none" /\ chan'[e][g] = "empty"
        /\ \A x \in Executors \ {e} :
             /\ epc'[x] = epc[x] /\ gpc'[x] = gpc[x] /\ pos'[x] = pos[x]
             /\ res'[x] = res[x] /\ chan'[x] = chan[x]
    BY <1>0, <1>8, <2>1 DEF Execute, FreshCall, DagTypes
  <2>4. DagOf(e)'
    <3>1. \A g \in Groups : GroupOK(e, g)'
      BY Zenon, <2>3 DEF GroupOK, Received, Outcome, Ordered, Holding
    <3> QED BY <2>3, <3>1 DEF DagOf, Quiet, Signals, Kept
  <2> QED BY Zenon, <1>0, <2>2, <2>3, <2>4, OtherCalls
<1>9. CASE StartBoard(e)
  <2>1. CASE UNCHANGED groupVars /\ ReturnBlocked(e)
    BY <1>1, <2>1 DEF ReturnBlocked
  <2>2. CASE /\ epc' = [epc EXCEPT ![e] = "groups"]
             /\ gpc' = [gpc EXCEPT ![e] =
                          [ g \in Groups |-> IF OnBoard(e, g) THEN "wait" ELSE "off" ]]
    <3>1. UNCHANGED << pos, res, chan >> /\ epc[e] = "begin"
      BY <1>9 DEF StartBoard
    <3>2. DagTypes'
      <4>1. gpc' \in [Executors -> [Groups -> GroupPCs]]
        BY <1>0, <2>2 DEF DagTypes, GroupPCs
      <4>2. epc' \in [Executors -> {"idle", "new", "rows", "worktrees", "begin", "groups"}]
        BY <1>0, <2>2 DEF DagTypes
      <4> QED BY <1>0, <3>1, <4>1, <4>2 DEF DagTypes
    <3>3. /\ epc'[e] = "groups"
          /\ \A g \in Groups : /\ gpc'[e][g] \in {"wait", "off"} /\ pos'[e][g] = 1
                               /\ res'[e][g] = "none" /\ chan'[e][g] = "empty"
      BY <1>0, <2>2, <3>1 DEF DagTypes, DagOf, Quiet
    <3>4. \A x \in Executors \ {e} : epc'[x] = epc[x] /\ gpc'[x] = gpc[x]
      BY <1>0, <2>2 DEF DagTypes
    <3>5. ASSUME NEW g \in Groups PROVE GroupOK(e, g)'
      <4>1. Received(e, g)'
        BY SMT, <3>3 DEF Received
      <4> QED BY <3>3, <4>1 DEF GroupOK, Outcome, Ordered, Holding
    <3>6. DagOf(e)'
      BY <3>3, <3>5 DEF DagOf, Quiet, Signals, Kept
    <3> QED BY ZenonT(30), <1>0, <3>1, <3>2, <3>4, <3>6, OtherCalls
  <2> QED BY <1>9, <2>1, <2>2 DEF StartBoard, groupVars
<1> QED BY <1>2, <1>3, <1>4, <1>5, <1>6, <1>7, <1>8, <1>9 DEF MainStep

(* Task goroutines and the world outside: a crash ends every goroutine.    *)
LEMMA OutsideDag ==
  ASSUME DagInv, \/ Crash
                 \/ \E o \in Others : OtherAcquires(o) \/ OtherReleases(o)
                 \/ \E e \in Executors : \E t \in Tasks : TaskStep(e, t)
  PROVE  DagInv'
<1>1. CASE Crash
  <2>1. DagTypes'
    BY SMT, <1>1 DEF Crash, DagInv, DagTypes, GroupPCs
  <2>2. ASSUME NEW e \in Executors PROVE DagOf(e)'
    <3>1. \A g \in Groups : /\ gpc'[e][g] = "off" /\ pos'[e][g] = 1
                            /\ res'[e][g] = "none" /\ chan'[e][g] = "empty"
      BY <1>1 DEF Crash
    <3>2. \A g \in Groups : GroupOK(e, g)'
      BY Zenon, <3>1 DEF GroupOK, Received, Outcome, Ordered, Holding
    <3> QED BY ZenonT(30), <3>1, <3>2 DEF DagOf, Quiet, Signals, Kept
  <2> QED BY <2>1, <2>2 DEF DagInv
<1>2. CASE UNCHANGED << plan, epc, groupVars >>
  BY <1>2, GroupsAlone DEF groupVars, DagInv, DagTypes
<1>3. ASSUME NEW o \in Others, OtherAcquires(o) \/ OtherReleases(o) PROVE DagInv'
  BY <1>2, <1>3 DEF OtherAcquires, OtherReleases
<1>4. ASSUME NEW e \in Executors, NEW t \in Tasks, TaskStep(e, t) PROVE DagInv'
  BY Zenon, <1>2, <1>4 DEF TaskStep, EnterImplSem, ClaimTask, AcquireImplement, DispatchImplement,
                    ReleaseImplement, DispatchFallback, RecordOutcome
<1> QED BY <1>1, <1>3, <1>4

(* The inductive invariant of the coordinator holds in every reachable     *)
(* state.                                                                  *)
THEOREM DagInvCorrect == Spec => []DagInv
<1>1. ASSUME Init PROVE DagInv
  <2>1. DagTypes
    BY SMT, <1>1 DEF Init, DagTypes, GroupPCs
  <2>2. ASSUME NEW e \in Executors PROVE DagOf(e)
    BY <1>1, NoGoroutines DEF Init
  <2> QED BY <2>1, <2>2 DEF DagInv
<1>2. ASSUME DagInv, [Next]_vars PROVE DagInv'
  <2>1. CASE UNCHANGED vars
    BY <1>2, <2>1, GroupsAlone DEF vars, groupVars, DagInv, DagTypes
  <2>2. CASE Next
    BY <1>2, <2>2, GroupDag, ExecuteDag, OutsideDag DEF Next, Step
  <2> QED BY <1>2, <2>1, <2>2
<1> QED BY <1>1, <1>2, PTL DEF Spec

(* No signal of a finished group is ever lost, for every dependency graph  *)
(* and any number of waiters, timeouts and crashes.                        *)
THEOREM SignalKeptCorrect == Spec => []SignalKept
<1>1. DagInv => SignalKept
  BY DEF DagInv, DagOf, Kept, SignalKept
<1> QED BY <1>1, DagInvCorrect, PTL

(* No group runs before its dependencies, for every dependency graph.      *)
THEOREM StartsAfterDepsCorrect == Spec => []StartsAfterDeps
<1>1. DagInv => StartsAfterDeps
  BY DEF DagInv, DagOf, GroupOK, Ordered, Succeeded, StartsAfterDeps
<1> QED BY <1>1, DagInvCorrect, PTL

-----------------------------------------------------------------------------
(***************************************************************************)
(* The outcomes.  Calls that overlap share the rows and not their copies,  *)
(* so rows and copies need not agree; what they share is that nobody       *)
(* writes an outcome that no agent and no team lead has earned.            *)
(***************************************************************************)
GroupState == [ status : GroupStatuses, build : BuildStatuses, builds : Nat ]

TaskState == [ status : TaskStatuses, attempts : Nat ]

TaskPCs ==
  {"off", "sem", "claim", "acquire", "run", "release", "fallback", "record", "over"}

EarnedTypes ==
  /\ groupRow \in [Groups -> GroupState] /\ taskRow \in [Tasks -> TaskState]
  /\ group \in [Executors -> [Groups -> GroupState]]
  /\ task \in [Executors -> [Tasks -> TaskState]]
  /\ tpc \in [Executors -> [Tasks -> TaskPCs]]
  /\ got \in [Executors -> [Tasks -> {"none", "ok", "fail", "quota"}]]
  /\ out \in [Executors -> [Tasks -> {"none", "true", "false"}]]
  /\ tripped \in [Executors -> BOOLEAN]
  /\ env \in [Executors -> {"none", "blocked", "done"}]
  /\ tries \in [Tasks -> Nat]

(* A row or a copy of t that agents have earned.  Nothing in the apply     *)
(* phase marks a task running, so Complete never succeeds.                 *)
Credible(t, r) ==
  /\ r.status = "done" => t \in succeeded
  /\ r.status = "blocked" => MaxAttempts <= r.attempts
  /\ r.status # "running"
  /\ r.attempts <= tries[t]

(* The goroutine of a task: an answer that is not recorded yet is one more *)
(* than the attempts in memory.                                            *)
TaskEarned(e, t) ==
  /\ Credible(t, task[e][t])
  /\ tpc[e][t] # "off" => epc[e] \in {"groups", "idle"} /\ task[e][t].status # "absent"
  /\ tpc[e][t] \in {"release", "record"} /\ got[e][t] = "ok" => t \in succeeded
  /\ tpc[e][t] \in {"release", "record"} /\ got[e][t] # "quota" => task[e][t].attempts < tries[t]
  /\ tpc[e][t] = "fallback" => got[e][t] = "quota"
  /\ out[e][t] = "true" => t \in succeeded
  /\ tpc[e][t] = "over" => out[e][t] # "none" \/ tripped[e]

Worked(e, g) == TasksOn(e, g) \subseteq succeeded

(* The goroutine of a group.  After a trip a copy may say more than was    *)
(* earned, and nothing of it is stored, reported or delivered.             *)
GroupEarned(e, g) ==
  /\ gpc[e][g] \notin {"off", "over"} => epc[e] = "groups"
  /\ epc[e] = "groups" /\ gpc[e][g] = "off" => group[e][g].status = "absent"
  /\ ~tripped[e] =>
       /\ group[e][g].status = "completed" => g \in finished
       /\ gpc[e][g] \in {"detect", "build", "repair"} => Worked(e, g)
       /\ gpc[e][g] = "finish" /\ res[e][g] = "ok" =>
            Worked(e, g) /\ group[e][g].build \in {"passed", "skipped"}
       /\ gpc[e][g] # "finish" /\ res[e][g] = "ok" => g \in finished
       /\ gpc[e][g] = "over" => res[e][g] # "none"

CallEarned(e) ==
  /\ epc[e] \in {"new", "rows", "worktrees", "begin"} => ~tripped[e]
  /\ env[e] = "done" =>
       epc[e] = "idle" /\ \A g \in Groups : group[e][g].status # "absent" => g \in finished

EarnedOf(e) ==
  /\ CallEarned(e)
  /\ \A g \in Groups : GroupEarned(e, g)
  /\ \A t \in Tasks : TaskEarned(e, t)

RowsEarned ==
  /\ \A t \in Tasks : Credible(t, taskRow[t])
  /\ \A g \in Groups : groupRow[g].status = "completed" => g \in finished
  /\ delivered \subseteq finished

(* The inductive invariant.  OutcomesEarned alone is not inductive: a call *)
(* stores what is in its memory, so the copies and what the goroutines are *)
(* about to record must have been earned as well.                          *)
EarnedInv == EarnedTypes /\ RowsEarned /\ \A e \in Executors : EarnedOf(e)

(* What was earned stays earned.                                           *)
Grows ==
  /\ succeeded \subseteq succeeded' /\ finished \subseteq finished'
  /\ \A t \in Tasks : tries[t] \in Nat /\ tries'[t] \in Nat /\ tries[t] <= tries'[t]

(* Record only adds to the history.                                        *)
LEMMA Growth ==
  ASSUME EarnedTypes, Record
  PROVE  Grows /\ tries' \in [Tasks -> Nat]
<1>1. succeeded \subseteq succeeded' /\ finished \subseteq finished'
  BY DEF Record
<1>2. tries' = [ t \in Tasks |-> IF \E e \in Executors : Answers(e, t, {"ok", "fail"})
                                  THEN tries[t] + 1 ELSE tries[t] ]
  BY DEF Record
<1>3. ASSUME NEW t \in Tasks
      PROVE  tries[t] \in Nat /\ tries'[t] \in Nat /\ tries[t] <= tries'[t]
  <2>1. tries[t] \in Nat
    BY DEF EarnedTypes
  <2>2. tries'[t] = tries[t] + 1 \/ tries'[t] = tries[t]
    BY <1>2
  <2> QED BY SMT, <2>1, <2>2
<1> QED BY <1>1, <1>2, <1>3 DEF Grows

(* A credible row stays credible.                                          *)
LEMMA StaysCredible ==
  ASSUME Grows, NEW t \in Tasks, NEW r \in TaskState, Credible(t, r)
  PROVE  /\ r.status = "done" => t \in succeeded'
         /\ r.status = "blocked" => MaxAttempts <= r.attempts
         /\ r.status # "running"
         /\ r.attempts <= tries'[t]
         /\ \A n \in Nat : n < tries[t] => n < tries'[t]
<1>1. r.attempts \in Nat
  BY SMT DEF TaskState
<1>2. r.attempts <= tries[t] /\ tries[t] \in Nat /\ tries'[t] \in Nat /\ tries[t] <= tries'[t]
  BY DEF Grows, Credible
<1>3. r.attempts <= tries'[t] /\ \A n \in Nat : n < tries[t] => n < tries'[t]
  BY SMT, <1>1, <1>2
<1> QED BY <1>3 DEF Grows, Credible

(* A task goroutine that does not move.                                    *)
LEMMA TaskStays ==
  ASSUME EarnedTypes, Grows, NEW x \in Executors, NEW t \in Tasks, TaskEarned(x, t),
         task'[x][t] = task[x][t], got'[x][t] = got[x][t], out'[x][t] = out[x][t],
         \/ tpc'[x][t] = tpc[x][t]
         \/ tpc'[x][t] = "sem" /\ epc'[x] = "groups" /\ task[x][t].status # "absent",
         tripped[x] => tripped'[x],
         epc[x] \in {"groups", "idle"} => epc'[x] \in {"groups", "idle"} \/ tpc'[x][t] = "off"
  PROVE  TaskEarned(x, t)'
<1>1. PICK r \in TaskState : r = task[x][t]
  BY DEF EarnedTypes
<1>2. Credible(t, r)
  BY <1>1 DEF TaskEarned
<1>3. /\ r.status = "done" => t \in succeeded'
      /\ r.status = "blocked" => MaxAttempts <= r.attempts
      /\ r.status # "running"
      /\ r.attempts <= tries'[t]
      /\ \A n \in Nat : n < tries[t] => n < tries'[t]
  BY <1>2, StaysCredible
<1>4. task'[x][t] = r /\ r.attempts \in Nat
  BY SMT, <1>1 DEF TaskState
<1>5. t \in succeeded => t \in succeeded'
  BY DEF Grows
<1> QED BY <1>1, <1>3, <1>4, <1>5 DEF TaskEarned, Credible

(* A group goroutine that does not move.                                   *)
LEMMA GroupStays ==
  ASSUME Grows, NEW x \in Executors, NEW g \in Groups, GroupEarned(x, g),
         epc'[x] = epc[x], group'[x][g] = group[x][g], gpc'[x][g] = gpc[x][g],
         res'[x][g] = res[x][g], tripped[x] => tripped'[x],
         TasksOn(x, g)' \subseteq TasksOn(x, g)
  PROVE  GroupEarned(x, g)'
<1>1. g \in finished => g \in finished'
  BY DEF Grows
<1>2. Worked(x, g) => Worked(x, g)'
  BY DEF Grows, Worked
<1> QED BY <1>1, <1>2 DEF GroupEarned

(* A step of executor e does not concern the others.                       *)
LEMMA OthersStay ==
  ASSUME EarnedInv, Grows, NEW e \in Executors,
         \A x \in Executors \ {e} :
           /\ epc'[x] = epc[x] /\ group'[x] = group[x] /\ task'[x] = task[x]
           /\ gpc'[x] = gpc[x] /\ res'[x] = res[x] /\ env'[x] = env[x]
           /\ tpc'[x] = tpc[x] /\ got'[x] = got[x] /\ out'[x] = out[x]
           /\ tripped'[x] <=> tripped[x],
         EarnedTypes', RowsEarned', EarnedOf(e)'
  PROVE  EarnedInv'
<1> SUFFICES ASSUME NEW x \in Executors \ {e} PROVE EarnedOf(x)'
  BY DEF EarnedInv
<1>0. /\ epc'[x] = epc[x] /\ group'[x] = group[x] /\ task'[x] = task[x]
      /\ gpc'[x] = gpc[x] /\ res'[x] = res[x] /\ env'[x] = env[x]
      /\ tpc'[x] = tpc[x] /\ got'[x] = got[x] /\ out'[x] = out[x]
      /\ tripped'[x] <=> tripped[x]
  OBVIOUS
<1>1. EarnedOf(x) /\ EarnedTypes
  BY DEF EarnedInv
<1>2. CallEarned(x)'
  BY <1>0, <1>1 DEF EarnedOf, CallEarned, Grows
<1>3. ASSUME NEW g \in Groups PROVE GroupEarned(x, g)'
  <2>1. TasksOn(x, g)' = TasksOn(x, g)
    BY <1>0 DEF TasksOn
  <2>2. GroupEarned(x, g)
    BY <1>1 DEF EarnedOf
  <2> QED BY <1>0, <2>1, <2>2, GroupStays
<1>4. ASSUME NEW t \in Tasks PROVE TaskEarned(x, t)'
  <2>1. TaskEarned(x, t)
    BY <1>1 DEF EarnedOf
  <2> QED BY <1>0, <1>1, <2>1, TaskStays
<1> QED BY <1>2, <1>3, <1>4 DEF EarnedOf

(* Rows that are not written.                                              *)
LEMMA RowsStay ==
  ASSUME EarnedInv, Grows, NEW t \in Tasks, taskRow'[t] = taskRow[t]
  PROVE  Credible(t, taskRow[t])'
<1>1. PICK r \in TaskState : r = taskRow[t]
  BY DEF EarnedInv, EarnedTypes
<1>2. Credible(t, r)
  BY <1>1 DEF EarnedInv, RowsEarned
<1>3. taskRow'[t] = r
  BY <1>1
<1> QED BY <1>2, <1>3, StaysCredible DEF Credible

(* The goroutine of task t of e moves, and may write the row of t.         *)
LEMMA TaskMoves ==
  ASSUME EarnedInv, Grows, NEW e \in Executors, NEW t \in Tasks, EarnedTypes',
         UNCHANGED << groupRow, delivered, epc, group, gpc, res, env >>,
         \A x \in Executors \ {e} :
           /\ task'[x] = task[x] /\ tpc'[x] = tpc[x] /\ got'[x] = got[x]
           /\ out'[x] = out[x] /\ (tripped'[x] <=> tripped[x]),
         \A u \in Tasks \ {t} :
           /\ task'[e][u] = task[e][u] /\ tpc'[e][u] = tpc[e][u] /\ got'[e][u] = got[e][u]
           /\ out'[e][u] = out[e][u] /\ taskRow'[u] = taskRow[u],
         tpc[e][t] # "off", tripped[e] => tripped'[e],
         task'[e][t].status # "absent" => task[e][t].status # "absent",
         TaskEarned(e, t)',
         taskRow'[t] = taskRow[t] \/ Credible(t, taskRow[t])'
  PROVE  EarnedInv'
<1>1. EarnedOf(e) /\ EarnedTypes /\ RowsEarned
  BY DEF EarnedInv
<1>2. RowsEarned'
  <2>1. \A u \in Tasks : Credible(u, taskRow[u])'
    BY RowsStay
  <2> QED BY <1>1, <2>1 DEF RowsEarned, Grows
<1>3. CallEarned(e)'
  <2>1. epc'[e] \in {"groups", "idle"}
    BY <1>1 DEF EarnedOf, TaskEarned
  <2> QED BY <1>1, <2>1 DEF EarnedOf, CallEarned, Grows
<1>4. ASSUME NEW g \in Groups PROVE GroupEarned(e, g)'
  <2>1. \A u \in Tasks : task'[e][u].status # "absent" => task[e][u].status # "absent"
    OBVIOUS
  <2>2. TasksOn(e, g)' \subseteq TasksOn(e, g)
    BY <2>1 DEF TasksOn
  <2>3. GroupEarned(e, g)
    BY <1>1 DEF EarnedOf
  <2> QED BY <2>2, <2>3, GroupStays
<1>5. ASSUME NEW u \in Tasks PROVE TaskEarned(e, u)'
  <2>1. TaskEarned(e, u)
    BY <1>1 DEF EarnedOf
  <2>2. CASE u = t
    BY <2>2
  <2>3. CASE u # t
    BY <1>1, <2>1, <2>3, TaskStays
  <2> QED BY <2>2, <2>3
<1>6. EarnedOf(e)'
  BY <1>3, <1>4, <1>5 DEF EarnedOf
<1> QED BY <1>2, <1>6, OthersStay

(* An answer of an agent is counted, a success is remembered.              *)
LEMMA AnswerCounted ==
  ASSUME EarnedTypes, Record, NEW e \in Executors, NEW t \in Tasks,
         tpc[e][t] \in {"run", "fallback"}, tpc'[e][t] \in {"release", "record"}
  PROVE  /\ got'[e][t] = "ok" => t \in succeeded'
         /\ got'[e][t] \in {"ok", "fail"} => tries'[t] = tries[t] + 1
<1>1. got'[e][t] = "ok" => t \in succeeded'
  BY DEF Record, Answers
<1>2. got'[e][t] \in {"ok", "fail"} => tries'[t] = tries[t] + 1
  BY DEF Record, Answers
<1> QED BY <1>1, <1>2

(* The methods of a task keep it a task on the board; Complete refuses,    *)
(* and the attempt that is recorded has been answered.                     *)
LEMMA TaskMethods ==
  ASSUME NEW r \in TaskState, NEW n \in Nat
  PROVE  /\ r.status # "running" => CompleteTask(r) = r
         /\ ReleaseTask(r) \in TaskState /\ ReleaseTask(r).attempts = r.attempts
         /\ ReleaseTask(r).status \in {r.status, "pending"}
         /\ \A ok \in BOOLEAN :
              /\ RecordAttempt(r, ok) \in TaskState
              /\ RecordAttempt(r, ok).status \in {"done", "blocked", "failed"}
              /\ RecordAttempt(r, ok).status = "done" => ok
              /\ RecordAttempt(r, ok).status = "blocked" => MaxAttempts <= RecordAttempt(r, ok).attempts
              /\ r.attempts < n => RecordAttempt(r, ok).attempts <= n
         /\ r.attempts <= n => r.attempts < n + 1
<1>1. r.status # "running" => CompleteTask(r) = r
  BY DEF CompleteTask
<1>2. /\ ReleaseTask(r) \in TaskState /\ ReleaseTask(r).attempts = r.attempts
      /\ ReleaseTask(r).status \in {r.status, "pending"}
  BY SMT DEF ReleaseTask, TaskState, TaskStatuses
<1>3. r.attempts <= n => r.attempts < n + 1
  BY SMT DEF TaskState
<1>4. ASSUME NEW ok \in BOOLEAN
      PROVE  /\ RecordAttempt(r, ok) \in TaskState
             /\ RecordAttempt(r, ok).status \in {"done", "blocked", "failed"}
             /\ RecordAttempt(r, ok).status = "done" => ok
             /\ RecordAttempt(r, ok).status = "blocked" => MaxAttempts <= RecordAttempt(r, ok).attempts
             /\ r.attempts < n => RecordAttempt(r, ok).attempts <= n
  <2>1. RecordAttempt(r, ok).attempts = r.attempts + 1 /\ r.attempts \in Nat
    BY SMT DEF RecordAttempt, TaskState
  <2>2. RecordAttempt(r, ok).status = IF ok THEN "done"
          ELSE IF r.attempts + 1 >= MaxAttempts THEN "blocked" ELSE "failed"
    BY DEF RecordAttempt
  <2>3. RecordAttempt(r, ok) \in TaskState
    <3>1. RecordAttempt(r, ok) = [ status |-> RecordAttempt(r, ok).status,
                                   attempts |-> RecordAttempt(r, ok).attempts ]
      BY DEF RecordAttempt
    <3>2. RecordAttempt(r, ok).status \in TaskStatuses
      BY <2>2 DEF TaskStatuses
    <3>3. RecordAttempt(r, ok).attempts \in Nat
      BY SMT, <2>1
    <3> QED BY <3>1, <3>2, <3>3 DEF TaskState
  <2>4. r.attempts + 1 >= MaxAttempts => MaxAttempts <= RecordAttempt(r, ok).attempts
    BY SMT, <2>1, MaxAttemptsAssumption
  <2>5. r.attempts < n => RecordAttempt(r, ok).attempts <= n
    BY SMT, <2>1
  <2> QED BY <2>2, <2>3, <2>4, <2>5
<1> QED BY <1>1, <1>2, <1>3, <1>4

(* Waiting, claiming and taking or giving back a slot.                     *)
LEMMA TaskWaits ==
  ASSUME EarnedInv, Record, NEW e \in Executors, NEW t \in Tasks,
         \/ EnterImplSem(e, t) \/ ClaimTask(e, t) \/ AcquireImplement(e, t)
         \/ ReleaseImplement(e, t)
  PROVE  EarnedInv'
<1>1. EarnedTypes /\ TaskEarned(e, t) /\ Grows /\ tries' \in [Tasks -> Nat]
  BY Growth DEF EarnedInv, EarnedOf
<1>2. PICK pc \in TaskPCs \ {"off", "release"}, o \in {"none", "true", "false"} :
        /\ tpc' = [tpc EXCEPT ![e][t] = pc] /\ out' = [out EXCEPT ![e][t] = o]
        /\ tpc[e][t] # "off"
        /\ pc = "fallback" => got[e][t] = "quota"
        /\ pc = "record" => tpc[e][t] = "release"
        /\ o = "true" => o = out[e][t] \/ task[e][t].status = "done"
        /\ pc = "over" => o # "none" \/ tripped[e]
  <2>0. /\ out = [out EXCEPT ![e][t] = out[e][t]]
        /\ out[e][t] \in {"none", "true", "false"}
    BY <1>1 DEF EarnedTypes
  <2>1. CASE EnterImplSem(e, t)
    <3>1. tpc[e][t] # "off"
      BY <2>1 DEF EnterImplSem, TaskAt
    <3>2. CASE tpc' = [tpc EXCEPT ![e][t] = "claim"] /\ UNCHANGED out
      BY <2>0, <3>1, <3>2 DEF TaskPCs
    <3>3. CASE tripped[e] /\ TaskOver(e, t, "none")
      BY <3>1, <3>3 DEF TaskPCs, TaskOver
    <3> QED BY <2>1, <3>2, <3>3 DEF EnterImplSem
  <2>2. CASE ClaimTask(e, t)
    <3>1. tpc[e][t] # "off"
      BY <2>2 DEF ClaimTask, TaskAt
    <3>2. CASE task[e][t].status = "done" /\ TaskOver(e, t, "true")
      BY <3>1, <3>2 DEF TaskPCs, TaskOver
    <3>3. CASE tpc' = [tpc EXCEPT ![e][t] = "acquire"] /\ UNCHANGED out
      BY <2>0, <3>1, <3>3 DEF TaskPCs
    <3>4. CASE TaskOver(e, t, "false")
      BY <3>1, <3>4 DEF TaskPCs, TaskOver
    <3> QED BY <2>2, <3>2, <3>3, <3>4 DEF ClaimTask
  <2>3. CASE AcquireImplement(e, t)
    <3>1. tpc[e][t] # "off"
      BY <2>3 DEF AcquireImplement, TaskAt
    <3>2. CASE tpc' = [tpc EXCEPT ![e][t] = "run"] /\ UNCHANGED out
      BY <2>0, <3>1, <3>2 DEF TaskPCs
    <3>3. CASE TaskOver(e, t, "false")
      BY <3>1, <3>3 DEF TaskPCs, TaskOver
    <3> QED BY <2>3, <3>2, <3>3 DEF AcquireImplement
  <2>4. CASE ReleaseImplement(e, t)
    <3>1. /\ tpc[e][t] = "release" /\ UNCHANGED out
          /\ tpc' = [tpc EXCEPT ![e][t] =
                      IF got[e][t] = "quota" /\ Fallback THEN "fallback" ELSE "record"]
      BY <2>4 DEF ReleaseImplement, TaskAt
    <3>2. CASE got[e][t] = "quota" /\ Fallback
      <4>1. tpc' = [tpc EXCEPT ![e][t] = "fallback"] /\ got[e][t] = "quota"
        BY <3>1, <3>2
      <4> QED BY <2>0, <3>1, <4>1 DEF TaskPCs
    <3>3. CASE ~(got[e][t] = "quota" /\ Fallback)
      <4>1. tpc' = [tpc EXCEPT ![e][t] = "record"]
        BY <3>1, <3>3
      <4> QED BY <2>0, <3>1, <4>1 DEF TaskPCs
    <3> QED BY <3>2, <3>3
  <2> QED BY <2>1, <2>2, <2>3, <2>4
<1>3. /\ UNCHANGED << groupRow, delivered, epc, group, gpc, res, env, task, got, tripped >>
      /\ UNCHANGED taskRow \/ taskRow' = [taskRow EXCEPT ![t].status = "claimed"]
  BY DEF EnterImplSem, ClaimTask, AcquireImplement, ReleaseImplement, tables, memory,
         groupVars, breaker, returned
<1>4. /\ \A x \in Executors \ {e} : tpc'[x] = tpc[x] /\ out'[x] = out[x]
      /\ \A u \in Tasks \ {t} : tpc'[e][u] = tpc[e][u] /\ out'[e][u] = out[e][u]
      /\ tpc'[e][t] = pc /\ out'[e][t] = o
  BY <1>1, <1>2 DEF EarnedTypes
<1>5. PICK r \in TaskState : r = task[e][t]
  BY <1>1 DEF EarnedTypes
<1>6. /\ r.status = "done" => t \in succeeded'
      /\ r.status = "blocked" => MaxAttempts <= r.attempts
      /\ r.status # "running"
      /\ r.attempts <= tries'[t]
      /\ \A n \in Nat : n < tries[t] => n < tries'[t]
  <2>1. Credible(t, r)
    BY <1>1, <1>5 DEF TaskEarned
  <2> QED BY <1>1, <2>1, StaysCredible
<1>7. TaskEarned(e, t)'
  <2>1. t \in succeeded => t \in succeeded'
    BY <1>1 DEF Grows
  <2>2. task'[e][t] = r /\ r.attempts \in Nat
    BY SMT, <1>3, <1>5 DEF TaskState
  <2>3. tpc'[e][t] \in {"release", "record"} => tpc[e][t] = "release"
    BY <1>2, <1>4
  <2> QED BY <1>1, <1>2, <1>3, <1>4, <1>5, <1>6, <2>1, <2>2, <2>3 DEF TaskEarned, Credible
<1>8. /\ taskRow' \in [Tasks -> TaskState]
      /\ \A u \in Tasks \ {t} : taskRow'[u] = taskRow[u]
      /\ taskRow'[t] = taskRow[t] \/ Credible(t, taskRow[t])'
  <2>1. PICK w \in TaskState : w = taskRow[t]
    BY <1>1 DEF EarnedTypes
  <2>2. Credible(t, w)
    BY <2>1 DEF EarnedInv, RowsEarned
  <2>3. w.attempts <= tries'[t]
    BY <1>1, <2>2, StaysCredible
  <2>4. CASE taskRow' = [taskRow EXCEPT ![t].status = "claimed"]
    <3>1. PICK v : v = [w EXCEPT !.status = "claimed"]
      OBVIOUS
    <3>2. v \in TaskState /\ v.status = "claimed" /\ v.attempts = w.attempts
      BY SMT, <3>1 DEF TaskState, TaskStatuses
    <3>3. taskRow' = [taskRow EXCEPT ![t] = v]
      BY <2>1, <2>4, <3>1
    <3>4. taskRow'[t] = v /\ taskRow' \in [Tasks -> TaskState]
          /\ \A u \in Tasks \ {t} : taskRow'[u] = taskRow[u]
      BY <1>1, <3>2, <3>3 DEF EarnedTypes
    <3> QED BY <2>3, <3>2, <3>4 DEF Credible
  <2> QED BY <1>1, <1>3, <2>4 DEF EarnedTypes
<1>9. EarnedTypes'
  BY <1>1, <1>2, <1>3, <1>8 DEF EarnedTypes
<1> QED BY <1>1, <1>2, <1>3, <1>4, <1>5, <1>7, <1>8, <1>9, TaskMoves

(* An agent answers: Complete refuses, so the save writes what is in       *)
(* memory.                                                                 *)
LEMMA TaskAnswered ==
  ASSUME EarnedInv, Record, NEW e \in Executors, NEW t \in Tasks,
         DispatchImplement(e, t) \/ DispatchFallback(e, t)
  PROVE  EarnedInv'
<1>1. EarnedTypes /\ TaskEarned(e, t) /\ Grows /\ tries' \in [Tasks -> Nat]
  BY Growth DEF EarnedInv, EarnedOf
<1>2. PICK r \in TaskState : r = task[e][t]
  BY <1>1 DEF EarnedTypes
<1>3. Credible(t, r) /\ r.status # "running" /\ r.attempts <= tries[t]
  BY <1>1, <1>2 DEF TaskEarned, Credible
<1>4. CompleteTask(task[e][t]) = r
  BY <1>2, <1>3 DEF CompleteTask
<1>5. PICK pc \in {"release", "record"}, a \in {"ok", "fail", "quota"} :
        /\ tpc[e][t] \in {"run", "fallback"}
        /\ tpc' = [tpc EXCEPT ![e][t] = pc] /\ got' = [got EXCEPT ![e][t] = a]
        /\ task' = [task EXCEPT ![e][t] = r]
        /\ UNCHANGED taskRow \/ taskRow' = [taskRow EXCEPT ![t] = r]
  <2>0. task = [task EXCEPT ![e][t] = r] /\ got = [got EXCEPT ![e][t] = got[e][t]]
    BY <1>1, <1>2 DEF EarnedTypes
  <2>1. ASSUME NEW a \in {"ok", "fail", "quota"}, Dispatch(e, t, a)
        PROVE  /\ got' = [got EXCEPT ![e][t] = a] /\ task' = [task EXCEPT ![e][t] = r]
               /\ UNCHANGED taskRow \/ taskRow' = [taskRow EXCEPT ![t] = r]
    <3>1. CASE task' = [task EXCEPT ![e][t] = CompleteTask(@)] /\ SaveTask(e, t, task'[e][t])
      <4>1. task' = [task EXCEPT ![e][t] = r]
        BY <1>4, <3>1
      <4>2. task'[e][t] = r
        BY <1>1, <4>1 DEF EarnedTypes
      <4>3. UNCHANGED taskRow \/ taskRow' = [taskRow EXCEPT ![t] = r]
        BY <3>1, <4>2 DEF SaveTask
      <4> QED BY <2>1, <4>1, <4>3 DEF Dispatch
    <3>2. CASE UNCHANGED << task, taskRow >>
      BY <2>0, <2>1, <3>2 DEF Dispatch
    <3> QED BY <2>1, <3>1, <3>2 DEF Dispatch
  <2>2. CASE DispatchImplement(e, t)
    <3>1. tpc[e][t] = "run" /\ tpc' = [tpc EXCEPT ![e][t] = "release"]
      BY <2>2 DEF DispatchImplement, TaskAt
    <3>2. PICK a \in {"ok", "fail", "quota"} : Dispatch(e, t, a)
      BY <2>2 DEF DispatchImplement
    <3> QED BY <2>1, <3>1, <3>2
  <2>3. CASE DispatchFallback(e, t)
    <3>1. tpc[e][t] = "fallback" /\ tpc' = [tpc EXCEPT ![e][t] = "record"]
      BY <2>3 DEF DispatchFallback, TaskAt
    <3>2. CASE Dispatch(e, t, "ok") \/ Dispatch(e, t, "quota")
      BY <2>1, <3>1, <3>2
    <3>3. CASE UNCHANGED << got, task >> /\ SaveTask(e, t, CompleteTask(task[e][t]))
      <4>1. got[e][t] = "quota"
        BY <1>1, <3>1 DEF TaskEarned
      <4>2. UNCHANGED taskRow \/ taskRow' = [taskRow EXCEPT ![t] = r]
        BY <1>4, <3>3 DEF SaveTask
      <4>3. got' = [got EXCEPT ![e][t] = "quota"] /\ task' = [task EXCEPT ![e][t] = r]
        BY <2>0, <3>3, <4>1
      <4> QED BY <3>1, <4>2, <4>3
    <3> QED BY <2>3, <3>2, <3>3 DEF DispatchFallback
  <2> QED BY <2>2, <2>3
<1>6. UNCHANGED << groupRow, delivered, epc, group, gpc, res, env, out, tripped >>
  BY DEF DispatchImplement, DispatchFallback, groupVars, breaker, returned
<1>7. /\ \A x \in Executors \ {e} : task'[x] = task[x] /\ tpc'[x] = tpc[x] /\ got'[x] = got[x]
      /\ \A u \in Tasks \ {t} : /\ task'[e][u] = task[e][u] /\ tpc'[e][u] = tpc[e][u]
                                /\ got'[e][u] = got[e][u]
      /\ task'[e][t] = r /\ tpc'[e][t] = pc /\ got'[e][t] = a
  BY <1>1, <1>5 DEF EarnedTypes
<1>8. /\ r.status = "done" => t \in succeeded'
      /\ r.status = "blocked" => MaxAttempts <= r.attempts
      /\ r.attempts <= tries'[t]
  BY <1>1, <1>3, StaysCredible
<1>9. /\ a = "ok" => t \in succeeded'
      /\ a # "quota" => r.attempts < tries'[t]
  <2>1. tries[t] \in Nat
    BY <1>1 DEF EarnedTypes
  <2>2. r.attempts < tries[t] + 1
    BY <1>3, <2>1, TaskMethods
  <2>5. tpc'[e][t] \in {"release", "record"} /\ got'[e][t] = a
    BY <1>5, <1>7
  <2>6. /\ got'[e][t] = "ok" => t \in succeeded'
        /\ got'[e][t] \in {"ok", "fail"} => tries'[t] = tries[t] + 1
    BY <1>1, <1>5, <2>5, AnswerCounted
  <2>3. a # "quota" => tries'[t] = tries[t] + 1
    BY <1>5, <2>5, <2>6
  <2>4. a = "ok" => t \in succeeded'
    BY <2>5, <2>6
  <2> QED BY <2>2, <2>3, <2>4
<1>10. TaskEarned(e, t)'
  <2>1. t \in succeeded => t \in succeeded'
    BY <1>1 DEF Grows
  <2> QED BY <1>1, <1>2, <1>3, <1>5, <1>6, <1>7, <1>8, <1>9, <2>1 DEF TaskEarned, Credible
<1>11. /\ taskRow' \in [Tasks -> TaskState]
       /\ \A u \in Tasks \ {t} : taskRow'[u] = taskRow[u]
       /\ taskRow'[t] = taskRow[t] \/ taskRow'[t] = r
  BY <1>1, <1>5 DEF EarnedTypes
<1>12. taskRow'[t] = taskRow[t] \/ Credible(t, taskRow[t])'
  BY <1>3, <1>8, <1>11 DEF Credible
<1>13. EarnedTypes'
  BY <1>1, <1>5, <1>6, <1>11 DEF EarnedTypes, TaskPCs
<1>14. tpc[e][t] # "off" /\ task[e][t].status # "absent"
  BY <1>1, <1>5 DEF TaskEarned
<1> QED BY <1>1, <1>6, <1>7, <1>10, <1>11, <1>12, <1>13, <1>14, TaskMoves

(* The outcome of an attempt is recorded: it was answered, and a success   *)
(* is an agent's.                                                          *)
LEMMA TaskRecorded ==
  ASSUME EarnedInv, Record, NEW e \in Executors, NEW t \in Tasks, RecordOutcome(e, t)
  PROVE  EarnedInv'
<1>1. EarnedTypes /\ TaskEarned(e, t) /\ Grows /\ tries' \in [Tasks -> Nat]
  BY Growth DEF EarnedInv, EarnedOf
<1>2. PICK r \in TaskState : r = task[e][t]
  BY <1>1 DEF EarnedTypes
<1>3. Credible(t, r) /\ tpc[e][t] = "record" /\ r.status # "absent" /\ tries'[t] \in Nat
  BY <1>1, <1>2 DEF TaskEarned, RecordOutcome, TaskAt
<1>4. PICK rec : rec = IF got[e][t] = "quota" THEN ReleaseTask(r)
                       ELSE RecordAttempt(r, got[e][t] = "ok")
  OBVIOUS
<1>5. /\ task' = [task EXCEPT ![e][t] = rec]
      /\ UNCHANGED taskRow \/ taskRow' = [taskRow EXCEPT ![t] = rec]
      /\ UNCHANGED << groupRow, delivered, epc, group, gpc, res, env, got >>
  BY <1>2, <1>4 DEF RecordOutcome, SaveTask, groupVars, returned
<1>6. /\ rec \in TaskState /\ rec.status # "absent" /\ rec.status # "running"
      /\ rec.status = "done" => t \in succeeded'
      /\ rec.status = "blocked" => MaxAttempts <= rec.attempts
      /\ rec.attempts <= tries'[t]
  <2>0. /\ r.status = "done" => t \in succeeded'
        /\ r.status = "blocked" => MaxAttempts <= r.attempts
        /\ r.status # "running"
        /\ r.attempts <= tries'[t]
        /\ \A n \in Nat : n < tries[t] => n < tries'[t]
    BY <1>1, <1>3, StaysCredible
  <2>1. CASE got[e][t] = "quota"
    <3>1. rec = ReleaseTask(r)
      BY <1>4, <2>1
    <3>2. /\ ReleaseTask(r) \in TaskState /\ ReleaseTask(r).attempts = r.attempts
          /\ ReleaseTask(r).status \in {r.status, "pending"}
      BY <1>3, TaskMethods
    <3> QED BY <1>3, <2>0, <3>1, <3>2
  <2>2. CASE got[e][t] # "quota"
    <3>1. PICK ok \in BOOLEAN : (ok <=> got[e][t] = "ok") /\ rec = RecordAttempt(r, ok)
      <4>1. CASE got[e][t] = "ok"
        BY <1>4, <2>2, <4>1 DEF RecordAttempt
      <4>2. CASE got[e][t] # "ok"
        BY <1>4, <2>2, <4>2 DEF RecordAttempt
      <4> QED BY <4>1, <4>2
    <3>2. r.attempts < tries'[t]
      <4>1. r.attempts \in Nat
        BY SMT DEF TaskState
      <4> QED BY <1>1, <1>2, <1>3, <2>0, <2>2, <4>1 DEF TaskEarned
    <3>3. /\ rec \in TaskState /\ rec.status \in {"done", "blocked", "failed"}
          /\ rec.status = "done" => ok
          /\ rec.status = "blocked" => MaxAttempts <= rec.attempts
          /\ rec.attempts <= tries'[t]
      BY <1>3, <3>1, <3>2, TaskMethods
    <3>4. ok => t \in succeeded'
      BY <1>1, <1>3, <3>1 DEF TaskEarned, Grows
    <3> QED BY <3>3, <3>4
  <2> QED BY <2>1, <2>2
<1>7. PICK pc \in {"over", "acquire"}, o \in {"none", "true", "false"} :
        /\ tpc' = [tpc EXCEPT ![e][t] = pc] /\ out' = [out EXCEPT ![e][t] = o]
        /\ o = "true" => o = out[e][t] \/ got[e][t] = "ok"
        /\ pc = "over" => o # "none"
  <2>0. out = [out EXCEPT ![e][t] = out[e][t]] /\ out[e][t] \in {"none", "true", "false"}
    BY <1>1 DEF EarnedTypes
  <2>1. CASE got[e][t] = "ok" /\ TaskOver(e, t, "true")
    BY <2>1 DEF TaskOver
  <2>2. CASE TaskOver(e, t, "false")
    BY <2>2 DEF TaskOver
  <2>3. CASE tpc' = [tpc EXCEPT ![e][t] = "acquire"] /\ UNCHANGED out
    BY <2>0, <2>3
  <2> QED BY <2>1, <2>2, <2>3 DEF RecordOutcome
<1>8. /\ tripped' \in [Executors -> BOOLEAN]
      /\ tripped[e] => tripped'[e]
      /\ \A x \in Executors \ {e} : tripped'[x] <=> tripped[x]
  <2>1. UNCHANGED tripped \/ tripped' = [tripped EXCEPT ![e] = @ \/ streak'[e] >= Threshold]
    BY DEF RecordOutcome, breaker
  <2>2. CASE UNCHANGED tripped
    BY <1>1, <2>2 DEF EarnedTypes
  <2>3. CASE tripped' = [tripped EXCEPT ![e] = @ \/ streak'[e] >= Threshold]
    <3>1. PICK b \in BOOLEAN : b = (tripped[e] \/ streak'[e] >= Threshold)
      OBVIOUS
    <3>2. tripped' = [tripped EXCEPT ![e] = b] /\ (tripped[e] => b)
      BY <2>3, <3>1
    <3> QED BY <1>1, <3>2 DEF EarnedTypes
  <2> QED BY <2>1, <2>2, <2>3
<1>9. /\ \A x \in Executors \ {e} : task'[x] = task[x] /\ tpc'[x] = tpc[x] /\ out'[x] = out[x]
      /\ \A u \in Tasks \ {t} : /\ task'[e][u] = task[e][u] /\ tpc'[e][u] = tpc[e][u]
                                /\ out'[e][u] = out[e][u]
      /\ task'[e][t] = rec /\ tpc'[e][t] = pc /\ out'[e][t] = o
  BY <1>1, <1>5, <1>7 DEF EarnedTypes
<1>10. TaskEarned(e, t)'
  <2>1. t \in succeeded => t \in succeeded'
    BY <1>1 DEF Grows
  <2>2. o = "true" => t \in succeeded'
    BY <1>1, <1>3, <1>7, <2>1 DEF TaskEarned
  <2>3. epc'[e] \in {"groups", "idle"}
    BY <1>1, <1>3, <1>5 DEF TaskEarned
  <2> QED BY <1>6, <1>7, <1>9, <2>2, <2>3 DEF TaskEarned, Credible
<1>11. /\ taskRow' \in [Tasks -> TaskState]
       /\ \A u \in Tasks \ {t} : taskRow'[u] = taskRow[u]
       /\ taskRow'[t] = taskRow[t] \/ taskRow'[t] = rec
  BY <1>1, <1>5, <1>6 DEF EarnedTypes
<1>12. taskRow'[t] = taskRow[t] \/ Credible(t, taskRow[t])'
  BY <1>6, <1>11 DEF Credible
<1>13. EarnedTypes'
  <2>1. tpc' \in [Executors -> [Tasks -> TaskPCs]]
    BY <1>1, <1>7 DEF EarnedTypes, TaskPCs
  <2>2. task' \in [Executors -> [Tasks -> TaskState]]
    BY <1>1, <1>5, <1>6 DEF EarnedTypes
  <2>3. out' \in [Executors -> [Tasks -> {"none", "true", "false"}]]
    BY <1>1, <1>7 DEF EarnedTypes
  <2> QED BY <1>1, <1>5, <1>8, <1>11, <2>1, <2>2, <2>3 DEF EarnedTypes
<1>14. task[e][t].status # "absent" /\ tpc[e][t] # "off" /\ UNCHANGED got
  BY <1>2, <1>3, <1>5
<1>15. UNCHANGED << groupRow, delivered, epc, group, gpc, res, env >>
  BY <1>5
<1> QED BY <1>1, <1>14, <1>15, <1>8, <1>9, <1>10, <1>11, <1>12, <1>13, TaskMoves

(* The goroutine of group g of e moves, and may write the row of g; a team *)
(* lead that starts spawns the goroutines of its tasks.                    *)
LEMMA GroupMoves ==
  ASSUME EarnedInv, Grows, NEW e \in Executors, NEW g \in Groups, EarnedTypes',
         epc[e] = "groups",
         UNCHANGED << taskRow, delivered, epc, task, got, out, tripped, env >>,
         \A x \in Executors \ {e} :
           group'[x] = group[x] /\ gpc'[x] = gpc[x] /\ res'[x] = res[x] /\ tpc'[x] = tpc[x],
         \A h \in Groups \ {g} :
           /\ group'[e][h] = group[e][h] /\ gpc'[e][h] = gpc[e][h] /\ res'[e][h] = res[e][h]
           /\ groupRow'[h] = groupRow[h],
         \A t \in Tasks : \/ tpc'[e][t] = tpc[e][t]
                          \/ tpc'[e][t] = "sem" /\ task[e][t].status # "absent",
         groupRow'[g].status = "completed" => g \in finished',
         GroupEarned(e, g)'
  PROVE  EarnedInv'
<1>1. EarnedOf(e) /\ EarnedTypes /\ RowsEarned
  BY DEF EarnedInv
<1>2. RowsEarned'
  <2>1. \A u \in Tasks : Credible(u, taskRow[u])'
    BY RowsStay
  <2>2. \A h \in Groups : groupRow'[h].status = "completed" => h \in finished'
    BY <1>1 DEF RowsEarned, Grows
  <2> QED BY <1>1, <2>1, <2>2 DEF RowsEarned, Grows
<1>3. CallEarned(e)'
  BY <1>1 DEF EarnedOf, CallEarned
<1>4. ASSUME NEW h \in Groups PROVE GroupEarned(e, h)'
  <2>1. TasksOn(e, h)' = TasksOn(e, h)
    BY DEF TasksOn
  <2>2. GroupEarned(e, h)
    BY <1>1 DEF EarnedOf
  <2>3. CASE h # g
    BY <2>1, <2>2, <2>3, GroupStays
  <2> QED BY <2>3
<1>5. ASSUME NEW u \in Tasks PROVE TaskEarned(e, u)'
  <2>1. TaskEarned(e, u)
    BY <1>1 DEF EarnedOf
  <2> QED BY <1>1, <2>1, TaskStays
<1>6. EarnedOf(e)'
  BY <1>3, <1>4, <1>5 DEF EarnedOf
<1> QED BY <1>2, <1>6, OthersStay

(* The same for a step with one new program counter, result and copy of    *)
(* the group, whose row is left alone or gets that copy.                   *)
LEMMA GroupSets ==
  ASSUME EarnedInv, DagInv, Grows, tries' \in [Tasks -> Nat],
         NEW e \in Executors, NEW g \in Groups,
         NEW pc \in GroupPCs \ {"off"}, NEW r \in {"none", "ok", "failed"}, NEW v \in GroupState,
         gpc[e][g] \notin {"off", "over"},
         gpc' = [gpc EXCEPT ![e][g] = pc], res' = [res EXCEPT ![e][g] = r],
         group' = [group EXCEPT ![e][g] = v],
         \/ UNCHANGED groupRow
         \/ ~tripped[e] /\ groupRow' = [groupRow EXCEPT ![g] = v],
         UNCHANGED << taskRow, delivered, epc, task, tpc, got, out, tripped, env >>,
         ~tripped[e] =>
           /\ v.status = "completed" => g \in finished'
           /\ pc \in {"detect", "build", "repair"} => Worked(e, g)
           /\ pc = "finish" /\ r = "ok" => Worked(e, g) /\ v.build \in {"passed", "skipped"}
           /\ pc # "finish" /\ r = "ok" => g \in finished'
           /\ pc = "over" => r # "none"
  PROVE  EarnedInv'
<1>1. EarnedTypes /\ RowsEarned /\ GroupEarned(e, g)
  BY DEF EarnedInv, EarnedOf
<1>2. /\ gpc \in [Executors -> [Groups -> GroupPCs]]
      /\ res \in [Executors -> [Groups -> {"none", "ok", "failed"}]]
  BY DEF DagInv, DagTypes
<1>3. /\ \A x \in Executors \ {e} : group'[x] = group[x] /\ gpc'[x] = gpc[x] /\ res'[x] = res[x]
      /\ \A h \in Groups \ {g} :
           group'[e][h] = group[e][h] /\ gpc'[e][h] = gpc[e][h] /\ res'[e][h] = res[e][h]
      /\ group'[e][g] = v /\ gpc'[e][g] = pc /\ res'[e][g] = r
  BY <1>1, <1>2 DEF EarnedTypes
<1>4. epc[e] = "groups" /\ epc'[e] = "groups"
  BY <1>1 DEF GroupEarned
<1>5. /\ \A h \in Groups \ {g} : groupRow'[h] = groupRow[h]
      /\ groupRow'[g] = groupRow[g] \/ (~tripped[e] /\ groupRow'[g] = v)
      /\ groupRow' \in [Groups -> GroupState]
  BY <1>1 DEF EarnedTypes
<1>6. groupRow'[g].status = "completed" => g \in finished'
  BY <1>1, <1>5 DEF RowsEarned, Grows
<1>7. EarnedTypes'
  <2>1. group' \in [Executors -> [Groups -> GroupState]]
    BY <1>1 DEF EarnedTypes
  <2> QED BY <1>1, <1>5, <2>1 DEF EarnedTypes
<1>8. GroupEarned(e, g)'
  <2>1. TasksOn(e, g)' = TasksOn(e, g)
    BY DEF TasksOn
  <2>2. Worked(e, g) => Worked(e, g)'
    BY <2>1 DEF Worked, Grows
  <2> QED BY <1>3, <1>4, <2>2 DEF GroupEarned
<1> QED BY <1>3, <1>4, <1>5, <1>6, <1>7, <1>8, GroupMoves

(* A group goroutine before its team lead starts, a repair and the end of  *)
(* the team lead: no copy and no row changes.                              *)
LEMMA GroupWaits ==
  ASSUME EarnedInv, DagInv, Record, NEW e \in Executors, NEW g \in Groups,
         \/ SkipCompleted(e, g) \/ ReceiveDep(e, g) \/ Republish(e, g)
         \/ DepsReceived(e, g) \/ WaitFails(e, g) \/ EnterGroupSem(e, g)
         \/ AcquireTeamLead(e, g) \/ Aggregate(e, g) \/ Repair(e, g) \/ ReleaseTeamLead(e, g)
  PROVE  EarnedInv'
<1>1. EarnedTypes /\ Grows /\ tries' \in [Tasks -> Nat] /\ GroupEarned(e, g) /\ Outcome(e, g)
  BY Growth DEF EarnedInv, EarnedOf, DagInv, DagOf, GroupOK
<1>2. /\ UNCHANGED << groupRow, taskRow, delivered, epc, group, task, tpc, got, out, tripped, env >>
  BY DEF SkipCompleted, ReceiveDep, Republish, DepsReceived, WaitFails, EnterGroupSem,
         AcquireTeamLead, Aggregate, Repair, ReleaseTeamLead, tables, memory, taskVars,
         breaker, returned
<1>3. PICK v \in GroupState : v = group[e][g] /\ group = [group EXCEPT ![e][g] = v]
  <2>1. group[e][g] \in GroupState
    BY <1>1 DEF EarnedTypes
  <2>2. group = [group EXCEPT ![e][g] = group[e][g]]
    BY <1>1 DEF EarnedTypes
  <2> QED BY <2>1, <2>2
<1>4. /\ res = [res EXCEPT ![e][g] = res[e][g]] /\ res[e][g] \in {"none", "ok", "failed"}
      /\ g \in finished => g \in finished'
      /\ ~tripped[e] /\ v.status = "completed" => g \in finished
  BY <1>1, <1>3 DEF DagInv, DagTypes, Grows, GroupEarned
<1>5. ASSUME NEW pc \in GroupPCs \ {"off"}, NEW r \in {"none", "ok", "failed"},
             gpc[e][g] \notin {"off", "over"},
             gpc' = [gpc EXCEPT ![e][g] = pc], res' = [res EXCEPT ![e][g] = r],
             ~tripped[e] =>
               /\ pc \in {"detect", "build", "repair"} => Worked(e, g)
               /\ pc = "finish" => r # "ok"
               /\ pc # "finish" /\ r = "ok" => g \in finished
               /\ pc = "over" => r # "none"
      PROVE  EarnedInv'
  BY <1>1, <1>2, <1>3, <1>4, <1>5, GroupSets
<1>6. ~tripped[e] /\ gpc[e][g] # "finish" /\ res[e][g] = "ok" => g \in finished
  BY <1>1 DEF GroupEarned
<1>7. ASSUME NEW pc \in {"relayOk", "relayFailed", "wait", "sem", "acquire", "start"},
             gpc[e][g] \in {"wait", "relayOk", "relayFailed", "sem", "acquire"},
             gpc' = [gpc EXCEPT ![e][g] = pc], UNCHANGED res
      PROVE  EarnedInv'
  BY <1>4, <1>5, <1>6, <1>7 DEF GroupPCs, Holding
<1>8. ASSUME gpc[e][g] \in {"wait", "sem", "acquire"},
             gpc' = [gpc EXCEPT ![e][g] = "over"], res' = [res EXCEPT ![e][g] = "failed"]
      PROVE  EarnedInv'
  BY <1>5, <1>8 DEF GroupPCs
<1>9. CASE SkipCompleted(e, g)
  <2>1. /\ gpc[e][g] = "wait" /\ group[e][g].status = "completed"
        /\ gpc' = [gpc EXCEPT ![e][g] = "over"] /\ res' = [res EXCEPT ![e][g] = "ok"]
    BY <1>9 DEF SkipCompleted, At, SignalOver
  <2> QED BY <1>3, <1>4, <1>5, <2>1 DEF GroupPCs
<1>10. CASE ReceiveDep(e, g)
  <2>1. PICK pc \in {"relayOk", "relayFailed"} : gpc' = [gpc EXCEPT ![e][g] = pc]
    BY <1>10 DEF ReceiveDep
  <2> QED BY <1>7, <1>10, <2>1 DEF ReceiveDep, Waiting, At
<1>11. CASE Republish(e, g)
  BY <1>7, <1>11 DEF Republish, At
<1>12. CASE DepsReceived(e, g)
  BY <1>7, <1>12 DEF DepsReceived, Waiting, At
<1>13. CASE WaitFails(e, g)
  BY <1>8, <1>13 DEF WaitFails, Waiting, At, SignalOver
<1>14. CASE EnterGroupSem(e, g)
  <2>1. gpc[e][g] = "sem" /\ UNCHANGED res
    BY <1>14 DEF EnterGroupSem, At
  <2>2. CASE gpc' = [gpc EXCEPT ![e][g] = "acquire"]
    BY <1>7, <2>1, <2>2
  <2>3. CASE tripped[e] /\ SignalOver(e, g, "failed")
    <3>1. gpc' = [gpc EXCEPT ![e][g] = "over"] /\ tripped[e]
      BY <2>3 DEF SignalOver
    <3> QED BY <1>4, <1>5, <2>1, <3>1 DEF GroupPCs
  <2> QED BY <1>14, <2>2, <2>3 DEF EnterGroupSem
<1>15. CASE AcquireTeamLead(e, g)
  <2>1. gpc[e][g] = "acquire"
    BY <1>15 DEF AcquireTeamLead, At
  <2>2. CASE gpc' = [gpc EXCEPT ![e][g] = "start"] /\ UNCHANGED res
    BY <1>7, <2>1, <2>2
  <2>3. CASE res' = [res EXCEPT ![e][g] = "failed"] /\ SignalOver(e, g, "failed")
    BY <1>8, <2>1, <2>3 DEF SignalOver
  <2> QED BY <1>15, <2>2, <2>3 DEF AcquireTeamLead
<1>16. CASE Aggregate(e, g)
  <2>1. gpc[e][g] = "tasks" /\ TasksOver(e, g)
    BY <1>16 DEF Aggregate, At
  <2>2. CASE Fails(e, g, "finish")
    BY <1>5, <2>1, <2>2 DEF Fails, GroupPCs, Holding
  <2>3. CASE /\ \A t \in TasksOn(e, g) : out[e][t] # "false"
             /\ gpc' = [gpc EXCEPT ![e][g] = "detect"] /\ UNCHANGED res
    <3>1. ASSUME ~tripped[e], NEW t \in TasksOn(e, g) PROVE t \in succeeded
      <4>1. t \in Tasks /\ tpc[e][t] = "over" /\ out[e][t] # "false"
        BY <2>1, <2>3, <3>1 DEF TasksOn, TasksOver
      <4>2. TaskEarned(e, t) /\ out[e][t] \in {"none", "true", "false"}
        BY <1>1, <4>1 DEF EarnedInv, EarnedOf, EarnedTypes
      <4> QED BY <3>1, <4>1, <4>2 DEF TaskEarned
    <3>2. ~tripped[e] => Worked(e, g)
      BY <3>1 DEF Worked
    <3> QED BY <1>4, <1>5, <1>6, <2>1, <2>3, <3>2 DEF GroupPCs, Holding
  <2> QED BY <1>16, <2>2, <2>3 DEF Aggregate
<1>17. CASE Repair(e, g)
  <2>1. gpc[e][g] = "repair" /\ gpc' = [gpc EXCEPT ![e][g] = "build"] /\ UNCHANGED res
    BY <1>17 DEF Repair, At
  <2>2. ~tripped[e] => Worked(e, g)
    BY <1>1, <2>1 DEF GroupEarned
  <2> QED BY <1>4, <1>5, <1>6, <2>1, <2>2 DEF GroupPCs, Holding
<1>18. CASE ReleaseTeamLead(e, g)
  <2>1. gpc[e][g] = "end" /\ gpc' = [gpc EXCEPT ![e][g] = "over"] /\ UNCHANGED res
    BY <1>18 DEF ReleaseTeamLead, At, SignalOver
  <2>2. res[e][g] # "none"
    BY <1>1, <2>1 DEF Outcome
  <2> QED BY <1>4, <1>5, <1>6, <2>1, <2>2 DEF GroupPCs
<1> QED BY <1>9, <1>10, <1>11, <1>12, <1>13, <1>14, <1>15, <1>16, <1>17, <1>18

(* The methods of a group.                                                 *)
LEMMA GroupMethods ==
  ASSUME NEW v \in GroupState
  PROVE  /\ StartGroup(v) \in GroupState /\ StartGroup(v).status = "running"
         /\ SkipBuild(v) \in GroupState /\ SkipBuild(v).status = v.status
         /\ SkipBuild(v).build = "skipped"
         /\ \A ok \in BOOLEAN :
              /\ RecordBuildAttempt(v, ok) \in GroupState
              /\ RecordBuildAttempt(v, ok).status = v.status
              /\ ok => RecordBuildAttempt(v, ok).build = "passed"
         /\ CompleteGroup(v) \in GroupState
         /\ FailGroup(v) \in GroupState
         /\ FailGroup(v).status = "completed" => v.status = "completed"
<1>1. StartGroup(v) \in GroupState /\ StartGroup(v).status = "running"
  BY SMT DEF StartGroup, GroupState, GroupStatuses
<1>2. /\ SkipBuild(v) \in GroupState /\ SkipBuild(v).status = v.status
      /\ SkipBuild(v).build = "skipped"
  BY SMT DEF SkipBuild, GroupState, BuildStatuses
<1>3. ASSUME NEW ok \in BOOLEAN
      PROVE  /\ RecordBuildAttempt(v, ok) \in GroupState
             /\ RecordBuildAttempt(v, ok).status = v.status
             /\ ok => RecordBuildAttempt(v, ok).build = "passed"
  <2>1. PICK b \in BuildStatuses :
          /\ ok => b = "passed"
          /\ RecordBuildAttempt(v, ok) = [v EXCEPT !.builds = v.builds + 1, !.build = b]
    BY DEF RecordBuildAttempt, BuildStatuses
  <2>2. PICK n \in Nat : n = v.builds + 1
    BY SMT DEF GroupState
  <2>3. [v EXCEPT !.builds = n] \in GroupState /\ [v EXCEPT !.builds = n].status = v.status
    BY SMT DEF GroupState
  <2>4. PICK w \in GroupState : w = [v EXCEPT !.builds = n] /\ w.status = v.status
    BY <2>3
  <2>5. /\ [w EXCEPT !.build = b] \in GroupState /\ [w EXCEPT !.build = b].build = b
        /\ [w EXCEPT !.build = b].status = w.status
    BY SMT DEF GroupState
  <2>6. RecordBuildAttempt(v, ok) = [w EXCEPT !.build = b]
    BY <2>1, <2>2, <2>4
  <2> QED BY <2>1, <2>4, <2>5, <2>6
<1>4. CompleteGroup(v) \in GroupState
  BY SMT DEF CompleteGroup, GroupState, GroupStatuses
<1>5. /\ FailGroup(v) \in GroupState
      /\ FailGroup(v).status = "completed" => v.status = "completed"
  BY SMT DEF FailGroup, GroupState, GroupStatuses
<1> QED BY <1>1, <1>2, <1>3, <1>4, <1>5

(* The team lead starts: a running group is not a completed one.           *)
LEMMA GroupStarts ==
  ASSUME EarnedInv, DagInv, Record, NEW e \in Executors, NEW g \in Groups, StartTeamLead(e, g)
  PROVE  EarnedInv'
<1>1. EarnedTypes /\ RowsEarned /\ Grows /\ tries' \in [Tasks -> Nat] /\ GroupEarned(e, g)
  BY Growth DEF EarnedInv, EarnedOf
<1>2. /\ gpc[e][g] = "start"
      /\ UNCHANGED << taskRow, delivered, epc, task, got, out, tripped, env >>
  BY DEF StartTeamLead, At, breaker, returned
<1>3. /\ group[e][g] \in GroupState /\ group = [group EXCEPT ![e][g] = group[e][g]]
  BY <1>1 DEF EarnedTypes
<1>4. CASE ~CanStartGroup(group[e][g]) /\ Fails(e, g, "end") /\ UNCHANGED << groupRow, group, tpc >>
  <2>1. PICK v \in GroupState : v = group[e][g] /\ group' = [group EXCEPT ![e][g] = v]
    BY <1>3, <1>4
  <2>2. /\ gpc' = [gpc EXCEPT ![e][g] = "end"] /\ res' = [res EXCEPT ![e][g] = "failed"]
        /\ "end" \in GroupPCs \ {"off"}
    BY <1>4 DEF Fails, GroupPCs, Holding
  <2>3. ~tripped[e] /\ v.status = "completed" => g \in finished'
    BY <1>1, <2>1 DEF GroupEarned, Grows
  <2> QED BY <1>1, <1>2, <1>4, <2>1, <2>2, <2>3, GroupSets
<1>5. PICK v \in GroupState : v = StartGroup(group[e][g]) /\ v.status = "running"
  BY <1>3, GroupMethods
<1>6. CASE group' = [group EXCEPT ![e][g] = StartGroup(@)]
  <2>1. group' = [group EXCEPT ![e][g] = v]
    BY <1>5, <1>6
  <2>2. /\ \A x \in Executors \ {e} : group'[x] = group[x]
        /\ \A h \in Groups \ {g} : group'[e][h] = group[e][h]
        /\ group'[e][g] = v /\ group' \in [Executors -> [Groups -> GroupState]]
    BY <1>1, <2>1 DEF EarnedTypes
  <2>3. UNCHANGED groupRow \/ groupRow' = [groupRow EXCEPT ![g] = v]
    BY <2>2, <1>6 DEF StartTeamLead
  <2>4. /\ \A h \in Groups \ {g} : groupRow'[h] = groupRow[h]
        /\ groupRow'[g] = groupRow[g] \/ groupRow'[g] = v
        /\ groupRow' \in [Groups -> GroupState]
    BY <1>1, <2>3 DEF EarnedTypes
  <2>5. groupRow'[g].status = "completed" => g \in finished'
    BY <1>1, <1>5, <2>4 DEF RowsEarned, Grows
  <2>6. PICK pc \in {"end", "tasks"}, r \in {"none", "failed", "ok"} :
          /\ gpc' = [gpc EXCEPT ![e][g] = pc] /\ res' = [res EXCEPT ![e][g] = r]
          /\ r = "ok" => res[e][g] = "ok"
    <3>1. res = [res EXCEPT ![e][g] = res[e][g]] /\ res[e][g] \in {"none", "ok", "failed"}
      BY DEF DagInv, DagTypes
    <3>2. CASE gpc' = [gpc EXCEPT ![e][g] = "tasks"] /\ UNCHANGED res
      BY <3>1, <3>2
    <3>3. CASE Fails(e, g, "end")
      BY <3>3 DEF Fails
    <3> QED BY <3>2, <3>3 DEF StartTeamLead
  <2>7. /\ \A x \in Executors \ {e} : gpc'[x] = gpc[x] /\ res'[x] = res[x]
        /\ \A h \in Groups \ {g} : gpc'[e][h] = gpc[e][h] /\ res'[e][h] = res[e][h]
        /\ gpc'[e][g] = pc /\ res'[e][g] = r
    BY <2>6 DEF DagInv, DagTypes
  <2>8. /\ \A x \in Executors \ {e} : tpc'[x] = tpc[x]
        /\ \A t \in Tasks : \/ tpc'[e][t] = tpc[e][t]
                            \/ tpc'[e][t] = "sem" /\ task[e][t].status # "absent"
        /\ tpc' \in [Executors -> [Tasks -> TaskPCs]]
    <3>1. CASE UNCHANGED tpc
      BY <1>1, <3>1 DEF EarnedTypes
    <3>2. CASE tpc' = [tpc EXCEPT ![e] =
                         [ t \in Tasks |-> IF t \in TasksOn(e, g) THEN "sem" ELSE tpc[e][t] ]]
      <4>1. /\ \A x \in Executors \ {e} : tpc'[x] = tpc[x]
            /\ tpc'[e] = [ t \in Tasks |-> IF t \in TasksOn(e, g) THEN "sem" ELSE tpc[e][t] ]
        BY <1>1, <3>2 DEF EarnedTypes
      <4>2. \A t \in Tasks : \/ tpc'[e][t] = tpc[e][t]
                             \/ tpc'[e][t] = "sem" /\ task[e][t].status # "absent"
        BY <4>1 DEF TasksOn
      <4>3. [ t \in Tasks |-> IF t \in TasksOn(e, g) THEN "sem" ELSE tpc[e][t] ] \in [Tasks -> TaskPCs]
        <5>1. \A t \in Tasks : tpc[e][t] \in TaskPCs
          BY <1>1 DEF EarnedTypes
        <5>2. "sem" \in TaskPCs
          BY DEF TaskPCs
        <5> QED BY <5>1, <5>2
      <4>4. tpc' \in [Executors -> [Tasks -> TaskPCs]]
        BY <1>1, <3>2, <4>3 DEF EarnedTypes
      <4> QED BY <4>1, <4>2, <4>4
    <3> QED BY <3>1, <3>2 DEF StartTeamLead
  <2>9. EarnedTypes'
    BY <1>1, <1>2, <2>2, <2>4, <2>8 DEF EarnedTypes
  <2>10. epc[e] = "groups" /\ epc'[e] = "groups"
    BY <1>1, <1>2 DEF GroupEarned
  <2>11. GroupEarned(e, g)'
    <3>1. tripped[e] <=> tripped'[e]
      BY <1>2
    <3>2. ~tripped[e] /\ r = "ok" => g \in finished'
      BY <1>1, <1>2, <2>6 DEF GroupEarned, Grows
    <3> QED BY <1>5, <2>2, <2>6, <2>7, <2>10, <3>1, <3>2 DEF GroupEarned
  <2> QED BY <1>1, <1>2, <2>2, <2>4, <2>5, <2>7, <2>8, <2>9, <2>10, <2>11, GroupMoves
<1> QED BY <1>4, <1>6 DEF StartTeamLead

(* The build and the end of the team lead.  A group is completed only with *)
(* its tasks and its build behind it, which is when the history has it.    *)
LEMMA GroupEnds ==
  ASSUME EarnedInv, DagInv, Record, NEW e \in Executors, NEW g \in Groups,
         DetectBuild(e, g) \/ Build(e, g) \/ FinishTeamLead(e, g)
  PROVE  EarnedInv'
<1>1. EarnedTypes /\ Grows /\ tries' \in [Tasks -> Nat] /\ GroupEarned(e, g) /\ Outcome(e, g)
  BY Growth DEF EarnedInv, EarnedOf, DagInv, DagOf, GroupOK
<1>2. UNCHANGED << taskRow, delivered, epc, task, tpc, got, out, tripped, env >>
  BY DEF DetectBuild, Build, FinishTeamLead, taskVars, breaker, returned
<1>3. /\ group[e][g] \in GroupState /\ group = [group EXCEPT ![e][g] = group[e][g]]
      /\ res = [res EXCEPT ![e][g] = res[e][g]] /\ res[e][g] \in {"none", "ok", "failed"}
  <2>1. group[e][g] \in GroupState /\ group = [group EXCEPT ![e][g] = group[e][g]]
    BY <1>1 DEF EarnedTypes
  <2>2. res = [res EXCEPT ![e][g] = res[e][g]] /\ res[e][g] \in {"none", "ok", "failed"}
    BY DEF DagInv, DagTypes
  <2> QED BY <2>1, <2>2
<1>4. /\ ~tripped[e] /\ group[e][g].status = "completed" => g \in finished'
      /\ ~tripped[e] /\ gpc[e][g] # "finish" /\ res[e][g] = "ok" => g \in finished'
  BY <1>1 DEF GroupEarned, Grows
<1>5. ASSUME NEW v \in GroupState, group' = [group EXCEPT ![e][g] = v],
             SaveGroup(e, g, group'[e][g])
      PROVE  \/ UNCHANGED groupRow
             \/ ~tripped[e] /\ groupRow' = [groupRow EXCEPT ![g] = v]
  <2>1. group'[e][g] = v
    BY <1>1, <1>5 DEF EarnedTypes
  <2> QED BY <1>5, <2>1 DEF SaveGroup, DbOk
<1>6. ASSUME NEW pc \in Holding, NEW r \in {"none", "ok", "failed"}, NEW v \in GroupState,
             gpc[e][g] \in Holding,
             gpc' = [gpc EXCEPT ![e][g] = pc], res' = [res EXCEPT ![e][g] = r],
             group' = [group EXCEPT ![e][g] = v],
             \/ UNCHANGED groupRow
             \/ ~tripped[e] /\ groupRow' = [groupRow EXCEPT ![g] = v],
             ~tripped[e] =>
               /\ v.status = "completed" => g \in finished'
               /\ pc \in {"detect", "build", "repair"} => Worked(e, g)
               /\ pc = "finish" /\ r = "ok" => Worked(e, g) /\ v.build \in {"passed", "skipped"}
               /\ pc # "finish" /\ r = "ok" => g \in finished'
      PROVE  EarnedInv'
  <2>1. pc \in GroupPCs \ {"off"} /\ pc # "over" /\ gpc[e][g] \notin {"off", "over"}
    BY <1>6 DEF GroupPCs, Holding
  <2> QED BY <1>1, <1>2, <1>6, <2>1, GroupSets
<1>7. CASE DetectBuild(e, g)
  <2>1. gpc[e][g] = "detect" /\ gpc[e][g] \in Holding /\ (~tripped[e] => Worked(e, g))
    BY <1>1, <1>7 DEF DetectBuild, At, Holding, GroupEarned
  <2>2. CASE /\ group' = [group EXCEPT ![e][g] = SkipBuild(@)] /\ SaveGroup(e, g, group'[e][g])
             /\ res' = [res EXCEPT ![e][g] = "ok"] /\ gpc' = [gpc EXCEPT ![e][g] = "finish"]
    <3>1. PICK v \in GroupState : /\ v = SkipBuild(group[e][g])
                                  /\ v.status = group[e][g].status /\ v.build = "skipped"
      <4>1. PICK w \in GroupState : w = group[e][g]
        BY <1>3
      <4>2. /\ SkipBuild(w) \in GroupState /\ SkipBuild(w).status = w.status
            /\ SkipBuild(w).build = "skipped"
        BY GroupMethods
      <4> QED BY <4>1, <4>2
    <3>2. group' = [group EXCEPT ![e][g] = v]
      BY <2>2, <3>1
    <3>3. UNCHANGED groupRow \/ (~tripped[e] /\ groupRow' = [groupRow EXCEPT ![g] = v])
      BY <1>5, <2>2, <3>2
    <3> QED BY <1>4, <1>6, <2>1, <2>2, <3>1, <3>2, <3>3 DEF Holding
  <2>3. CASE gpc' = [gpc EXCEPT ![e][g] = "build"] /\ UNCHANGED << group, groupRow, res >>
    <3>1. PICK v \in GroupState : v = group[e][g] /\ group' = [group EXCEPT ![e][g] = v]
      BY <1>3, <2>3
    <3>2. PICK r \in {"none", "ok", "failed"} : r = res[e][g] /\ res' = [res EXCEPT ![e][g] = r]
      BY <1>3, <2>3
    <3> QED BY <1>4, <1>6, <2>1, <2>3, <3>1, <3>2 DEF Holding
  <2> QED BY <1>7, <2>2, <2>3 DEF DetectBuild
<1>8. CASE Build(e, g)
  <2>1. gpc[e][g] = "build" /\ gpc[e][g] \in Holding /\ (~tripped[e] => Worked(e, g))
    BY <1>1, <1>8 DEF Build, At, Holding, GroupEarned
  <2>2. PICK pass \in BOOLEAN :
          /\ group' = [group EXCEPT ![e][g] = RecordBuildAttempt(@, pass)]
          /\ IF pass
             THEN res' = [res EXCEPT ![e][g] = "ok"] /\ gpc' = [gpc EXCEPT ![e][g] = "finish"]
             ELSE IF group'[e][g].build = "failed"
             THEN Fails(e, g, "finish")
             ELSE gpc' = [gpc EXCEPT ![e][g] = "repair"] /\ UNCHANGED res
    BY <1>8 DEF Build
  <2>3. PICK v \in GroupState : /\ v = RecordBuildAttempt(group[e][g], pass)
                                /\ v.status = group[e][g].status
                                /\ pass => v.build = "passed"
    <3>1. PICK w \in GroupState : w = group[e][g]
      BY <1>3
    <3>2. /\ RecordBuildAttempt(w, pass) \in GroupState
          /\ RecordBuildAttempt(w, pass).status = w.status
          /\ pass => RecordBuildAttempt(w, pass).build = "passed"
      <4>1. \A ok \in BOOLEAN :
              /\ RecordBuildAttempt(w, ok) \in GroupState
              /\ RecordBuildAttempt(w, ok).status = w.status
              /\ ok => RecordBuildAttempt(w, ok).build = "passed"
        BY GroupMethods
      <4> QED BY <4>1
    <3> QED BY <3>1, <3>2
  <2>4. group' = [group EXCEPT ![e][g] = v]
    BY <2>2, <2>3
  <2>5. UNCHANGED groupRow \/ (~tripped[e] /\ groupRow' = [groupRow EXCEPT ![g] = v])
    BY <1>5, <1>8, <2>4 DEF Build
  <2>6. CASE pass /\ res' = [res EXCEPT ![e][g] = "ok"] /\ gpc' = [gpc EXCEPT ![e][g] = "finish"]
    BY <1>4, <1>6, <2>1, <2>3, <2>4, <2>5, <2>6 DEF Holding
  <2>7. CASE Fails(e, g, "finish")
    BY <1>4, <1>6, <2>1, <2>3, <2>4, <2>5, <2>7 DEF Holding, Fails
  <2>8. CASE gpc' = [gpc EXCEPT ![e][g] = "repair"] /\ UNCHANGED res
    <3>1. PICK r \in {"none", "ok", "failed"} : r = res[e][g] /\ res' = [res EXCEPT ![e][g] = r]
      BY <1>3, <2>8
    <3> QED BY <1>4, <1>6, <2>1, <2>3, <2>4, <2>5, <2>8, <3>1 DEF Holding
  <2> QED BY <2>2, <2>6, <2>7, <2>8
<1>9. CASE FinishTeamLead(e, g)
  <2>1. /\ gpc[e][g] = "finish" /\ gpc[e][g] \in Holding
        /\ gpc' = [gpc EXCEPT ![e][g] = "end"] /\ UNCHANGED res
        /\ group' = [group EXCEPT ![e][g] =
                       IF res[e][g] = "ok" THEN CompleteGroup(@) ELSE FailGroup(@)]
    BY <1>9 DEF FinishTeamLead, At, Holding
  <2>2. gpc'[e][g] = "end"
    BY <2>1 DEF DagInv, DagTypes
  <2>3. ~tripped[e] /\ res[e][g] = "ok" => g \in finished'
    <3> SUFFICES ASSUME ~tripped[e], res[e][g] = "ok" PROVE g \in finished'
      OBVIOUS
    <3>1. Worked(e, g) /\ group[e][g].build \in {"passed", "skipped"}
      BY <1>1, <2>1 DEF GroupEarned
    <3>2. EndsDone(e, g)
      BY <2>1, <2>2, <3>1 DEF EndsDone, At, Worked
    <3> QED BY <3>2 DEF Record
  <2>4. PICK v \in GroupState :
          /\ group' = [group EXCEPT ![e][g] = v]
          /\ ~tripped[e] /\ v.status = "completed" => g \in finished'
    <3>1. CASE res[e][g] = "ok"
      <4>1. group' = [group EXCEPT ![e][g] = CompleteGroup(@)] /\ CompleteGroup(group[e][g]) \in GroupState
        BY <1>3, <2>1, <3>1, GroupMethods
      <4> QED BY <2>3, <3>1, <4>1
    <3>2. CASE res[e][g] # "ok"
      <4>1. /\ group' = [group EXCEPT ![e][g] = FailGroup(@)] /\ FailGroup(group[e][g]) \in GroupState
            /\ FailGroup(group[e][g]).status = "completed" => group[e][g].status = "completed"
        BY <1>3, <2>1, <3>2, GroupMethods
      <4> QED BY <1>4, <4>1
    <3> QED BY <3>1, <3>2
  <2>5. UNCHANGED groupRow \/ (~tripped[e] /\ groupRow' = [groupRow EXCEPT ![g] = v])
    BY <1>5, <1>9, <2>4 DEF FinishTeamLead
  <2>6. PICK r \in {"none", "ok", "failed"} : r = res[e][g] /\ res' = [res EXCEPT ![e][g] = r]
    BY <1>3, <2>1
  <2> QED BY <1>6, <2>1, <2>3, <2>4, <2>5, <2>6 DEF Holding
<1> QED BY <1>7, <1>8, <1>9

(* Execute moves on before or after its goroutines: the copies stay.       *)
LEMMA CallMoves ==
  ASSUME EarnedInv, Grows, NEW e \in Executors, NEW pc \in {"idle", "rows", "worktrees", "begin"},
         epc' = [epc EXCEPT ![e] = pc], EarnedTypes', RowsEarned',
         epc \in [Executors -> {"idle", "new", "rows", "worktrees", "begin", "groups"}],
         UNCHANGED << group, task, gpc, res, tpc, got, out, tripped >>,
         \A g \in Groups : gpc[e][g] \in {"off", "over"},
         pc # "idle" => epc[e] \notin {"groups", "idle"},
         \A x \in Executors \ {e} : env'[x] = env[x],
         CallEarned(e)'
  PROVE  EarnedInv'
<1>1. EarnedTypes /\ EarnedOf(e)
  BY DEF EarnedInv
<1>2. epc'[e] = pc /\ \A x \in Executors \ {e} : epc'[x] = epc[x]
  OBVIOUS
<1>3. ASSUME NEW g \in Groups PROVE GroupEarned(e, g)'
  <2>1. GroupEarned(e, g)
    BY <1>1 DEF EarnedOf
  <2>2. g \in finished => g \in finished'
    BY DEF Grows
  <2>3. gpc'[e][g] \in {"off", "over"} /\ epc'[e] # "groups"
    BY <1>2
  <2> QED BY <2>1, <2>2, <2>3 DEF GroupEarned
<1>4. ASSUME NEW t \in Tasks PROVE TaskEarned(e, t)'
  <2>1. TaskEarned(e, t)
    BY <1>1 DEF EarnedOf
  <2>2. tpc[e][t] # "off" => epc[e] \in {"groups", "idle"}
    BY <2>1 DEF TaskEarned
  <2>3. epc'[e] \in {"groups", "idle"} \/ tpc'[e][t] = "off"
    BY <1>2, <2>2
  <2> QED BY <1>1, <2>1, <2>3, TaskStays
<1>5. EarnedOf(e)'
  BY <1>3, <1>4 DEF EarnedOf
<1> QED BY <1>2, <1>5, OthersStay

(* A call that returns, or saves the board and the groups as it has them.  *)
LEMMA CallSteps ==
  ASSUME EarnedInv, DagInv, Record, NEW e \in Executors,
         \/ LoadFails(e) \/ SaveNewBoard(e) \/ BoardBuilt(e) \/ CreateWorktrees(e)
         \/ BreakerTripped(e) \/ Finalize(e)
  PROVE  EarnedInv'
<1>1. /\ EarnedTypes /\ RowsEarned /\ EarnedOf(e) /\ Grows /\ tries' \in [Tasks -> Nat]
      /\ DagTypes /\ DagOf(e)
  BY Growth DEF EarnedInv, DagInv
<1>2. UNCHANGED << taskRow, group, task, gpc, res, tpc, got, out, tripped >>
  BY DEF LoadFails, SaveNewBoard, BoardBuilt, CreateWorktrees, BreakerTripped, Finalize,
         tables, memory, groupVars, taskVars, breaker
<1>3. \A t \in Tasks : Credible(t, taskRow[t])'
  BY <1>1, <1>2, RowsStay
<1>4. \A g \in Groups : gpc[e][g] \in {"off", "over"}
  <2>1. ASSUME NEW g \in Groups PROVE gpc[e][g] \in {"off", "over"}
    <3>1. CASE epc[e] \in {"new", "rows", "worktrees", "begin"}
      BY <1>1, <3>1 DEF DagOf, Quiet
    <3>2. CASE epc[e] = "idle"
      BY <1>1, <3>2 DEF EarnedOf, GroupEarned
    <3>3. CASE GroupsOver(e)
      BY <3>3 DEF GroupsOver
    <3> QED BY <3>1, <3>2, <3>3 DEF LoadFails, Called, SaveNewBoard, BoardBuilt, CreateWorktrees,
                                    BreakerTripped, Finalize
  <2> QED BY <2>1
<1>5. /\ groupRow' \in [Groups -> GroupState]
      /\ \A g \in Groups : groupRow'[g].status = "completed" => g \in finished'
  <2>1. CASE UNCHANGED groupRow
    BY <1>1, <2>1 DEF EarnedTypes, RowsEarned, Grows
  <2>2. CASE CreateWorktrees(e) /\ ~UNCHANGED groupRow
    <3>1. /\ groupRow' = [ g \in Groups |-> IF OnBoard(e, g) THEN group[e][g] ELSE groupRow[g] ]
          /\ epc[e] = "worktrees"
      BY <2>2 DEF CreateWorktrees
    <3>2. groupRow' \in [Groups -> GroupState]
      <4>1. \A g \in Groups : group[e][g] \in GroupState /\ groupRow[g] \in GroupState
        BY <1>1 DEF EarnedTypes
      <4> QED BY <3>1, <4>1
    <3>3. ASSUME NEW g \in Groups, groupRow'[g].status = "completed"
          PROVE  g \in finished'
      <4>1. CASE groupRow'[g] = groupRow[g]
        BY <1>1, <3>3, <4>1 DEF RowsEarned, Grows
      <4>2. CASE groupRow'[g] = group[e][g]
        BY <1>1, <3>1, <3>3, <4>2 DEF EarnedOf, CallEarned, GroupEarned, Grows
      <4> QED BY <3>1, <4>1, <4>2
    <3> QED BY <3>2, <3>3
  <2> QED BY <2>1, <2>2 DEF LoadFails, SaveNewBoard, BoardBuilt, BreakerTripped, Finalize, tables
<1>6. ASSUME delivered' \subseteq finished',
             env' \in [Executors -> {"none", "blocked", "done"}],
             \A x \in Executors \ {e} : env'[x] = env[x], CallEarned(e)',
             NEW pc \in {"idle", "rows", "worktrees", "begin"}, epc' = [epc EXCEPT ![e] = pc],
             pc # "idle" => epc[e] \notin {"groups", "idle"}
      PROVE  EarnedInv'
  <2>1. EarnedTypes'
    BY <1>1, <1>2, <1>5, <1>6 DEF EarnedTypes
  <2>2. RowsEarned'
    BY <1>3, <1>5, <1>6 DEF RowsEarned
  <2>3. epc \in [Executors -> {"idle", "new", "rows", "worktrees", "begin", "groups"}]
    BY <1>1 DEF DagTypes
  <2> QED BY <1>1, <1>2, <1>4, <1>6, <2>1, <2>2, <2>3, CallMoves
<1>7. ASSUME ReturnBlocked(e), UNCHANGED delivered PROVE EarnedInv'
  <2>1. /\ epc' = [epc EXCEPT ![e] = "idle"] /\ env' = [env EXCEPT ![e] = "blocked"]
    BY <1>7 DEF ReturnBlocked
  <2>2. /\ env' \in [Executors -> {"none", "blocked", "done"}] /\ env'[e] = "blocked"
        /\ \A x \in Executors \ {e} : env'[x] = env[x]
    BY <1>1, <2>1 DEF EarnedTypes
  <2>3. CallEarned(e)' /\ delivered' \subseteq finished'
    <3>1. epc'[e] = "idle"
      BY <1>1, <2>1 DEF DagTypes
    <3> QED BY <1>1, <1>7, <2>2, <3>1 DEF CallEarned, RowsEarned, Grows
  <2> QED BY <1>6, <2>1, <2>2, <2>3
<1>8. ASSUME NEW pc \in {"rows", "worktrees", "begin"}, epc' = [epc EXCEPT ![e] = pc],
             UNCHANGED << env, delivered >>, epc[e] \in {"new", "rows", "worktrees"}
      PROVE  EarnedInv'
  <2>1. env[e] # "done" /\ ~tripped[e]
    BY <1>1, <1>8 DEF EarnedOf, CallEarned
  <2>2. CallEarned(e)' /\ delivered' \subseteq finished'
    BY <1>1, <1>2, <1>8, <2>1 DEF CallEarned, RowsEarned, Grows
  <2>3. env' \in [Executors -> {"none", "blocked", "done"}]
    BY <1>1, <1>8 DEF EarnedTypes
  <2> QED BY <1>6, <1>8, <2>2, <2>3
<1>9. CASE LoadFails(e) \/ BreakerTripped(e)
  BY <1>7, <1>9 DEF LoadFails, BreakerTripped
<1>10. CASE SaveNewBoard(e)
  <2>1. epc[e] = "new" /\ UNCHANGED delivered
    BY <1>10 DEF SaveNewBoard
  <2> QED BY <1>7, <1>8, <1>10, <2>1 DEF SaveNewBoard
<1>11. CASE BoardBuilt(e)
  BY <1>8, <1>11 DEF BoardBuilt, returned
<1>12. CASE CreateWorktrees(e)
  <2>1. epc[e] = "worktrees" /\ UNCHANGED delivered
    BY <1>12 DEF CreateWorktrees
  <2> QED BY <1>7, <1>8, <1>12, <2>1 DEF CreateWorktrees
<1>13. CASE Finalize(e)
  <2>1. /\ GroupsOver(e) /\ ~tripped[e] /\ epc' = [epc EXCEPT ![e] = "idle"]
        /\ env' = [env EXCEPT ![e] = IF HasFailure(e) THEN "blocked" ELSE "done"]
    BY <1>13 DEF Finalize
  <2>2. PICK copied \in SUBSET Deliverable(e) : delivered' = delivered \cup copied
    BY <1>13 DEF Finalize
  <2>3. ASSUME NEW g \in Groups, res[e][g] = "ok" PROVE g \in finished'
    <3>1. gpc[e][g] # "finish" /\ GroupEarned(e, g)
      BY <1>1, <1>4 DEF EarnedOf
    <3> QED BY <1>1, <2>1, <2>3, <3>1 DEF GroupEarned, Grows
  <2>4. delivered' \subseteq finished'
    <3>1. copied \subseteq finished'
      BY <2>3 DEF Deliverable
    <3> QED BY <1>1, <2>2, <3>1 DEF RowsEarned, Grows
  <2>5. PICK r \in {"blocked", "done"} : r = IF HasFailure(e) THEN "blocked" ELSE "done"
    OBVIOUS
  <2>6. /\ env' \in [Executors -> {"none", "blocked", "done"}] /\ env'[e] = r
        /\ \A x \in Executors \ {e} : env'[x] = env[x]
    BY <1>1, <2>1, <2>5 DEF EarnedTypes
  <2>7. ASSUME env'[e] = "done", NEW g \in Groups, group'[e][g].status # "absent"
        PROVE  g \in finished'
    <3>1. res[e][g] # "failed"
      BY <2>5, <2>6, <2>7 DEF HasFailure, FailedGroups
    <3>2. epc[e] = "groups" /\ group[e][g].status # "absent" /\ GroupEarned(e, g)
      BY <1>1, <1>2, <2>1, <2>7 DEF GroupsOver, EarnedOf
    <3>3. gpc[e][g] = "over" /\ res[e][g] # "none"
      BY <1>4, <2>1, <3>2 DEF GroupEarned
    <3>4. res[e][g] \in {"none", "ok", "failed"}
      BY <1>1 DEF DagTypes
    <3> QED BY <2>3, <3>1, <3>3, <3>4
  <2>8. epc'[e] = "idle"
    BY <1>1, <2>1 DEF DagTypes
  <2>9. CallEarned(e)'
    BY <2>7, <2>8 DEF CallEarned
  <2> QED BY <1>6, <2>1, <2>4, <2>6, <2>9
<1> QED BY <1>9, <1>10, <1>11, <1>12, <1>13

(* A row of a new board: a pending group or task claims nothing.           *)
LEMMA RowBuilt ==
  ASSUME EarnedInv, DagInv, Record, NEW e \in Executors, BuildRow(e)
  PROVE  EarnedInv'
<1> DEFINE r == RowSeq[next[e]]
<1>1. /\ EarnedTypes /\ RowsEarned /\ EarnedOf(e) /\ Grows /\ tries' \in [Tasks -> Nat]
      /\ DagTypes /\ DagOf(e)
  BY Growth DEF EarnedInv, DagInv
<1>2. /\ epc[e] = "rows" /\ UNCHANGED << gpc, res, tpc, got, out, tripped, delivered >>
  BY DEF BuildRow, groupVars, taskVars, breaker
<1>3. /\ \A g \in Groups : gpc[e][g] = "off" /\ res[e][g] = "none"
      /\ \A t \in Tasks : tpc[e][t] = "off"
      /\ env[e] # "done" /\ ~tripped[e]
  BY <1>1, <1>2 DEF DagOf, Quiet, EarnedOf, TaskEarned, CallEarned
<1>4. CASE ReturnBlocked(e) /\ UNCHANGED << task, taskRow, group, groupRow >>
  <2>1. epc' = [epc EXCEPT ![e] = "idle"] /\ env' = [env EXCEPT ![e] = "blocked"]
    BY <1>4 DEF ReturnBlocked
  <2>2. /\ env' \in [Executors -> {"none", "blocked", "done"}] /\ env'[e] = "blocked"
        /\ \A x \in Executors \ {e} : env'[x] = env[x]
        /\ epc'[e] = "idle"
    BY <1>1, <2>1 DEF EarnedTypes, DagTypes
  <2>3. EarnedTypes'
    BY <1>1, <1>2, <1>4, <2>2 DEF EarnedTypes
  <2>4. RowsEarned'
    <3>1. \A t \in Tasks : Credible(t, taskRow[t])'
      BY <1>1, <1>4, RowsStay
    <3> QED BY <1>1, <1>2, <1>4, <3>1 DEF RowsEarned, Grows
  <2>5. CallEarned(e)'
    BY <2>2 DEF CallEarned
  <2>6. epc \in [Executors -> {"idle", "new", "rows", "worktrees", "begin", "groups"}]
    BY <1>1 DEF DagTypes
  <2> QED BY <1>1, <1>2, <1>3, <1>4, <2>1, <2>2, <2>3, <2>4, <2>5, <2>6, CallMoves
<1>5. ASSUME NEW g \in Groups, UNCHANGED << task, taskRow, epc, env >>,
             group' = [group EXCEPT ![e][g] = NewGroup], groupRow' = [groupRow EXCEPT ![g] = NewGroup]
      PROVE  EarnedInv'
  <2>1. NewGroup \in GroupState /\ NewGroup.status = "pending"
    BY SMT DEF NewGroup, GroupState, GroupStatuses, BuildStatuses
  <2>2. /\ \A x \in Executors \ {e} : group'[x] = group[x]
        /\ \A h \in Groups : group'[e][h] = group[e][h] \/ group'[e][h].status = "pending"
        /\ \A h \in Groups : groupRow'[h] = groupRow[h] \/ groupRow'[h].status = "pending"
    BY <1>1, <1>5, <2>1 DEF EarnedTypes
  <2>3. EarnedTypes'
    BY <1>1, <1>2, <1>5, <2>1 DEF EarnedTypes
  <2>4. RowsEarned'
    <3>1. \A t \in Tasks : Credible(t, taskRow[t])'
      BY <1>1, <1>5, RowsStay
    <3> QED BY <1>1, <1>2, <2>2, <3>1 DEF RowsEarned, Grows
  <2>5. ASSUME NEW h \in Groups PROVE GroupEarned(e, h)'
    <3>1. GroupEarned(e, h)
      BY <1>1 DEF EarnedOf
    <3>2. ~tripped[e] /\ group'[e][h].status = "completed" => h \in finished'
      BY <1>1, <2>2, <3>1 DEF GroupEarned, Grows
    <3> QED BY <1>2, <1>3, <1>5, <3>2 DEF GroupEarned
  <2>6. ASSUME NEW t \in Tasks PROVE TaskEarned(e, t)'
    <3>1. TaskEarned(e, t)
      BY <1>1 DEF EarnedOf
    <3> QED BY <1>1, <1>2, <1>3, <1>5, <3>1, TaskStays
  <2>7. CallEarned(e)'
    BY <1>2, <1>3, <1>5 DEF CallEarned
  <2>8. EarnedOf(e)'
    BY <2>5, <2>6, <2>7 DEF EarnedOf
  <2> QED BY <1>1, <1>2, <1>5, <2>2, <2>3, <2>4, <2>8, OthersStay
<1>6. ASSUME NEW t \in Tasks, UNCHANGED << group, groupRow, epc, env >>,
             task' = [task EXCEPT ![e][t] = NewTask], taskRow' = [taskRow EXCEPT ![t] = NewTask]
      PROVE  EarnedInv'
  <2>1. NewTask \in TaskState /\ NewTask.status = "pending" /\ NewTask.attempts = 0
    BY SMT DEF NewTask, TaskState, TaskStatuses
  <2>2. /\ \A x \in Executors \ {e} : task'[x] = task[x]
        /\ \A u \in Tasks \ {t} : task'[e][u] = task[e][u] /\ taskRow'[u] = taskRow[u]
        /\ task'[e][t] = NewTask /\ taskRow'[t] = NewTask
    BY <1>1, <1>6 DEF EarnedTypes
  <2>3. EarnedTypes'
    BY <1>1, <1>2, <1>6, <2>1 DEF EarnedTypes
  <2>4. 0 <= tries'[t]
    <3>1. tries'[t] \in Nat
      BY <1>1
    <3> QED BY SMT, <3>1
  <2>5. RowsEarned'
    <3>1. ASSUME NEW u \in Tasks PROVE Credible(u, taskRow[u])'
      <4>1. CASE u = t
        BY <2>1, <2>2, <2>4, <4>1 DEF Credible
      <4>2. CASE u # t
        BY <1>1, <2>2, <4>2, RowsStay
      <4> QED BY <4>1, <4>2
    <3> QED BY <1>1, <1>2, <1>6, <3>1 DEF RowsEarned, Grows
  <2>6. ASSUME NEW h \in Groups PROVE GroupEarned(e, h)'
    <3>1. GroupEarned(e, h)
      BY <1>1 DEF EarnedOf
    <3>2. ~tripped[e] /\ group'[e][h].status = "completed" => h \in finished'
      BY <1>1, <1>6, <3>1 DEF GroupEarned, Grows
    <3> QED BY <1>2, <1>3, <1>6, <3>2 DEF GroupEarned
  <2>7. ASSUME NEW u \in Tasks PROVE TaskEarned(e, u)'
    <3>1. TaskEarned(e, u)
      BY <1>1 DEF EarnedOf
    <3>2. CASE u = t
      <4>1. tpc'[e][u] = "off" /\ (out'[e][u] = "true" => u \in succeeded')
        BY <1>1, <1>2, <1>3, <3>1 DEF TaskEarned, Grows
      <4> QED BY <2>1, <2>2, <2>4, <3>2, <4>1 DEF TaskEarned, Credible
    <3>3. CASE u # t
      BY <1>1, <1>2, <1>3, <2>2, <3>1, <3>3, TaskStays
    <3> QED BY <3>2, <3>3
  <2>8. CallEarned(e)'
    BY <1>2, <1>3, <1>6 DEF CallEarned
  <2>9. EarnedOf(e)'
    BY <2>6, <2>7, <2>8 DEF EarnedOf
  <2> QED BY <1>1, <1>2, <1>6, <2>2, <2>3, <2>5, <2>9, OthersStay
<1>7. CASE r \in Groups /\ group' = [group EXCEPT ![e][r] = NewGroup]
           /\ groupRow' = [groupRow EXCEPT ![r] = NewGroup] /\ UNCHANGED << task, taskRow, epc, env >>
  <2>1. PICK g \in Groups : g = r
    BY <1>7
  <2> QED BY <1>5, <1>7, <2>1
<1>8. CASE r \in Tasks /\ task' = [task EXCEPT ![e][r] = NewTask]
           /\ taskRow' = [taskRow EXCEPT ![r] = NewTask] /\ UNCHANGED << group, groupRow, epc, env >>
  <2>1. PICK t \in Tasks : t = r
    BY <1>8
  <2> QED BY <1>6, <1>8, <2>1
<1> QED BY <1>4, <1>7, <1>8 DEF BuildRow

(* The goroutines of the groups start.                                     *)
LEMMA BoardStarts ==
  ASSUME EarnedInv, DagInv, Record, NEW e \in Executors, StartBoard(e)
  PROVE  EarnedInv'
<1>1. /\ EarnedTypes /\ RowsEarned /\ EarnedOf(e) /\ Grows /\ tries' \in [Tasks -> Nat]
      /\ DagTypes /\ DagOf(e)
  BY Growth DEF EarnedInv, DagInv
<1>2. /\ epc[e] = "begin"
      /\ UNCHANGED << groupRow, taskRow, group, task, res, tpc, got, out, tripped, delivered >>
  BY DEF StartBoard, taskVars, breaker
<1>3. /\ \A g \in Groups : gpc[e][g] = "off" /\ res[e][g] = "none"
      /\ env[e] # "done"
  BY <1>1, <1>2 DEF DagOf, Quiet, EarnedOf, CallEarned
<1>4. RowsEarned'
  <2>1. \A t \in Tasks : Credible(t, taskRow[t])'
    BY <1>1, <1>2, RowsStay
  <2> QED BY <1>1, <1>2, <2>1 DEF RowsEarned, Grows
<1>5. CASE ReturnBlocked(e) /\ UNCHANGED gpc
  <2>1. epc' = [epc EXCEPT ![e] = "idle"] /\ env' = [env EXCEPT ![e] = "blocked"]
    BY <1>5 DEF ReturnBlocked
  <2>2. /\ env' \in [Executors -> {"none", "blocked", "done"}] /\ env'[e] = "blocked"
        /\ \A x \in Executors \ {e} : env'[x] = env[x]
        /\ epc'[e] = "idle"
    BY <1>1, <2>1 DEF EarnedTypes, DagTypes
  <2>3. EarnedTypes'
    BY <1>1, <1>2, <2>2 DEF EarnedTypes
  <2>4. CallEarned(e)'
    BY <2>2 DEF CallEarned
  <2>5. epc \in [Executors -> {"idle", "new", "rows", "worktrees", "begin", "groups"}]
    BY <1>1 DEF DagTypes
  <2> QED BY <1>1, <1>2, <1>3, <1>4, <1>5, <2>1, <2>2, <2>3, <2>4, <2>5, CallMoves
<1>6. CASE /\ epc' = [epc EXCEPT ![e] = "groups"] /\ UNCHANGED env
           /\ gpc' = [gpc EXCEPT ![e] =
                        [ g \in Groups |-> IF OnBoard(e, g) THEN "wait" ELSE "off" ]]
  <2>1. /\ epc'[e] = "groups" /\ \A x \in Executors \ {e} : epc'[x] = epc[x] /\ gpc'[x] = gpc[x]
        /\ gpc'[e] = [ g \in Groups |-> IF OnBoard(e, g) THEN "wait" ELSE "off" ]
    BY <1>1, <1>6 DEF DagTypes
  <2>2. EarnedTypes'
    BY <1>1, <1>2, <1>6 DEF EarnedTypes
  <2>3. ASSUME NEW g \in Groups PROVE GroupEarned(e, g)'
    <3>1. /\ gpc'[e][g] \in {"wait", "off"} /\ res'[e][g] = "none"
          /\ gpc'[e][g] = "off" => group'[e][g].status = "absent"
      BY <1>2, <1>3, <2>1 DEF OnBoard
    <3>2. ~tripped[e] /\ group'[e][g].status = "completed" => g \in finished'
      BY <1>1, <1>2 DEF EarnedOf, GroupEarned, Grows
    <3> QED BY <1>2, <2>1, <3>1, <3>2 DEF GroupEarned
  <2>4. ASSUME NEW t \in Tasks PROVE TaskEarned(e, t)'
    <3>1. TaskEarned(e, t)
      BY <1>1 DEF EarnedOf
    <3> QED BY <1>1, <1>2, <2>1, <3>1, TaskStays
  <2>5. CallEarned(e)'
    BY <1>3, <1>6, <2>1 DEF CallEarned
  <2>6. EarnedOf(e)'
    BY <2>3, <2>4, <2>5 DEF EarnedOf
  <2> QED BY <1>1, <1>2, <1>4, <1>6, <2>1, <2>2, <2>6, OthersStay
<1> QED BY <1>5, <1>6 DEF StartBoard

(* A call without goroutines whose copies have been earned.                *)
LEMMA NewCall ==
  ASSUME NEW e \in Executors, env'[e] # "done", epc'[e] # "groups", ~tripped'[e],
         \A g \in Groups : /\ gpc'[e][g] = "off" /\ res'[e][g] = "none"
                           /\ group'[e][g].status = "completed" => g \in finished',
         \A t \in Tasks : tpc'[e][t] = "off" /\ out'[e][t] = "none" /\ Credible(t, task[e][t])'
  PROVE  EarnedOf(e)'
<1>1. \A g \in Groups : GroupEarned(e, g)'
  BY DEF GroupEarned
<1>2. \A t \in Tasks : TaskEarned(e, t)'
  BY DEF TaskEarned
<1> QED BY <1>1, <1>2 DEF EarnedOf, CallEarned

(* What is not there claims nothing.                                       *)
LEMMA NothingThere ==
  /\ NoGroup \in GroupState /\ NoGroup.status = "absent"
  /\ NoTask \in TaskState /\ NoTask.status = "absent" /\ NoTask.attempts = 0
<1>1. NoGroup \in GroupState /\ NoGroup.status = "absent"
  BY SMT DEF NoGroup, GroupState, GroupStatuses, BuildStatuses
<1>2. NoTask \in TaskState /\ NoTask.status = "absent" /\ NoTask.attempts = 0
  BY SMT DEF NoTask, TaskState, TaskStatuses
<1> QED BY <1>1, <1>2

(* A call starts with the rows as its copies, or with nothing.             *)
LEMMA CallStarts ==
  ASSUME EarnedInv, DagInv, Record, NEW e \in Executors, Execute(e)
  PROVE  EarnedInv'
<1>1. /\ EarnedTypes /\ RowsEarned /\ Grows /\ tries' \in [Tasks -> Nat] /\ DagTypes
  BY Growth DEF EarnedInv, DagInv
<1>2. /\ UNCHANGED << groupRow, taskRow, delivered >>
      /\ gpc' = [gpc EXCEPT ![e] = [ g \in Groups |-> "off" ]]
      /\ res' = [res EXCEPT ![e] = [ g \in Groups |-> "none" ]]
      /\ tpc' = [tpc EXCEPT ![e] = [ t \in Tasks |-> "off" ]]
      /\ got' = [got EXCEPT ![e] = [ t \in Tasks |-> "none" ]]
      /\ out' = [out EXCEPT ![e] = [ t \in Tasks |-> "none" ]]
      /\ tripped' = [tripped EXCEPT ![e] = FALSE]
      /\ env' = [env EXCEPT ![e] = "none"]
  BY DEF Execute, FreshCall, tables
<1>3. PICK pc \in {"worktrees", "new"} : epc' = [epc EXCEPT ![e] = pc]
  BY DEF Execute
<1>4. PICK gs \in {groupRow, [ g \in Groups |-> NoGroup ]}, ts \in {taskRow, [ t \in Tasks |-> NoTask ]} :
        group' = [group EXCEPT ![e] = gs] /\ task' = [task EXCEPT ![e] = ts]
  BY DEF Execute
<1>5. gs \in [Groups -> GroupState] /\ ts \in [Tasks -> TaskState]
  BY <1>1, NothingThere DEF EarnedTypes
<1>6. EarnedTypes'
  <2>1. group' \in [Executors -> [Groups -> GroupState]] /\ task' \in [Executors -> [Tasks -> TaskState]]
    BY <1>1, <1>4, <1>5 DEF EarnedTypes
  <2>2. tpc' \in [Executors -> [Tasks -> TaskPCs]]
    BY <1>1, <1>2 DEF EarnedTypes, TaskPCs
  <2>3. /\ got' \in [Executors -> [Tasks -> {"none", "ok", "fail", "quota"}]]
        /\ out' \in [Executors -> [Tasks -> {"none", "true", "false"}]]
    BY <1>1, <1>2 DEF EarnedTypes
  <2>4. /\ tripped' \in [Executors -> BOOLEAN]
        /\ env' \in [Executors -> {"none", "blocked", "done"}]
    BY <1>1, <1>2 DEF EarnedTypes
  <2> QED BY <1>1, <1>2, <2>1, <2>2, <2>3, <2>4 DEF EarnedTypes
<1>7. /\ \A g \in Groups : gpc'[e][g] = "off" /\ res'[e][g] = "none"
      /\ \A t \in Tasks : tpc'[e][t] = "off" /\ out'[e][t] = "none"
      /\ ~tripped'[e] /\ env'[e] = "none" /\ epc'[e] \in {"worktrees", "new"}
      /\ group'[e] = gs /\ task'[e] = ts
  BY <1>1, <1>2, <1>3, <1>4 DEF EarnedTypes, DagTypes
<1>8. \A x \in Executors \ {e} :
        /\ epc'[x] = epc[x] /\ group'[x] = group[x] /\ task'[x] = task[x]
        /\ gpc'[x] = gpc[x] /\ res'[x] = res[x] /\ env'[x] = env[x]
        /\ tpc'[x] = tpc[x] /\ got'[x] = got[x] /\ out'[x] = out[x]
        /\ tripped'[x] <=> tripped[x]
  BY <1>1, <1>2, <1>3, <1>4 DEF EarnedTypes, DagTypes
<1>9. \A t \in Tasks : Credible(t, taskRow[t])'
  BY <1>1, <1>2, RowsStay
<1>10. RowsEarned'
  BY <1>1, <1>2, <1>9 DEF RowsEarned, Grows
<1>11. ASSUME NEW g \in Groups PROVE group'[e][g].status = "completed" => g \in finished'
  <2>1. CASE gs = groupRow
    BY <1>1, <1>7, <2>1 DEF RowsEarned, Grows
  <2>2. CASE gs = [ h \in Groups |-> NoGroup ]
    <3>1. gs[g] = NoGroup
      BY SMT, <2>2
    <3>2. group'[e][g] = gs[g]
      BY <1>7
    <3> QED BY <3>1, <3>2, NothingThere
  <2> QED BY <1>4, <2>1, <2>2
<1>12. ASSUME NEW t \in Tasks PROVE Credible(t, task[e][t])'
  <2>1. CASE ts = taskRow
    BY <1>2, <1>7, <1>9, <2>1 DEF Credible
  <2>2. CASE ts = [ u \in Tasks |-> NoTask ]
    <3>1. 0 <= tries'[t]
      <4>1. tries'[t] \in Nat
        BY <1>1
      <4> QED BY SMT, <4>1
    <3>2. ts[t] = NoTask
      BY SMT, <2>2
    <3>3. task'[e][t] = ts[t]
      BY <1>7
    <3>4. task'[e][t] = NoTask
      BY <3>2, <3>3
    <3> QED BY <3>1, <3>4, NothingThere DEF Credible
  <2> QED BY <1>4, <2>1, <2>2
<1>13. EarnedOf(e)'
  BY <1>7, <1>11, <1>12, NewCall
<1> QED BY <1>1, <1>6, <1>8, <1>10, <1>13, OthersStay

(* A crash forgets the copies; the rows stay.                              *)
LEMMA CrashEarned ==
  ASSUME EarnedInv, DagInv, Record, Crash
  PROVE  EarnedInv'
<1>1. /\ EarnedTypes /\ RowsEarned /\ Grows /\ tries' \in [Tasks -> Nat]
  BY Growth DEF EarnedInv
<1>2. /\ UNCHANGED << groupRow, taskRow, delivered >>
      /\ group' = [ e \in Executors |-> [ g \in Groups |-> NoGroup ] ]
      /\ task' = [ e \in Executors |-> [ t \in Tasks |-> NoTask ] ]
      /\ gpc' = [ e \in Executors |-> [ g \in Groups |-> "off" ] ]
      /\ res' = [ e \in Executors |-> [ g \in Groups |-> "none" ] ]
      /\ tpc' = [ e \in Executors |-> [ t \in Tasks |-> "off" ] ]
      /\ got' = [ e \in Executors |-> [ t \in Tasks |-> "none" ] ]
      /\ out' = [ e \in Executors |-> [ t \in Tasks |-> "none" ] ]
      /\ epc' = [ e \in Executors |-> "idle" ]
      /\ tripped' = [ e \in Executors |-> FALSE ]
      /\ env' = [ e \in Executors |-> "none" ]
  BY DEF Crash, tables
<1>3. EarnedTypes'
  <2>1. group' \in [Executors -> [Groups -> GroupState]] /\ task' \in [Executors -> [Tasks -> TaskState]]
    BY <1>2, NothingThere
  <2>2. tpc' \in [Executors -> [Tasks -> TaskPCs]]
    BY <1>2 DEF TaskPCs
  <2>3. /\ got' \in [Executors -> [Tasks -> {"none", "ok", "fail", "quota"}]]
        /\ out' \in [Executors -> [Tasks -> {"none", "true", "false"}]]
    BY <1>2
  <2>4. /\ tripped' \in [Executors -> BOOLEAN]
        /\ env' \in [Executors -> {"none", "blocked", "done"}]
    BY <1>2
  <2> QED BY <1>1, <1>2, <2>1, <2>2, <2>3, <2>4 DEF EarnedTypes
<1>4. RowsEarned'
  <2>1. \A t \in Tasks : Credible(t, taskRow[t])'
    BY <1>1, <1>2, RowsStay
  <2> QED BY <1>1, <1>2, <2>1 DEF RowsEarned, Grows
<1>5. ASSUME NEW e \in Executors PROVE EarnedOf(e)'
  <2>1. /\ env'[e] # "done" /\ epc'[e] # "groups" /\ ~tripped'[e]
        /\ \A g \in Groups : /\ gpc'[e][g] = "off" /\ res'[e][g] = "none"
                             /\ group'[e][g].status # "completed"
    BY <1>2, NothingThere
  <2>2. ASSUME NEW t \in Tasks
        PROVE  tpc'[e][t] = "off" /\ out'[e][t] = "none" /\ Credible(t, task[e][t])'
    <3>1. 0 <= tries'[t]
      <4>1. tries'[t] \in Nat
        BY <1>1
      <4> QED BY SMT, <4>1
    <3>2. task'[e][t] = NoTask /\ tpc'[e][t] = "off" /\ out'[e][t] = "none"
      BY <1>2
    <3> QED BY <3>1, <3>2, NothingThere DEF Credible
  <2> QED BY <2>1, <2>2, NewCall
<1> QED BY <1>3, <1>4, <1>5 DEF EarnedInv

(* Steps that leave the board and its goroutines alone.                    *)
LEMMA BoardAlone ==
  ASSUME EarnedInv, Grows, tries' \in [Tasks -> Nat],
         UNCHANGED << groupRow, taskRow, delivered, epc, group, task, gpc, res, tpc, got,
                      out, tripped, env >>
  PROVE  EarnedInv'
<1>1. EarnedTypes /\ RowsEarned
  BY DEF EarnedInv
<1>2. EarnedTypes'
  BY <1>1 DEF EarnedTypes
<1>3. RowsEarned'
  <2>1. \A t \in Tasks : Credible(t, taskRow[t])'
    BY RowsStay
  <2> QED BY <1>1, <2>1 DEF RowsEarned, Grows
<1>4. ASSUME NEW e \in Executors PROVE EarnedOf(e)'
  <2>1. EarnedOf(e)
    BY DEF EarnedInv
  <2>2. CallEarned(e)'
    BY <2>1 DEF EarnedOf, CallEarned, Grows
  <2>3. ASSUME NEW g \in Groups PROVE GroupEarned(e, g)'
    <3>1. TasksOn(e, g)' = TasksOn(e, g)
      BY DEF TasksOn
    <3>2. GroupEarned(e, g)
      BY <2>1 DEF EarnedOf
    <3> QED BY <3>1, <3>2, GroupStays
  <2>4. ASSUME NEW t \in Tasks PROVE TaskEarned(e, t)'
    <3>1. TaskEarned(e, t)
      BY <2>1 DEF EarnedOf
    <3> QED BY <1>1, <3>1, TaskStays
  <2> QED BY <2>2, <2>3, <2>4 DEF EarnedOf
<1> QED BY <1>2, <1>3, <1>4 DEF EarnedInv

(* The copies and the rows have been earned in every reachable state.      *)
THEOREM EarnedInvCorrect == Spec => []EarnedInv
<1>1. ASSUME Init PROVE EarnedInv
  <2>1. /\ groupRow \in [Groups -> GroupState] /\ taskRow \in [Tasks -> TaskState]
        /\ group \in [Executors -> [Groups -> GroupState]]
        /\ task \in [Executors -> [Tasks -> TaskState]]
    BY <1>1, NothingThere DEF Init
  <2>2. tpc \in [Executors -> [Tasks -> TaskPCs]]
    BY <1>1 DEF Init, TaskPCs
  <2>3. /\ got \in [Executors -> [Tasks -> {"none", "ok", "fail", "quota"}]]
        /\ out \in [Executors -> [Tasks -> {"none", "true", "false"}]]
        /\ tripped \in [Executors -> BOOLEAN]
        /\ env \in [Executors -> {"none", "blocked", "done"}]
    BY <1>1 DEF Init
  <2>4. tries \in [Tasks -> Nat] /\ \A t \in Tasks : 0 <= tries[t]
    BY SMT, <1>1 DEF Init
  <2>5. EarnedTypes
    BY <2>1, <2>2, <2>3, <2>4 DEF EarnedTypes
  <2>6. \A t \in Tasks : Credible(t, NoTask)
    BY <2>4, NothingThere DEF Credible
  <2>7. RowsEarned
    BY <1>1, <2>6, NothingThere DEF Init, RowsEarned
  <2>8. ASSUME NEW e \in Executors PROVE EarnedOf(e)
    <3>1. /\ env[e] = "none" /\ epc[e] = "idle"
          /\ \A g \in Groups : gpc[e][g] = "off" /\ res[e][g] = "none" /\ group[e][g] = NoGroup
          /\ \A t \in Tasks : tpc[e][t] = "off" /\ out[e][t] = "none" /\ task[e][t] = NoTask
      BY <1>1 DEF Init
    <3>2. \A g \in Groups : GroupEarned(e, g)
      BY <3>1, NothingThere DEF GroupEarned
    <3>3. \A t \in Tasks : TaskEarned(e, t)
      BY <2>6, <3>1 DEF TaskEarned
    <3> QED BY <3>1, <3>2, <3>3 DEF EarnedOf, CallEarned
  <2> QED BY <2>5, <2>7, <2>8 DEF EarnedInv
<1>2. ASSUME EarnedInv, DagInv, [Next]_vars PROVE EarnedInv'
  <2>1. CASE UNCHANGED vars
    <3>1. /\ UNCHANGED << groupRow, taskRow, delivered, epc, group, task, gpc, res, tpc, got,
                          out, tripped, env >>
          /\ UNCHANGED << succeeded, tries, finished >>
      BY <2>1 DEF vars, tables, memory, groupVars, taskVars, breaker, returned, history
    <3>2. tries \in [Tasks -> Nat]
      BY <1>2 DEF EarnedInv, EarnedTypes
    <3>3. \A t \in Tasks : tries[t] <= tries[t]
      BY SMT, <3>2
    <3>4. Grows
      BY <3>1, <3>2, <3>3 DEF Grows
    <3> QED BY <1>2, <3>1, <3>2, <3>4, BoardAlone
  <2>2. ASSUME Record, NEW o \in Others, OtherAcquires(o) \/ OtherReleases(o)
        PROVE  EarnedInv'
    <3>1. Grows /\ tries' \in [Tasks -> Nat]
      BY <1>2, <2>2, Growth DEF EarnedInv
    <3>2. UNCHANGED << groupRow, taskRow, delivered, epc, group, task, gpc, res, tpc, got,
                       out, tripped, env >>
      BY <2>2 DEF OtherAcquires, OtherReleases, tables, memory, groupVars, taskVars, breaker, returned
    <3> QED BY <1>2, <3>1, <3>2, BoardAlone
  <2>3. ASSUME Record, NEW e \in Executors, LoadFails(e) \/ Execute(e) \/ MainStep(e)
        PROVE  EarnedInv'
    BY <1>2, <2>3, CallStarts, CallSteps, RowBuilt, BoardStarts DEF MainStep
  <2>4. ASSUME Record, NEW e \in Executors, NEW g \in Groups, GroupStep(e, g)
        PROVE  EarnedInv'
    BY <1>2, <2>4, GroupWaits, GroupStarts, GroupEnds DEF GroupStep
  <2>5. ASSUME Record, NEW e \in Executors, NEW t \in Tasks, TaskStep(e, t)
        PROVE  EarnedInv'
    BY <1>2, <2>5, TaskWaits, TaskAnswered, TaskRecorded DEF TaskStep
  <2>6. CASE Next
    BY <1>2, <2>2, <2>3, <2>4, <2>5, <2>6, CrashEarned DEF Next, Step
  <2> QED BY <1>2, <2>1, <2>6
<1> QED BY <1>1, <1>2, DagInvCorrect, PTL DEF Spec

(* No outcome is stored, delivered or reported that was not earned, for    *)
(* every board and any number of overlapping calls, failing saves, lost    *)
(* slots, trips of the breaker and crashes.                                *)
THEOREM OutcomesEarnedCorrect == Spec => []OutcomesEarned
<1>1. ASSUME EarnedInv PROVE OutcomesEarned
  <2>1. EarnedTypes /\ RowsEarned
    BY <1>1 DEF EarnedInv
  <2>2. ASSUME NEW t \in Tasks
        PROVE  /\ taskRow[t].status = "done" => t \in succeeded
               /\ taskRow[t].status = "blocked" => tries[t] >= MaxAttempts
    <3>1. Credible(t, taskRow[t])
      BY <2>1 DEF RowsEarned
    <3>2. taskRow[t] \in TaskState /\ tries[t] \in Nat
      BY <2>1 DEF EarnedTypes
    <3> QED BY SMT, <3>1, <3>2, MaxAttemptsAssumption DEF Credible, TaskState
  <2>3. ASSUME NEW e \in Executors, env[e] = "done", NEW g \in Groups, OnBoard(e, g)
        PROVE  g \in finished
    BY <1>1, <2>3 DEF EarnedInv, EarnedOf, CallEarned, OnBoard
  <2> QED BY <2>1, <2>2, <2>3 DEF OutcomesEarned, RowsEarned
<1> QED BY <1>1, EarnedInvCorrect, PTL
=============================================================================
