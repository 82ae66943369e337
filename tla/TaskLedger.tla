----------------------------- MODULE TaskLedger -----------------------------
(***************************************************************************)
(* What the board promises about its stored tasks across attempts, crashes *)
(* and resumed runs: a task appears once, only a pending task is claimed,  *)
(* an attempt adds one to its counter, after MaxAttempts failures it is    *)
(* blocked (Iron Law 5), and done and blocked are final.                   *)
(***************************************************************************)
EXTENDS ApplyAggregate

CONSTANT Tasks

VARIABLE rows

Init == rows = [ t \in Tasks |-> NoTask ]

Create(t) == rows[t] = NoTask /\ rows' = [rows EXCEPT ![t] = NewTask]

Claim(t) == rows[t] = NewTask /\ rows' = [rows EXCEPT ![t].status = "claimed"]

(* A save in the middle of the first attempt gives the claim back.         *)
Unclaim(t) == rows[t].status = "claimed" /\ rows' = [rows EXCEPT ![t] = NewTask]

Attempt(t) ==
  /\ rows[t].status \in {"pending", "claimed", "failed"}
  /\ \E success \in BOOLEAN : rows' = [rows EXCEPT ![t] = RecordAttempt(@, success)]

Next == \E t \in Tasks : Create(t) \/ Claim(t) \/ Unclaim(t) \/ Attempt(t)

Spec == Init /\ [][Next]_rows
=============================================================================
