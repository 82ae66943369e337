------------------------------ MODULE SlotPool ------------------------------
(***************************************************************************)
(* What the spawn governor promises its clients: a client works only while *)
(* it holds a slot, the stored counter covers every holder, and the        *)
(* counter never exceeds the limit.  A slot may be lost (the counter keeps *)
(* it although nobody holds it any more); it is never handed out twice.    *)
(***************************************************************************)
EXTENDS Integers, FiniteSets

CONSTANTS
  Clients,  \* whatever may hold a slot
  MaxSlots  \* the governor's limit

VARIABLES
  active,   \* spawn_governor_state.active_count
  holders   \* the clients that hold a slot

vars == << active, holders >>

Init == active = 0 /\ holders = {}

Take(c) ==
  /\ c \notin holders
  /\ active < MaxSlots
  /\ active' = active + 1
  /\ holders' = holders \cup {c}

Give(c) ==
  /\ c \in holders
  /\ active' = active - 1
  /\ holders' = holders \ {c}

(* A failed Release, or a crash that takes several holders at once.        *)
Lose == \E S \in SUBSET holders : holders' = S /\ UNCHANGED active

Next == Lose \/ \E c \in Clients : Take(c) \/ Give(c)

Spec == Init /\ [][Next]_vars

(* Every holder is counted, and the counter stays within the limit.        *)
Covered ==
  /\ IsFiniteSet(holders)
  /\ Cardinality(holders) <= active
  /\ active <= MaxSlots
=============================================================================
