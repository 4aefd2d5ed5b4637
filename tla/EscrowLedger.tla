---------------------------- MODULE EscrowLedger ----------------------------
(***************************************************************************)
(* What the money side of the server promises, whatever requests overlap:  *)
(*   - a charge is recorded whole, with its order and its amount, held, and *)
(*     only on an order that has not been erased;                          *)
(*   - afterwards only its status moves, and never back to held;           *)
(*   - a charge disappears only when its order is erased, and then every   *)
(*     charge of that order disappears in the same step.                   *)
(* It does not promise that a charge is settled once: the code may settle  *)
(* it again with the other verdict.                                        *)
(***************************************************************************)
CONSTANTS Charge, Order, Amount, Fresh, Deleted

VARIABLES
  entry,   \* the entry of each charge
  erased   \* orders that were deleted

vars == <<entry, erased>>

Recorded(c) == entry[c] \notin {Fresh, Deleted}

Init ==
  /\ entry = [c \in Charge |-> Fresh]
  /\ erased = {}

Hold(c, o, a) ==
  /\ entry[c] = Fresh
  /\ o \notin erased
  /\ entry' = [entry EXCEPT ![c] = [order |-> o, amount |-> a, status |-> "Held"]]
  /\ UNCHANGED erased

Settle(c, outcome) ==
  /\ Recorded(c)
  /\ entry' = [entry EXCEPT ![c].status = outcome]
  /\ UNCHANGED erased

Erase(O) ==
  /\ erased' = erased \cup O
  /\ entry' = [c \in Charge |->
                 IF Recorded(c) /\ entry[c].order \in O THEN Deleted ELSE entry[c]]

Next ==
  \/ \E c \in Charge, o \in Order, a \in Amount : Hold(c, o, a)
  \/ \E c \in Charge, outcome \in {"Released", "Refunded"} : Settle(c, outcome)
  \/ \E O \in SUBSET Order : Erase(O)

Spec == Init /\ [][Next]_vars
=============================================================================
