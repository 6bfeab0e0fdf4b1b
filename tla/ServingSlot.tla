----------------------------- MODULE ServingSlot -----------------------------
(***************************************************************************)
(* What promotion and rollback promise whoever serves predictions: each     *)
(* category has one slot, a promotion puts in a better model, and a         *)
(* rollback puts back the one the last change displaced.                    *)
(***************************************************************************)
CONSTANTS
    Categories, Models, None,
    Of(_),          \* a model's category
    MayServe(_, _)  \* whether a model may take a slot from its occupant, or from None

VARIABLES
    serving,    \* the model in each category's slot
    displaced   \* the model the last change of the slot took out

Init ==
    /\ serving = [c \in Categories |-> None]
    /\ displaced = [c \in Categories |-> None]

Place(c, m) ==
    /\ m # serving[c]
    /\ serving' = [serving EXCEPT ![c] = m]
    /\ displaced' = [displaced EXCEPT ![c] = serving[c]]

Promote(c) == \E m \in Models : Of(m) = c /\ MayServe(m, serving[c]) /\ Place(c, m)
Restore(c) == displaced[c] # None /\ Place(c, displaced[c])

Next == \E c \in Categories : Promote(c) \/ Restore(c)

Spec == Init /\ [][Next]_<<serving, displaced>>
=============================================================================
