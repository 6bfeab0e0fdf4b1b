---------------------------- MODULE MCDeployment ----------------------------
(* Deployment on three or four models of one or two categories, for TLC. *)
EXTENDS Deployment, TLC

CONSTANTS bottle, cable, b1, b2, b3, c1

Table(v1, v2, v3, v4) == [m \in Models |->
    CASE m = b1 -> v1 [] m = b2 -> v2 [] m = b3 -> v3 [] m = c1 -> v4]

MCCategoryOf == Table(bottle, bottle, bottle, cable)
MCCreated == Table(1, 2, 3, 4)
MCAuroc == Table(940, 975, 980, 935)
MCRecall == Table(900, 890, 895, 900)

CallSymmetry == Permutations(Sessions)

Promotions == {[op |-> "promote", category |-> CategoryOf[m], model |-> m] : m \in Models}
DefaultRollbacks == {[op |-> "rollback", category |-> c, model |-> None] : c \in Categories}
NamedRollback == [op |-> "rollback", category |-> CategoryOf[b3], model |-> b3]
MCCommands == Promotions \cup DefaultRollbacks
MCAllCommands == MCCommands \cup {NamedRollback}
=============================================================================
