---------------------------- MODULE MCServing ----------------------------
(* Serving on three requests for one category, for TLC. *)
EXTENDS Serving

CONSTANTS r1, r2, r3, bottle
MCRequests == {r1, r2, r3}
MCCategoryOf == [x \in Requests \cup Versions |-> bottle]

\* Requests are alike, so it is enough to let them arrive in one order: a behaviour with
\* another order is this one with their names exchanged, and no fairness asks for arrivals.
InOneOrder ==
    /\ request'[r2].pc # "new" => request'[r1].pc # "new"
    /\ request'[r3].pc # "new" => request'[r2].pc # "new"
=============================================================================
