------------------------------ MODULE MCAccess ------------------------------
(* Access for TLC: three calls beside the first administrator's session, the administrator's *)
(* address and two spellings of another one. *)
EXTENDS Access, FiniteSets, TLC

CONSTANTS own, plain, capital
MCNormal == [a \in Addresses |-> IF a = own THEN own ELSE plain]
RootIsOwn == user[Root].email = own

\* Bound: the third call begins when one of the others is over.
TwoAtATime == Cardinality({c \in Calls : call'[c].pc \in Working}) <= 2

CallSymmetry == Permutations(Calls)

\* What later steps and the properties read of a call: nothing of one that was refused, or failed
\* and has revoked nothing; the address of one that was told of a conflict; the head until the
\* append, the role until the commit, and what had ended before a login or a refresh began.
Told(r) ==
    IF r.pc \in {"refused", "failed"} /\ r.kind # "logout" THEN <<r.pc>>
    ELSE IF r.pc = "conflict" THEN <<r.pc, Normal[r.address]>>
    ELSE [r EXCEPT !.head = IF r.pc = "append" THEN @ ELSE {},
                   !.ended = IF r.kind \in {"login", "refresh"} THEN @ ELSE {},
                   !.role = IF r.pc = "done" THEN 3 ELSE @]
CallView == <<user, [c \in Calls |-> Told(call[c])], revoked, audited, changes, faults>>
=============================================================================
