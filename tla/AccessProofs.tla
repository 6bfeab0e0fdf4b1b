---------------------------- MODULE AccessProofs ----------------------------
(***************************************************************************)
(* Proofs about Access: types, accounts and sessions, for any number of     *)
(* calls, addresses, changes and failures.                                  *)
(***************************************************************************)
EXTENDS Access, TLAPS

\* What begins a call, what goes on with one, and what the environment does.
Begins(c) ==
    CreateUser(c) \/ Register(c) \/ Use(c) \/ Login(c) \/ Refresh(c) \/ Logout(c)
Reads(c) ==
    \/ LookUp(c) \/ LoadUser(c) \/ Guard(c) \/ Mint(c) \/ FindEmail(c) \/ InsertUser(c)
    \/ FindUser(c) \/ SelectRevoked(c) \/ ReadHead(c) \/ AppendEvent(c)

-----------------------------------------------------------------------------
(* Types *)

\* Which kinds of calls get where, and what they hold there: a token stands for an account
\* that exists, and so does whatever a call names.
Holds(k) ==
    /\ k.who # None => user[k.who] # None
    /\ k.token # None => k.who # None
    /\ k.pc = "idle" => k.kind = "none"
    /\ k.pc \in {"load", "guard"} => k.kind \in {"register", "use", "refresh"} /\ k.token # None
    /\ k.pc = "guard" => k.kind # "refresh"
    /\ k.pc \in {"guard", "mint"} => k.seen # None
    /\ k.pc \in {"lookup", "mint"} => k.kind = "refresh" /\ k.token # None
    /\ k.pc \in {"merge", "revoke"} => k.kind = "logout" /\ k.token # None
    /\ k.pc = "find" => k.kind \in {"register", "login"}
    /\ k.pc \in {"insert", "conflict"} => k.kind = "register"
    /\ k.pc = "unknown" => k.kind = "login"
    /\ k.pc \in {"head", "append", "commit"} => k.kind \in {"register", "login", "logout"}
    /\ k.pc = "done" => k.kind # "none"
    /\ k.kind = "login" /\ k.pc \in {"head", "append", "commit", "done"} => k.who # None
    /\ k.kind \in {"refresh", "logout", "use"} => k.token # None
    /\ k.kind \in {"register", "login"} => k.address # None
    /\ k.kind = "register" => k.permission = "manage_users"

TypeInv == TypeOK /\ \A c \in Calls : Holds(call[c])

LEMMA TypeInit == Init => TypeInv
<1> SUFFICES ASSUME Init PROVE TypeInv OBVIOUS
<1>1. TypeOK
  <2> USE NamesAssumption, AddressesAssumption, RolesAssumption, BoundsAssumption DEF Init
  <2>0. PICK a \in Addresses : user = [u \in Users |-> IF u = Root THEN Row(a, 3) ELSE None]
    OBVIOUS
  <2>r. Row(a, 3) \in Rows BY DEF Rows, Row
  <2>n. Row(a, 3) # None BY <2>r, NoneAssumption
  <2>1. user \in [Users -> Rows \cup {None}] /\ user[Root] # None BY <2>0, <2>r, <2>n DEF Users
  <2>2. call \in [Calls -> Records] BY DEF Records, NewCall, Working
  <2>3. revoked \subseteq Issuers /\ audited \subseteq Calls OBVIOUS
  <2>4. changes \in 0..MaxChanges /\ faults \in 0..MaxFaults OBVIOUS
  <2> QED BY <2>1, <2>2, <2>3, <2>4 DEF TypeOK
<1>2. \A c \in Calls : Holds(call[c]) BY DEF Init, Holds, NewCall
<1> QED BY <1>1, <1>2 DEF TypeInv

\* A token that may be presented stands for an account.
LEMMA TokensHaveSubjects ==
    ASSUME TypeInv, NEW t \in AccessTokens
    PROVE  t \in Issuers /\ SubjectOf(t) \in Users /\ user[SubjectOf(t)] \in Rows
<1>1. CASE t = Session
  BY <1>1, NamesAssumption DEF TypeInv, TypeOK, SubjectOf, Users, Issuers
<1>2. CASE t # Session
  <2>1. t \in Calls /\ call[t].pc = "done" /\ call[t].kind \in {"login", "refresh"}
    BY <1>2 DEF AccessTokens, RefreshTokens, Done
  <2>2. call[t] \in Records /\ Holds(call[t]) BY <2>1 DEF TypeInv, TypeOK
  <2>3. call[t].who # None BY <2>1, <2>2 DEF Holds
  <2>4. call[t].who \in Users BY <2>2, <2>3 DEF Records
  <2>5. user[call[t].who] \in Rows BY <2>2, <2>3, <2>4 DEF Holds, TypeInv, TypeOK
  <2> QED BY <1>2, <2>1, <2>4, <2>5 DEF SubjectOf, Issuers
<1> QED BY <1>1, <1>2

\* A call that takes a typed and well formed state of its own leaves the rest as it is.
LEMMA OneCallMoves ==
    ASSUME TypeInv, NEW c \in Calls, NEW k \in Records, Holds(k),
           call' = [call EXCEPT ![c] = k],
           UNCHANGED <<user, revoked, audited, changes, faults>>
    PROVE  TypeInv'
<1>1. TypeOK' BY DEF TypeInv, TypeOK
<1>2. \A d \in Calls : Holds(call[d])' BY DEF TypeInv, TypeOK, Holds
<1> QED BY <1>1, <1>2 DEF TypeInv

LEMMA TypesWhenBegun == ASSUME TypeInv, NEW c \in Calls, Begins(c) PROVE TypeInv'
<1> USE RolesAssumption DEF Begin
<1>0. NewCall \in Records /\ Ended \in SUBSET Calls /\ "manage_users" \in Permissions
  BY DEF NewCall, Records, Working, Ended
<1>1. CASE CreateUser(c)
  <2>1. PICK a \in Addresses, r \in Roles :
          Begin(c, [NewCall EXCEPT !.kind = "register", !.pc = "find", !.address = a, !.role = r,
                                   !.ended = Ended]) BY <1>1 DEF CreateUser
  <2> DEFINE k == [NewCall EXCEPT !.kind = "register", !.pc = "find", !.address = a, !.role = r,
                                   !.ended = Ended]
  <2>2. k \in Records BY <1>0 DEF Records, Working
  <2>3. Holds(k) BY NamesAssumption DEF Holds, NewCall
  <2> QED BY <2>1, <2>2, <2>3, OneCallMoves
<1>2. ASSUME NEW kind \in {"register", "use"}, NEW p \in Permissions,
             NEW a \in Addresses \cup {None}, NEW r \in Roles, Present(c, kind, p, a, r),
             kind = "register" => a # None /\ p = "manage_users"
      PROVE  TypeInv'
  <2>1. PICK t \in AccessTokens :
          Begin(c, [NewCall EXCEPT !.kind = kind, !.pc = "load", !.token = t, !.address = a,
                                 !.role = r, !.permission = p, !.who = SubjectOf(t),
                                 !.since = user[SubjectOf(t)].rev, !.ended = Ended])
    BY <1>2 DEF Present
  <2> DEFINE k == [NewCall EXCEPT !.kind = kind, !.pc = "load", !.token = t, !.address = a,
                                 !.role = r, !.permission = p, !.who = SubjectOf(t),
                                 !.since = user[SubjectOf(t)].rev, !.ended = Ended]
  <2>2. t \in Issuers /\ SubjectOf(t) \in Users /\ user[SubjectOf(t)] \in Rows
    BY TokensHaveSubjects
  <2>3. user[SubjectOf(t)] # None /\ SubjectOf(t) # None /\ user[SubjectOf(t)].rev \in Nat
    BY <2>2, NamesAssumption, NoneAssumption DEF Rows
  <2>4. k \in Records BY <1>0, <2>2, <2>3 DEF Records, Working
  <2>5. Holds(k) BY <1>2, <2>2, <2>3, NamesAssumption DEF Holds, NewCall
  <2> QED BY <2>1, <2>4, <2>5, OneCallMoves
<1>3. CASE Register(c) BY <1>0, <1>2, <1>3, NamesAssumption DEF Register
<1>4. CASE Use(c) BY <1>0, <1>2, <1>4 DEF Use
<1>5. CASE Login(c)
  <2>1. PICK a \in Addresses :
          Begin(c, [NewCall EXCEPT !.kind = "login", !.pc = "find", !.address = a, !.ended = Ended])
    BY <1>5 DEF Login
  <2> DEFINE k == [NewCall EXCEPT !.kind = "login", !.pc = "find", !.address = a, !.ended = Ended]
  <2>2. k \in Records BY <1>0 DEF Records, Working
  <2>3. Holds(k) BY NamesAssumption DEF Holds, NewCall
  <2> QED BY <2>1, <2>2, <2>3, OneCallMoves
<1>6. CASE Refresh(c)
  <2>1. PICK t \in RefreshTokens :
          Begin(c, [NewCall EXCEPT !.kind = "refresh", !.pc = "lookup", !.token = t,
                                 !.who = SubjectOf(t), !.since = user[SubjectOf(t)].rev,
                                 !.ended = Ended])
    BY <1>6 DEF Refresh
  <2> DEFINE k == [NewCall EXCEPT !.kind = "refresh", !.pc = "lookup", !.token = t,
                                 !.who = SubjectOf(t), !.since = user[SubjectOf(t)].rev,
                                 !.ended = Ended]
  <2>2. t \in Issuers /\ SubjectOf(t) \in Users /\ user[SubjectOf(t)] \in Rows
    BY TokensHaveSubjects DEF AccessTokens
  <2>3. user[SubjectOf(t)] # None /\ SubjectOf(t) # None /\ user[SubjectOf(t)].rev \in Nat
    BY <2>2, NamesAssumption, NoneAssumption DEF Rows
  <2>4. k \in Records BY <1>0, <2>2, <2>3 DEF Records, Working
  <2>5. Holds(k) BY <2>2, <2>3, NamesAssumption DEF Holds, NewCall
  <2> QED BY <2>1, <2>4, <2>5, OneCallMoves
<1>7. CASE Logout(c)
  <2>1. PICK t \in RefreshTokens :
          Begin(c, [NewCall EXCEPT !.kind = "logout", !.pc = "merge", !.token = t,
                                 !.who = SubjectOf(t), !.ended = Ended])
    BY <1>7 DEF Logout
  <2> DEFINE k == [NewCall EXCEPT !.kind = "logout", !.pc = "merge", !.token = t,
                                 !.who = SubjectOf(t), !.ended = Ended]
  <2>2. t \in Issuers /\ SubjectOf(t) \in Users /\ user[SubjectOf(t)] \in Rows
    BY TokensHaveSubjects DEF AccessTokens
  <2>3. user[SubjectOf(t)] # None /\ SubjectOf(t) # None
    BY <2>2, NamesAssumption, NoneAssumption
  <2>4. k \in Records BY <1>0, <2>2 DEF Records, Working
  <2>5. Holds(k) BY <2>2, <2>3, NamesAssumption DEF Holds, NewCall
  <2> QED BY <2>1, <2>4, <2>5, OneCallMoves
<1> QED BY <1>1, <1>3, <1>4, <1>5, <1>6, <1>7 DEF Begins

\* A step that sets the pc alone is fine when the new pc suits the call.
LEMMA PcMoves ==
    ASSUME TypeInv, NEW c \in Calls,
           NEW pc \in Working \cup {"idle", "done", "refused", "unknown", "conflict", "failed"},
           Step(c, pc), Holds([call[c] EXCEPT !.pc = pc])
    PROVE  TypeInv'
<1>1. call[c] \in Records BY DEF TypeInv, TypeOK
<1>2. [call[c] EXCEPT !.pc = pc] \in Records BY <1>1 DEF Records
<1>3. call' = [call EXCEPT ![c] = [call[c] EXCEPT !.pc = pc]] BY DEF Step
<1> QED BY <1>2, <1>3, OneCallMoves DEF Step

LEMMA TypesWhenReading == ASSUME TypeInv, NEW c \in Calls, Reads(c) PROVE TypeInv'
<1>0. call[c] \in Records /\ Holds(call[c]) BY DEF TypeInv, TypeOK
<1>1. CASE LookUp(c) BY <1>0, <1>1, PcMoves DEF LookUp, Holds, Records, Working
<1>2. CASE LoadUser(c)
  <2> DEFINE k == [call[c] EXCEPT !.seen = RowOf(c),
                                  !.pc = IF call[c].kind = "refresh" THEN "mint" ELSE "guard"]
  <2>1. call[c].who \in Users /\ user[call[c].who] # None /\ call[c].pc = "load"
    BY <1>0, <1>2, NamesAssumption DEF LoadUser, Holds, Records
  <2>2. RowOf(c) \in Rows BY <2>1 DEF RowOf, TypeInv, TypeOK
  <2>3. k \in Records BY ZenonT(60), <1>0, <2>2 DEF Records, Working
  <2>4. Holds(k) BY <1>0, <2>1, <2>2, NoneAssumption DEF Holds, Records
  <2>5. call' = [call EXCEPT ![c] = k] BY <1>2 DEF LoadUser
  <2> QED BY <1>2, <2>3, <2>4, <2>5, OneCallMoves DEF LoadUser
<1>3. CASE Guard(c) BY <1>0, <1>3, PcMoves DEF Guard, Holds, Records, Working
<1>4. CASE Mint(c) BY <1>0, <1>4, PcMoves DEF Mint, Holds, Records, Working
<1>5. CASE FindEmail(c) BY <1>0, <1>5, PcMoves DEF FindEmail, Holds, Records, Working
<1>6. CASE InsertUser(c) BY SMTT(60), <1>0, <1>6, PcMoves DEF InsertUser, Holds, Records, Working
<1>7. CASE FindUser(c)
  <2>1. CASE Step(c, "unknown") BY ZenonT(60), <1>0, <1>7, <2>1, PcMoves DEF FindUser, Holds, Records, Working
  <2>2. CASE Step(c, "refused") BY <1>0, <1>7, <2>2, PcMoves DEF FindUser, Holds, Records, Working
  <2>3. ASSUME NEW u \in With(KeyOf(c)), UNCHANGED <<user, revoked, audited, changes, faults>>,
               call' = [call EXCEPT ![c].who = u, ![c].seen = user[u],
                                   ![c].pc = IF user[u].active THEN "head" ELSE "refused"]
        PROVE  TypeInv'
    <3> DEFINE k == [call[c] EXCEPT !.who = u, !.seen = user[u],
                                    !.pc = IF user[u].active THEN "head" ELSE "refused"]
    <3>1. u \in Users /\ user[u] # None BY DEF With, Accounts
    <3>2. user[u] \in Rows BY <3>1 DEF TypeInv, TypeOK
    <3>3. k \in Records BY ZenonT(60), <1>0, <3>1, <3>2 DEF Records, Working
    <3>4. Holds(k) BY <1>0, <1>7, <3>1, NamesAssumption DEF FindUser, Holds, Records
    <3> QED BY <2>3, <3>3, <3>4, OneCallMoves
  <2> QED BY ZenonT(60), <1>7, <2>1, <2>2, <2>3 DEF FindUser
<1>8. CASE SelectRevoked(c) BY <1>0, <1>8, PcMoves DEF SelectRevoked, Holds, Records, Working
<1>9. CASE ReadHead(c)
  <2> DEFINE k == [call[c] EXCEPT !.pc = "append", !.head = audited]
  <2>1. audited \in SUBSET Calls BY DEF TypeInv, TypeOK
  <2>2. k \in Records BY <1>0, <2>1 DEF Records, Working
  <2>3. Holds(k) BY <1>0, <1>9 DEF ReadHead, Holds, Records
  <2> QED BY <1>9, <2>2, <2>3, OneCallMoves DEF ReadHead
<1>10. CASE AppendEvent(c) BY <1>0, <1>10, PcMoves DEF AppendEvent, Holds, Records, Working
<1> QED BY <1>1, <1>2, <1>3, <1>4, <1>5, <1>6, <1>7, <1>8, <1>9, <1>10 DEF Reads

LEMMA TypesWhenWriting ==
    ASSUME TypeInv, NEW c \in Calls, InsertRevoked(c) \/ Commit(c) \/ Fail(c)
    PROVE  TypeInv'
<1>0. call[c] \in Records /\ Holds(call[c]) BY DEF TypeInv, TypeOK
<1>1. CASE InsertRevoked(c)
  <2> DEFINE pc == IF call[c].token \in revoked THEN "failed" ELSE "head"
  <2>1. call[c].token \in Issuers BY <1>0, <1>1 DEF InsertRevoked, Holds, Records
  <2>2. [call[c] EXCEPT !.pc = pc] \in Records BY <1>0 DEF Records, Working
  <2>3. Holds([call[c] EXCEPT !.pc = pc]) BY <1>0, <1>1 DEF InsertRevoked, Holds, Records
  <2>4. call' = [call EXCEPT ![c] = [call[c] EXCEPT !.pc = pc]] BY <1>1 DEF InsertRevoked
  <2>5. TypeOK' BY <1>1, <2>1, <2>2, <2>4 DEF InsertRevoked, TypeInv, TypeOK
  <2>6. \A d \in Calls : Holds(call[d])' BY <1>1, <2>3, <2>4 DEF InsertRevoked, TypeInv, TypeOK, Holds
  <2> QED BY <2>5, <2>6 DEF TypeInv
<1>2. CASE Commit(c)
  <2>1. [call[c] EXCEPT !.pc = "done"] \in Records BY <1>0 DEF Records, Working
  <2>2. Holds([call[c] EXCEPT !.pc = "done"]) BY <1>0, <1>2 DEF Commit, Holds, Records
  <2>3. call' = [call EXCEPT ![c] = [call[c] EXCEPT !.pc = "done"]] BY <1>2 DEF Commit
  <2>4. ASSUME call[c].kind = "register" PROVE Row(KeyOf(c), call[c].role) \in Rows
    <3>1. call[c].address \in Addresses BY <1>0, <2>4 DEF Holds, Records
    <3>2. KeyOf(c) \in Addresses BY <3>1, AddressesAssumption DEF KeyOf
    <3> QED BY <1>0, <3>2 DEF Row, Rows, Records
  <2>5. /\ user' \in [Users -> Rows \cup {None}]
        /\ \A u \in Users : user[u] # None => user'[u] # None
    <3>1. CASE call[c].kind = "register"
      <4>1. user' = [user EXCEPT ![c] = Row(KeyOf(c), call[c].role)] BY <1>2, <3>1 DEF Commit
      <4> QED BY <2>4, <3>1, <4>1, NoneAssumption DEF TypeInv, TypeOK
    <3>2. CASE call[c].kind # "register" BY <1>2, <3>2 DEF Commit, TypeInv, TypeOK
    <3> QED BY <3>1, <3>2
  <2>6. user'[Root] # None BY <2>5 DEF TypeInv, TypeOK, Users
  <2>7. TypeOK' BY <1>2, <2>1, <2>3, <2>5, <2>6 DEF Commit, TypeInv, TypeOK
  <2>8. ASSUME NEW d \in Calls PROVE Holds(call[d])'
    <3>1. Holds(call'[d])
      BY <2>2, <2>3 DEF TypeInv, TypeOK
    <3>2. call'[d] \in Records BY <2>7 DEF TypeOK
    <3> QED BY <2>5, <3>1, <3>2, NamesAssumption DEF Holds, Records
  <2> QED BY <2>7, <2>8 DEF TypeInv
<1>3. CASE Fail(c)
  <2>1. [call[c] EXCEPT !.pc = "failed"] \in Records BY <1>0 DEF Records
  <2>2. Holds([call[c] EXCEPT !.pc = "failed"]) BY <1>0, <1>3 DEF Fail, Working, Holds, Records
  <2>3. call' = [call EXCEPT ![c] = [call[c] EXCEPT !.pc = "failed"]] BY <1>3 DEF Fail
  <2>4. faults' \in 0..MaxFaults BY <1>3, BoundsAssumption DEF Fail, TypeInv, TypeOK
  <2>5. TypeOK' BY <1>3, <2>1, <2>3, <2>4 DEF Fail, TypeInv, TypeOK
  <2>6. \A d \in Calls : Holds(call[d])' BY <1>3, <2>2, <2>3 DEF Fail, TypeInv, TypeOK, Holds
  <2> QED BY <2>5, <2>6 DEF TypeInv
<1> QED BY <1>1, <1>2, <1>3

\* What a change makes of a row.
LEMMA ChangesMove ==
    ASSUME TypeInv, NEW u \in Accounts, Change(u)
    PROVE  \E row \in Rows :
             /\ user' = [user EXCEPT ![u] = row]
             /\ row.email = user[u].email /\ row.rev = user[u].rev + 1
<1>1. user[u] \in Rows BY DEF Accounts, TypeInv, TypeOK
<1>2. user[u].email \in Addresses /\ user[u].rev + 1 \in Nat BY <1>1 DEF Rows
<1>3. PICK r \in Roles, active \in BOOLEAN :
        user' = [user EXCEPT ![u] =
          [email |-> user[u].email, role |-> r, active |-> active, rev |-> user[u].rev + 1]]
  BY Zenon DEF Change
<1> DEFINE row == [email |-> user[u].email, role |-> r, active |-> active, rev |-> user[u].rev + 1]
<1>4. row \in Rows BY <1>2, Zenon DEF Rows
<1>5. row.email = user[u].email /\ row.rev = user[u].rev + 1 BY Zenon
<1>6. user' = [user EXCEPT ![u] = row] BY <1>3, Zenon
<1> HIDE DEF row
<1> QED BY <1>4, <1>5, <1>6

LEMMA TypesWhenChanged == ASSUME TypeInv, NEW u \in Accounts, Change(u) PROVE TypeInv'
<1>1. PICK row \in Rows : user' = [user EXCEPT ![u] = row] BY ChangesMove
<1>4. /\ user' \in [Users -> Rows \cup {None}]
      /\ \A v \in Users : user[v] # None => user'[v] # None
  BY <1>1, NoneAssumption DEF TypeInv, TypeOK
<1>5. user'[Root] # None BY <1>4 DEF TypeInv, TypeOK, Users
<1>6. changes' \in 0..MaxChanges BY BoundsAssumption DEF Change, TypeInv, TypeOK
<1>7. TypeOK' BY <1>4, <1>5, <1>6 DEF Change, TypeInv, TypeOK
<1>8. ASSUME NEW d \in Calls PROVE Holds(call[d])'
  <2>1. Holds(call[d]) /\ call[d] \in Records /\ call' = call BY DEF Change, TypeInv, TypeOK
  <2> QED BY <1>4, <2>1, NamesAssumption DEF Holds, Records
<1> QED BY <1>7, <1>8 DEF TypeInv

LEMMA TypesWhenIdle == ASSUME TypeInv, UNCHANGED vars PROVE TypeInv'
  BY DEF vars, TypeInv, TypeOK, Holds

\* Next, sorted by what a step does.
LEMMA Steps ==
    ASSUME [Next]_vars
    PROVE  \/ \E c \in Calls : Begins(c) \/ Reads(c)
           \/ \E c \in Calls : InsertRevoked(c) \/ Commit(c) \/ Fail(c)
           \/ \E u \in Accounts : Change(u)
           \/ UNCHANGED vars
  BY DEF Next, Begins, Reads

LEMMA TypeStep == TypeInv /\ [Next]_vars => TypeInv'
  BY Steps, TypesWhenBegun, TypesWhenReading, TypesWhenWriting, TypesWhenChanged, TypesWhenIdle

\* Rows, calls and bounds have their types, and a token stands for an account that exists, for
\* any number of calls.
THEOREM TypesHold == Spec => []TypeInv
  BY TypeInit, TypeStep, PTL DEF Spec

THEOREM TypeCorrect == Spec => []TypeOK
<1>1. TypeInv => TypeOK BY DEF TypeInv
<1> QED BY <1>1, TypesHold, PTL

-----------------------------------------------------------------------------
(* Accounts *)

\* Where a registration is once its caller was let through.
Cleared == {"find", "insert", "conflict", "head", "append", "commit", "done"}
Recorded == {"register", "login", "logout"}

\* Committed and uncommitted rows have one normal address each.
OneEach ==
    /\ \A u \in Accounts : Normal[user[u].email] = user[u].email
    /\ \A u, v \in Accounts : user[u].email = user[v].email => u = v
    /\ \A c \in Inserted : With(KeyOf(c)) = {}
    /\ \A c, d \in Inserted : KeyOf(c) = KeyOf(d) => c = d

\* What a call has been told, and what is recorded of it.
Told(c) ==
    /\ \A d \in call[c].ended : call[d].pc = "done"
    /\ call[c].pc = "conflict" => With(KeyOf(c)) # {}
    /\ call[c].pc = "unknown" =>
         \A d \in call[c].ended : call[d].kind = "register" => KeyOf(d) # KeyOf(c)
    /\ c \in audited <=> call[c].pc = "done" /\ call[c].kind \in Recorded
    /\ c \in Accounts <=> call[c].pc = "done" /\ call[c].kind = "register"
    /\ c \in Accounts => user[c].email = KeyOf(c)
    /\ call[c].kind = "register" /\ call[c].token # None /\ call[c].pc \in Cleared =>
         Can(call[c].seen, "manage_users")

AccountInv == OneEach /\ \A c \in Calls : Told(c)

LEMMA AccountInit == Init => AccountInv
<1> SUFFICES ASSUME Init PROVE AccountInv OBVIOUS
<1>0. PICK b \in Addresses : user = [u \in Users |-> IF u = Root THEN Row(Normal[b], 3) ELSE None]
  BY DEF Init
<1>1. Accounts = {Root}
  <2>1. Normal[b] \in Addresses BY AddressesAssumption
  <2>2. Row(Normal[b], 3) \in Rows BY <2>1, RolesAssumption DEF Row, Rows
  <2> QED BY <1>0, <2>2, NoneAssumption DEF Accounts, Users
<1>2. user[Root].email = Normal[b] BY <1>0 DEF Row, Users
<1>3. call = [c \in Calls |-> NewCall] /\ audited = {} BY DEF Init
<1>4. OneEach BY <1>1, <1>2, <1>3, AddressesAssumption DEF OneEach, Inserted, NewCall
<1>5. \A c \in Calls : Told(c)
  BY <1>1, <1>3, NamesAssumption DEF Told, NewCall, Recorded
<1> QED BY <1>4, <1>5 DEF AccountInv

\* What a call is when it has just begun.
LEMMA Beginnings ==
    ASSUME TypeInv, NEW c \in Calls, Begins(c)
    PROVE  /\ call[c].pc = "idle" /\ UNCHANGED <<user, revoked, audited, changes, faults>>
           /\ call' = [call EXCEPT ![c] = call'[c]]
           /\ call'[c].pc \in {"find", "load", "lookup", "merge"}
           /\ call'[c].pc = "find" => call'[c].token = None
           /\ call'[c].pc \in {"load", "lookup"} =>
                call'[c].token # None /\ call'[c].since = user[call'[c].who].rev
           /\ call'[c].ended = Ended
           /\ call'[c].kind # "none" /\ (call'[c].pc = "load" => call'[c].kind # "refresh")
<1>0. call \in [Calls -> Records] BY DEF TypeInv, TypeOK
<1>1. ASSUME NEW kind \in {"register", "use"}, NEW p, NEW a, NEW r, Present(c, kind, p, a, r)
      PROVE  /\ call[c].pc = "idle" /\ UNCHANGED <<user, revoked, audited, changes, faults>>
             /\ \E k : /\ call' = [call EXCEPT ![c] = k]
                       /\ k.pc = "load" /\ k.token # None /\ k.since = user[k.who].rev
                       /\ k.ended = Ended /\ k.kind \in {"register", "use"}
  <2>1. PICK t \in AccessTokens :
          Begin(c, [NewCall EXCEPT !.kind = kind, !.pc = "load", !.token = t, !.address = a,
                                 !.role = r, !.permission = p, !.who = SubjectOf(t),
                                 !.since = user[SubjectOf(t)].rev, !.ended = Ended])
    BY <1>1 DEF Present
  <2> DEFINE k == [NewCall EXCEPT !.kind = kind, !.pc = "load", !.token = t, !.address = a,
                                 !.role = r, !.permission = p, !.who = SubjectOf(t),
                                 !.since = user[SubjectOf(t)].rev, !.ended = Ended]
  <2>2. t # None BY TokensHaveSubjects, NamesAssumption
  <2>3. /\ k.pc = "load" /\ k.token # None /\ k.since = user[k.who].rev
        /\ k.ended = Ended /\ k.kind \in {"register", "use"}
    BY <1>1, <2>2 DEF NewCall
  <2>4. /\ call[c].pc = "idle" /\ call' = [call EXCEPT ![c] = k]
        /\ UNCHANGED <<user, revoked, audited, changes, faults>>
    BY <2>1 DEF Begin
  <2> HIDE DEF k
  <2> QED BY <2>3, <2>4
<1>2. CASE Register(c)
  <2>1. PICK a, r : Present(c, "register", "manage_users", a, r) BY <1>2 DEF Register
  <2> QED BY <1>0, <1>1, <2>1
<1>3. CASE Use(c)
  <2>1. PICK p : Present(c, "use", p, None, 3) BY <1>3 DEF Use
  <2> QED BY <1>0, <1>1, <2>1
<1>4. CASE CreateUser(c) BY <1>0, <1>4 DEF CreateUser, Begin, NewCall
<1>5. CASE Login(c) BY <1>0, <1>5 DEF Login, Begin, NewCall
<1>6. CASE Refresh(c)
  <2>1. PICK t \in RefreshTokens :
          Begin(c, [NewCall EXCEPT !.kind = "refresh", !.pc = "lookup", !.token = t,
                                 !.who = SubjectOf(t), !.since = user[SubjectOf(t)].rev,
                                 !.ended = Ended])
    BY <1>6 DEF Refresh
  <2>2. t # None BY TokensHaveSubjects, NamesAssumption DEF AccessTokens
  <2> QED BY <1>0, <2>1, <2>2 DEF Begin, NewCall
<1>7. CASE Logout(c) BY <1>0, <1>7 DEF Logout, Begin, NewCall
<1> QED BY <1>2, <1>3, <1>4, <1>5, <1>6, <1>7 DEF Begins

LEMMA AccountsWhenBegun ==
    ASSUME TypeInv, AccountInv, NEW c \in Calls, Begins(c)
    PROVE  AccountInv'
<1>1. /\ call[c].pc = "idle" /\ UNCHANGED <<user, revoked, audited, changes, faults>>
      /\ call' = [call EXCEPT ![c] = call'[c]]
      /\ call'[c].pc \in {"find", "load", "lookup", "merge"}
      /\ call'[c].pc = "find" => call'[c].token = None
      /\ call'[c].ended = Ended
  BY Beginnings
<1>2. call \in [Calls -> Records] BY DEF TypeInv, TypeOK
<1>3. Inserted' = Inserted /\ Accounts' = Accounts BY <1>1, <1>2 DEF Inserted, Accounts
<1>4. OneEach' BY <1>1, <1>2, <1>3 DEF AccountInv, OneEach, With, KeyOf, Inserted
<1>5. ASSUME NEW d \in Calls PROVE Told(d)'
  <2>1. Told(d) /\ call[d].ended \subseteq Calls BY <1>2 DEF AccountInv, Records
  <2>2. CASE d = c
    BY <1>1, <1>2, <1>3, <2>1, <2>2 DEF Told, Ended, Cleared
  <2>3. CASE d # c
    <3>1. call'[d] = call[d] BY <1>1, <1>2, <2>3
    <3>2. \A e \in call[d].ended : e # c /\ call'[e] = call[e] BY <1>1, <1>2, <2>1 DEF Told
    <3> QED BY <1>1, <1>3, <2>1, <3>1, <3>2 DEF Told, With, KeyOf
  <2> QED BY <2>2, <2>3
<1> QED BY <1>4, <1>5 DEF AccountInv

\* A call that has not ended goes on, and what it is told is true.
LEMMA AccountsWhenMoved ==
    ASSUME TypeInv, AccountInv, NEW c \in Calls, NEW k \in Records,
           call' = [call EXCEPT ![c] = k], UNCHANGED <<user, audited>>,
           call[c].pc \in Working,
           k.kind = call[c].kind, k.address = call[c].address,
           k.token = call[c].token, k.ended = call[c].ended,
           k.pc \in {"head", "append", "commit"} /\ k.kind = "register" =>
             \/ c \in Inserted
             \/ With(KeyOf(c)) = {} /\ \A d \in Inserted : KeyOf(d) # KeyOf(c),
           k.pc = "conflict" => With(KeyOf(c)) # {},
           k.pc = "unknown" => With(KeyOf(c)) = {},
           k.pc = "done" => k.kind \notin Recorded,
           k.kind = "register" /\ k.token # None /\ k.pc \in Cleared =>
             Can(k.seen, "manage_users")
    PROVE  AccountInv'
<1>1. call \in [Calls -> Records] BY DEF TypeInv, TypeOK
<1>2. \A d \in Calls : KeyOf(d)' = KeyOf(d) BY <1>1 DEF KeyOf
<1>3. Accounts' = Accounts /\ (\A key : With(key)' = With(key)) BY DEF Accounts, With
<1>4. Inserted' \subseteq Inserted \cup {c} BY <1>1 DEF Inserted
<1>5. c \in Inserted' => \/ c \in Inserted
                         \/ With(KeyOf(c)) = {} /\ \A d \in Inserted : KeyOf(d) # KeyOf(c)
  BY <1>1 DEF Inserted
<1>i. Inserted \subseteq Calls BY DEF Inserted
<1>6. OneEach'
  <2>1. /\ \A u \in Accounts : Normal[user[u].email] = user[u].email
        /\ \A u, v \in Accounts : user[u].email = user[v].email => u = v
    BY DEF AccountInv, OneEach
  <2>2. \A d \in Inserted \cup {c} : d \in Inserted' => With(KeyOf(d)) = {}
    BY <1>5 DEF AccountInv, OneEach
  <2>3. \A d, e \in Inserted' : KeyOf(d) = KeyOf(e) => d = e
    BY <1>4, <1>5 DEF AccountInv, OneEach
  <2> QED BY <1>2, <1>3, <1>4, <1>i, <2>1, <2>2, <2>3 DEF OneEach
<1>7. ASSUME NEW d \in Calls PROVE Told(d)'
  <2>1. Told(d) /\ call[d].ended \subseteq Calls BY <1>1 DEF AccountInv, Records
  <2>2. \A e \in call[d].ended : e # c /\ call'[e] = call[e]
    BY <1>1, <2>1 DEF Told, Working
  <2>3. CASE d # c
    <3>1. call'[d] = call[d] BY <1>1, <2>3
    <3> QED BY <1>2, <1>3, <2>1, <2>2, <3>1 DEF Told
  <2>4. CASE d = c
    <3>1. call'[c] = k /\ c \notin audited /\ c \notin Accounts
      BY <1>1, <2>1, <2>4 DEF Told, Working
    <3>2. k.pc = "unknown" => \A e \in k.ended : call[e].kind = "register" => KeyOf(e) # KeyOf(c)
      <4> SUFFICES ASSUME k.pc = "unknown", NEW e \in call[c].ended, call[e].kind = "register"
                   PROVE  KeyOf(e) # KeyOf(c)
        OBVIOUS
      <4>1. e \in Calls /\ call[e].pc = "done" BY <2>1, <2>4 DEF Told
      <4>2. e \in Accounts /\ user[e].email = KeyOf(e) BY <4>1 DEF AccountInv, Told
      <4> QED BY <4>2 DEF With
    <3>3. \A e \in k.ended : call'[e].pc = "done" BY <2>1, <2>2, <2>4 DEF Told
    <3>4. k.pc = "unknown" =>
            \A e \in k.ended : call'[e].kind = "register" => KeyOf(e)' # KeyOf(c)'
      <4>1. \A e \in k.ended : e \in Calls /\ call'[e] = call[e] BY <2>1, <2>2, <2>4
      <4> QED BY <1>2, <3>2, <4>1
    <3>5. k.pc = "conflict" => With(KeyOf(c))' # {} BY <1>2, <1>3 DEF With
    <3>6. /\ c \in audited' <=> k.pc = "done" /\ k.kind \in Recorded
          /\ c \in Accounts' <=> k.pc = "done" /\ k.kind = "register"
          /\ c \notin Accounts'
      BY <1>3, <3>1 DEF Recorded
    <3>7. k.kind = "register" /\ k.token # None /\ k.pc \in Cleared =>
            Can(call'[c].seen, "manage_users")
      BY <3>1
    <3> QED BY <2>4, <3>1, <3>3, <3>4, <3>5, <3>6, <3>7 DEF Told
  <2> QED BY <2>3, <2>4
<1> QED BY <1>6, <1>7 DEF AccountInv

LEMMA AccountsWhenReading ==
    ASSUME TypeInv, AccountInv, NEW c \in Calls, Reads(c) \/ InsertRevoked(c) \/ Fail(c)
    PROVE  AccountInv'
<1>0. call[c] \in Records /\ Holds(call[c]) /\ call \in [Calls -> Records] /\ Told(c)
  BY DEF TypeInv, TypeOK, AccountInv
<1>i. call'[c] \in Records
  <2>1. TypeInv' BY TypesWhenReading, TypesWhenWriting
  <2> QED BY <2>1 DEF TypeInv, TypeOK
<1>1. ASSUME UNCHANGED <<user, audited>>, call' = [call EXCEPT ![c] = call'[c]],
             call[c].pc \in Working,
             call'[c].kind = call[c].kind, call'[c].address = call[c].address,
             call'[c].token = call[c].token, call'[c].ended = call[c].ended,
             call'[c].pc \in {"head", "append", "commit"} /\ call'[c].kind = "register" =>
               \/ c \in Inserted
               \/ With(KeyOf(c)) = {} /\ \A d \in Inserted : KeyOf(d) # KeyOf(c),
             call'[c].pc = "conflict" => With(KeyOf(c)) # {},
             call'[c].pc = "unknown" => With(KeyOf(c)) = {},
             call'[c].pc = "done" => call'[c].kind \notin Recorded,
             call'[c].kind = "register" /\ call'[c].token # None /\ call'[c].pc \in Cleared =>
               Can(call'[c].seen, "manage_users")
      PROVE  AccountInv'
  BY <1>i, <1>1, AccountsWhenMoved
<1> USE <1>0, <1>1 DEF Step, Working, Records, Cleared, Recorded, Holds, Told
<1>2. CASE LookUp(c) BY <1>2 DEF LookUp
<1>3. CASE LoadUser(c) BY <1>3 DEF LoadUser
<1>4. CASE Guard(c) BY <1>4 DEF Guard
<1>5. CASE Mint(c) BY <1>5 DEF Mint
<1>6. CASE FindEmail(c) BY <1>6 DEF FindEmail
<1>7. CASE InsertUser(c) BY <1>7 DEF InsertUser
<1>8. CASE FindUser(c)
  <2>1. call[c].kind = "login" /\ call[c].pc = "find" BY <1>8 DEF FindUser
  <2>2. CASE With(KeyOf(c)) = {} /\ Step(c, "unknown") BY <2>1, <2>2
  <2>3. CASE Step(c, "refused") BY <2>1, <2>3
  <2>4. ASSUME NEW u, UNCHANGED <<user, revoked, audited, changes, faults>>,
               call' = [call EXCEPT ![c].who = u, ![c].seen = user[u],
                                   ![c].pc = IF user[u].active THEN "head" ELSE "refused"]
        PROVE  AccountInv'
    BY <2>1, <2>4
  <2> QED BY <1>8, <2>2, <2>3, <2>4 DEF FindUser
<1>9. CASE SelectRevoked(c) BY <1>9 DEF SelectRevoked
<1>10. CASE ReadHead(c) BY <1>10 DEF ReadHead, Inserted
<1>11. CASE AppendEvent(c) BY <1>11 DEF AppendEvent, Inserted
<1>12. CASE InsertRevoked(c) BY <1>12 DEF InsertRevoked
<1>13. CASE Fail(c) BY <1>13 DEF Fail
<1> QED BY <1>2, <1>3, <1>4, <1>5, <1>6, <1>7, <1>8, <1>9, <1>10, <1>11, <1>12, <1>13 DEF Reads

LEMMA AccountsWhenCommitted ==
    ASSUME TypeInv, AccountInv, NEW c \in Calls, Commit(c)
    PROVE  AccountInv'
<1>0. /\ call \in [Calls -> Records] /\ user \in [Users -> Rows \cup {None}]
      /\ audited \subseteq Calls /\ Holds(call[c]) /\ Told(c)
  BY DEF TypeInv, TypeOK, AccountInv
<1>1. /\ call[c].pc = "commit" /\ call' = [call EXCEPT ![c] = [call[c] EXCEPT !.pc = "done"]]
      /\ audited' = audited \cup {c}
  BY DEF Commit
<1>2. call[c].kind \in Recorded BY <1>0, <1>1 DEF Holds, Recorded
<1>3. \A d \in Calls : KeyOf(d)' = KeyOf(d) BY <1>0, <1>1 DEF KeyOf, Records
<1>4. c \notin Accounts /\ c \notin audited BY <1>0, <1>1 DEF Told
<1>5. Inserted' = Inserted \ {c} BY <1>0, <1>1 DEF Inserted, Records
<1>i. Inserted \subseteq Calls BY DEF Inserted
\* The rows after the commit: those before it and, of a registration, its own.
<1>6. /\ Accounts' = IF call[c].kind = "register" THEN Accounts \cup {c} ELSE Accounts
      /\ \A u \in Accounts : user'[u] = user[u]
      /\ call[c].kind = "register" => user'[c].email = KeyOf(c)
  <2>1. CASE call[c].kind = "register"
    <3>1. user' = [user EXCEPT ![c] = Row(KeyOf(c), call[c].role)] BY <2>1 DEF Commit
    <3>2. Row(KeyOf(c), call[c].role) # None
      <4>1. call[c].address \in Addresses BY <1>0, <2>1 DEF Holds, Records
      <4>2. KeyOf(c) \in Addresses /\ call[c].role \in Roles
        BY <1>0, <4>1, AddressesAssumption DEF KeyOf, Records
      <4>3. Row(KeyOf(c), call[c].role) \in Rows BY <4>2 DEF Row, Rows
      <4> QED BY <4>3, NoneAssumption
    <3>3. Row(KeyOf(c), call[c].role).email = KeyOf(c) BY DEF Row
    <3>4. c \in Users BY DEF Users
    <3> QED BY <1>0, <1>4, <2>1, <3>1, <3>2, <3>3, <3>4 DEF Accounts
  <2>2. CASE call[c].kind # "register" BY <2>2 DEF Commit, Accounts
  <2> QED BY <2>1, <2>2
<1>7. \A key : With(key)' =
        IF call[c].kind = "register" /\ key = KeyOf(c) THEN With(key) \cup {c} ELSE With(key)
  BY <1>4, <1>6 DEF With
<1>8. OneEach'
  <2>0. OneEach BY DEF AccountInv
  <2>1. ASSUME NEW u \in Accounts' PROVE (Normal[user[u].email] = user[u].email)'
    <3>1. CASE u \in Accounts BY <1>6, <2>0, <3>1 DEF OneEach
    <3>2. CASE u = c /\ call[c].kind = "register"
      <4>1. call[c].address \in Addresses BY <1>0, <3>2 DEF Holds, Records
      <4> QED BY <1>6, <3>2, <4>1, AddressesAssumption DEF KeyOf
    <3> QED BY <1>6, <3>1, <3>2
  <2>2. ASSUME NEW u \in Accounts', NEW v \in Accounts', (user[u].email = user[v].email)'
        PROVE  u = v
    <3>1. call[c].kind = "register" => With(KeyOf(c)) = {}
      BY <1>1, <2>0 DEF OneEach, Inserted
    <3> QED BY <1>6, <2>0, <2>2, <3>1 DEF OneEach, With
  <2>3. ASSUME NEW d \in Inserted' PROVE (With(KeyOf(d)) = {})'
    <3>1. d \in Inserted /\ d # c /\ With(KeyOf(d)) = {} BY <1>5, <2>0, <2>3 DEF OneEach
    <3>2. call[c].kind = "register" => KeyOf(d) # KeyOf(c)
      BY <1>1, <2>0, <3>1 DEF OneEach, Inserted
    <3>3. d \in Calls /\ KeyOf(d)' = KeyOf(d) BY <1>3, <1>i, <3>1
    <3>4. ASSUME NEW u \in Accounts', user'[u].email = KeyOf(d) PROVE FALSE
      BY <1>6, <3>1, <3>2, <3>4 DEF With
    <3> QED BY <3>3, <3>4 DEF With
  <2>4. \A d, e \in Inserted' : (KeyOf(d) = KeyOf(e))' => d = e
    BY <1>3, <1>5, <1>i, <2>0 DEF OneEach
  <2> QED BY <2>1, <2>2, <2>3, <2>4 DEF OneEach
<1>9. ASSUME NEW d \in Calls PROVE Told(d)'
  <2>1. Told(d) /\ call[d].ended \subseteq Calls BY <1>0 DEF AccountInv, Records
  <2>2. \A e \in call[d].ended : e \in Calls /\ e # c /\ call'[e] = call[e]
    BY <1>0, <1>1, <2>1 DEF Told
  <2>3. /\ call'[d].ended = call[d].ended /\ call'[d].kind = call[d].kind
        /\ call'[d].token = call[d].token /\ call'[d].seen = call[d].seen
        /\ call'[d].pc = IF d = c THEN "done" ELSE call[d].pc
    BY <1>0, <1>1 DEF Records
  <2>4. \A e \in call'[d].ended : call'[e].pc = "done" BY <2>1, <2>2, <2>3 DEF Told
  <2>5. call'[d].pc = "conflict" => With(KeyOf(d))' # {}
    BY <1>3, <1>6, <2>1, <2>3 DEF Told, With
  <2>6. call'[d].pc = "unknown" =>
          \A e \in call'[d].ended : call'[e].kind = "register" => KeyOf(e)' # KeyOf(d)'
    BY <1>3, <2>1, <2>2, <2>3 DEF Told
  <2>7. d \in audited' <=> call'[d].pc = "done" /\ call'[d].kind \in Recorded
    BY <1>1, <1>2, <2>1, <2>3 DEF Told
  <2>8. /\ d \in Accounts' <=> call'[d].pc = "done" /\ call'[d].kind = "register"
        /\ d \in Accounts' => user'[d].email = KeyOf(d)'
    BY <1>1, <1>3, <1>6, <2>1, <2>3 DEF Told
  <2>9. call'[d].kind = "register" /\ call'[d].token # None /\ call'[d].pc \in Cleared =>
          Can(call'[d].seen, "manage_users")
    BY <1>1, <2>1, <2>3 DEF Told, Cleared
  <2> QED BY <2>4, <2>5, <2>6, <2>7, <2>8, <2>9 DEF Told
<1> QED BY <1>8, <1>9 DEF AccountInv

LEMMA AccountsWhenChanged ==
    ASSUME TypeInv, AccountInv, NEW u \in Accounts, Change(u)
    PROVE  AccountInv'
<1>1. PICK row \in Rows : user' = [user EXCEPT ![u] = row] /\ row.email = user[u].email
  BY ChangesMove
<1>2. user \in [Users -> Rows \cup {None}] /\ u \in Users BY DEF TypeInv, TypeOK, Accounts
<1>3. Accounts' = Accounts /\ \A v \in Accounts : user'[v].email = user[v].email
  BY <1>1, <1>2, NoneAssumption DEF Accounts
<1>4. call' = call /\ audited' = audited BY DEF Change
<1>5. Inserted' = Inserted BY <1>4 DEF Inserted
<1>6. OneEach' BY <1>3, <1>4, <1>5 DEF AccountInv, OneEach, With, KeyOf
<1>7. ASSUME NEW c \in Calls PROVE Told(c)'
  BY <1>3, <1>4 DEF AccountInv, Told, With, KeyOf
<1> QED BY <1>6, <1>7 DEF AccountInv

LEMMA AccountsWhenIdle == ASSUME AccountInv, UNCHANGED vars PROVE AccountInv'
  BY DEF vars, AccountInv, OneEach, Told, Inserted, With, KeyOf, Accounts

LEMMA AccountStep == TypeInv /\ AccountInv /\ [Next]_vars => AccountInv'
  BY Steps, AccountsWhenBegun, AccountsWhenReading, AccountsWhenCommitted, AccountsWhenChanged,
     AccountsWhenIdle

LEMMA AccountsFollow == TypeInv /\ AccountInv => AccountsAreTrue
<1> SUFFICES ASSUME TypeInv, AccountInv PROVE AccountsAreTrue OBVIOUS
<1>1. \A u, v \in Accounts : Normal[user[u].email] = Normal[user[v].email] => u = v
  BY DEF AccountInv, OneEach
<1>2. ASSUME NEW c \in Calls
      PROVE  /\ call[c].pc = "conflict" =>
                  \E u \in Accounts : user[u].email = Normal[call[c].address]
             /\ call[c].pc = "unknown" =>
                  \A d \in call[c].ended :
                     call[d].kind = "register" => Normal[call[d].address] # Normal[call[c].address]
             /\ c \in Accounts <=> c \in audited /\ call[c].kind = "register"
             /\ c \in Accounts => call[c].pc = "done" /\ user[c].email = Normal[call[c].address]
             /\ c \in Accounts /\ call[c].token # None => Can(call[c].seen, "manage_users")
  BY DEF AccountInv, Told, With, KeyOf, Recorded, Cleared
<1> QED BY <1>1, <1>2 DEF AccountsAreTrue

\* For any number of overlapping registrations and logins: one account per address, however it
\* is spelled, no false answer about one, and none that is not on the audit log.
THEOREM AccountsHold == Spec => []AccountsAreTrue
<1>1. Spec => []AccountInv BY AccountInit, TypesHold, AccountStep, PTL DEF Spec
<1> QED BY <1>1, TypesHold, AccountsFollow, PTL

-----------------------------------------------------------------------------
(* Sessions *)

\* Where a logout is once the session's token is revoked.
Past == {"head", "append", "commit", "done"}

\* What is known of a call as long as it may still be let through: no logout of its session was
\* answered before it began, and the row it goes by is no older than it is.
Kept(k) ==
    /\ k.kind = "refresh" /\ k.pc \in {"load", "mint", "done"} =>
         \A d \in k.ended : ~(call[d].kind = "logout" /\ call[d].token = k.token)
    /\ k.kind = "refresh" /\ k.pc = "done" => k.seen.active
    /\ k.pc \in {"lookup", "load"} => user[k.who].rev >= k.since
    /\ \/ k.pc \in {"guard", "mint"}
       \/ k.kind \in {"refresh", "use"} /\ k.pc = "done"
       \/ k.kind = "register" /\ k.token # None /\ k.pc \in Cleared
       => k.seen.rev >= k.since
    /\ k.kind = "use" /\ k.pc = "done" => Can(k.seen, k.permission)

SessionInv ==
    /\ \A c \in Calls : Kept(call[c])
    /\ \A c \in Calls : call[c].kind = "logout" /\ call[c].pc \in Past => call[c].token \in revoked
    /\ \A t \in revoked : \E c \in Calls :
         call[c].kind = "logout" /\ call[c].token = t /\ call[c].pc \in Past \cup {"failed"}

LEMMA SessionInit == Init => SessionInv
  BY DEF Init, SessionInv, Kept, NewCall, Past

\* A call that has not ended goes on: the others are not affected.
LEMMA SessionsWhenMoved ==
    ASSUME TypeInv, AccountInv, SessionInv, NEW c \in Calls, NEW k \in Records,
           call' = [call EXCEPT ![c] = k], call[c].pc \in Working \cup {"idle"},
           \A u \in Accounts : user'[u] = user[u],
           revoked \subseteq revoked',
           k.pc \in {"lookup", "load"} => k.who \in Accounts,
           Kept(k), k.ended \subseteq Ended,
           k.kind = "logout" /\ k.pc \in Past => k.token \in revoked',
           \A t \in revoked' \ revoked :
             k.kind = "logout" /\ k.token = t /\ k.pc \in Past \cup {"failed"},
           call[c].kind = "logout" /\ call[c].pc \in Past =>
             k.kind = "logout" /\ k.token = call[c].token /\ k.pc \in Past \cup {"failed"}
    PROVE  SessionInv'
<1>0. /\ call \in [Calls -> Records] /\ call'[c] = k
      /\ \A d \in Calls : d # c => call'[d] = call[d]
  BY DEF TypeInv, TypeOK
<1>1. \A d \in Ended : d \in Calls /\ call'[d] = call[d] BY <1>0 DEF Ended, Working
<1>2. ASSUME NEW q \in Records, q.pc \in {"lookup", "load"} => q.who \in Accounts, Kept(q),
             q.ended \subseteq Ended
      PROVE  Kept(q)'
  <2>1. ASSUME q.pc \in {"lookup", "load"} PROVE user'[q.who].rev >= q.since
    BY <1>2, <2>1 DEF Kept
  <2>2. ASSUME q.kind = "refresh", q.pc \in {"load", "mint", "done"}, NEW d \in q.ended
        PROVE  ~(call'[d].kind = "logout" /\ call'[d].token = q.token)
    BY <1>1, <1>2, <2>2 DEF Kept
  <2> QED BY <1>2, <2>1, <2>2 DEF Kept, Can
<1>3. ASSUME NEW d \in Calls PROVE Kept(call[d])'
  <2>1. CASE d = c BY <1>0, <1>2, <2>1
  <2>2. CASE d # c
    <3>1. call[d] \in Records /\ Holds(call[d]) /\ Kept(call[d]) /\ call'[d] = call[d]
      BY <1>0, <2>2 DEF TypeInv, SessionInv
    <3>2. call[d].ended \subseteq Ended BY <3>1 DEF AccountInv, Told, Ended, Records
    <3>4. call[d].pc \in {"lookup", "load"} => call[d].who \in Accounts
      BY <3>1 DEF Holds, Accounts, Records
    <3>3. ASSUME NEW q, q = call[d] PROVE Kept(q)' BY <1>2, <3>1, <3>2, <3>3, <3>4
    <3> QED BY <3>1, <3>3
  <2> QED BY <2>1, <2>2
<1>4. ASSUME NEW d \in Calls, call'[d].kind = "logout", call'[d].pc \in Past
      PROVE  call'[d].token \in revoked'
  BY <1>0, <1>4 DEF SessionInv
<1>5. ASSUME NEW t \in revoked'
      PROVE  \E d \in Calls : call'[d].kind = "logout" /\ call'[d].token = t
                              /\ call'[d].pc \in Past \cup {"failed"}
  <2>1. CASE t \notin revoked BY <1>0, <2>1
  <2>2. CASE t \in revoked
    <3>1. PICK d \in Calls : /\ call[d].kind = "logout" /\ call[d].token = t
                             /\ call[d].pc \in Past \cup {"failed"}
      BY <2>2 DEF SessionInv
    <3>2. d = c => call[c].pc \in Past BY <3>1 DEF Working
    <3> QED BY <1>0, <3>1, <3>2
  <2> QED BY <2>1, <2>2
<1> QED BY <1>3, <1>4, <1>5 DEF SessionInv

LEMMA SessionsWhenBegun ==
    ASSUME TypeInv, AccountInv, SessionInv, NEW c \in Calls, Begins(c)
    PROVE  SessionInv'
<1>1. /\ call[c].pc = "idle" /\ UNCHANGED <<user, revoked, audited, changes, faults>>
      /\ call' = [call EXCEPT ![c] = call'[c]]
      /\ call'[c].pc \in {"find", "load", "lookup", "merge"}
      /\ call'[c].pc = "find" => call'[c].token = None
      /\ call'[c].pc \in {"load", "lookup"} => call'[c].since = user[call'[c].who].rev
      /\ call'[c].ended = Ended
      /\ call'[c].pc = "load" => call'[c].kind # "refresh"
  BY Beginnings
<1>2. call'[c] \in Records /\ Holds(call'[c])
  <2>1. TypeInv' BY TypesWhenBegun
  <2> QED BY <1>1, <2>1 DEF TypeInv, TypeOK, Holds
<1>3. ASSUME call'[c].pc \in {"load", "lookup"}
      PROVE  user[call'[c].who].rev >= call'[c].since
  <2>1. call'[c].who \in Users /\ user[call'[c].who] # None
    BY <1>2, <1>3, NamesAssumption DEF Holds, Records
  <2>2. user[call'[c].who].rev \in Nat BY <2>1 DEF TypeInv, TypeOK, Rows
  <2> QED BY <1>1, <1>3, <2>2
<1>4. Kept(call'[c]) BY <1>1, <1>3 DEF Kept, Cleared
<1> DEFINE k == call'[c]
<1>5. /\ k \in Records /\ Kept(k) /\ k.ended \subseteq Ended /\ k.pc \notin Past
      /\ k.pc \in {"lookup", "load"} => k.who \in Accounts
      /\ call[c].pc \notin Past /\ call' = [call EXCEPT ![c] = k]
  BY <1>1, <1>2, <1>4 DEF Past, Holds, Accounts, Records
<1> HIDE DEF k
<1> QED BY <1>1, <1>5, SessionsWhenMoved

LEMMA SessionsWhenReading ==
    ASSUME TypeInv, AccountInv, SessionInv, NEW c \in Calls,
           Reads(c) \/ InsertRevoked(c) \/ Commit(c) \/ Fail(c)
    PROVE  SessionInv'
<1>0. /\ call \in [Calls -> Records] /\ call[c] \in Records /\ Holds(call[c]) /\ Kept(call[c])
      /\ Told(c)
  BY DEF TypeInv, TypeOK, AccountInv, SessionInv
<1>e. call[c].ended \subseteq Ended BY <1>0 DEF Told, Ended, Records
<1>i. call'[c] \in Records
  <2>1. TypeInv' BY TypesWhenReading, TypesWhenWriting
  <2> QED BY <2>1 DEF TypeInv, TypeOK
<1>a. \A u \in Accounts : user'[u] = user[u]
  <2>1. CASE Commit(c)
    <3>1. c \notin Accounts BY <1>0, <2>1 DEF Told, Commit
    <3> QED BY <2>1, <3>1 DEF Commit, TypeInv, TypeOK
  <2>2. CASE ~Commit(c)
    <3>1. user' = user
      BY <2>2 DEF Reads, LookUp, LoadUser, Guard, Mint, FindEmail, InsertUser, FindUser,
                  SelectRevoked, ReadHead, AppendEvent, InsertRevoked, Fail, Step
    <3> QED BY SMTT(60), <3>1
  <2> QED BY <2>1, <2>2
<1>w. call[c].pc = "lookup" => call[c].who \in Accounts
  BY <1>0, NamesAssumption DEF Holds, Accounts, Records
\* What is left of SessionsWhenMoved for each of the steps.
<1>1. ASSUME call' = [call EXCEPT ![c] = call'[c]], call[c].pc \in Working,
             call'[c].kind = call[c].kind, call'[c].token = call[c].token,
             call'[c].ended = call[c].ended,
             call'[c].pc = "load" => call[c].pc = "lookup" /\ call'[c].who = call[c].who,
             call'[c].pc # "lookup", Kept(call'[c]), revoked \subseteq revoked',
             call'[c].kind = "logout" /\ call'[c].pc \in Past => call'[c].token \in revoked',
             \A t \in revoked' \ revoked :
               /\ call'[c].kind = "logout" /\ call'[c].token = t
               /\ call'[c].pc \in Past \cup {"failed"},
             call[c].kind = "logout" /\ call[c].pc \in Past =>
               call'[c].pc \in Past \cup {"failed"}
      PROVE  SessionInv'
  <2> DEFINE k == call'[c]
  <2>1. /\ k \in Records /\ Kept(k) /\ k.ended \subseteq Ended
        /\ k.pc \in {"lookup", "load"} => k.who \in Accounts
        /\ call' = [call EXCEPT ![c] = k]
    BY <1>e, <1>i, <1>w, <1>1
  <2> HIDE DEF k
  <2> QED BY <1>a, <1>1, <2>1, SessionsWhenMoved DEF k
<1>s. \A d \in Ended : call[d].kind = "logout" => call[d].token \in revoked
  BY DEF Ended, SessionInv, Past
<1>p. call[c].kind = "logout" /\ call[c].pc \in Past => call[c].token \in revoked
  BY DEF SessionInv
<1> USE <1>0, <1>1 DEF Step, Working, Records, Holds, Kept, Past, Cleared
<1>2. CASE LookUp(c) BY <1>2, <1>s, <1>e DEF LookUp
<1>3. CASE LoadUser(c)
  <2> DEFINE pc == IF call[c].kind = "refresh" THEN "mint" ELSE "guard"
  <2>1. /\ call[c].pc = "load" /\ UNCHANGED <<user, revoked, audited>>
        /\ call' = [call EXCEPT ![c] = [call[c] EXCEPT !.seen = user[call[c].who], !.pc = pc]]
    BY <1>3 DEF LoadUser, RowOf
  <2>2. user[call[c].who].rev >= call[c].since BY <1>0, <2>1
  <2>3. call'[c] = [call[c] EXCEPT !.seen = user[call[c].who], !.pc = pc] BY <1>0, <2>1
  <2>4. /\ call'[c].seen = user[call[c].who] /\ call'[c].pc = pc /\ pc \in {"guard", "mint"}
        /\ call'[c].kind = call[c].kind /\ call'[c].token = call[c].token
        /\ call'[c].ended = call[c].ended /\ call'[c].since = call[c].since
    BY <1>0, <2>3
  <2>5. Kept(call'[c]) BY <1>0, <2>1, <2>2, <2>4
  <2> QED BY <1>0, <2>1, <2>3, <2>4, <2>5, <1>1
<1>4. CASE Guard(c)
  <2>1. CASE Step(c, "refused") BY <1>4, <2>1 DEF Guard
  <2>2. CASE call[c].kind = "register" /\ Step(c, "find") BY <1>4, <2>2 DEF Guard
  <2>3. CASE /\ call[c].kind = "use" /\ Can(call[c].seen, call[c].permission)
             /\ Step(c, "done")
    BY <1>4, <2>3 DEF Guard
  <2> QED BY <1>4, <2>1, <2>2, <2>3 DEF Guard
<1>5. CASE Mint(c) BY <1>5 DEF Mint
<1>6. CASE FindEmail(c) BY <1>6 DEF FindEmail
<1>7. CASE InsertUser(c) BY <1>7 DEF InsertUser
<1>8. CASE FindUser(c)
  <2>1. call[c].kind = "login" /\ call[c].pc = "find" BY <1>8 DEF FindUser
  <2>2. CASE Step(c, "unknown") BY <2>1, <2>2
  <2>3. CASE Step(c, "refused") BY <2>1, <2>3
  <2>4. ASSUME NEW u, UNCHANGED <<user, revoked, audited, changes, faults>>,
               call' = [call EXCEPT ![c].who = u, ![c].seen = user[u],
                                   ![c].pc = IF user[u].active THEN "head" ELSE "refused"]
        PROVE  SessionInv'
    BY <2>1, <2>4
  <2> QED BY <1>8, <2>2, <2>3, <2>4 DEF FindUser
<1>9. CASE SelectRevoked(c) BY <1>9 DEF SelectRevoked
<1>10. CASE ReadHead(c) BY ZenonT(60), <1>10, <1>p DEF ReadHead
<1>11. CASE AppendEvent(c) BY <1>11, <1>p DEF AppendEvent
<1>12. CASE InsertRevoked(c) BY <1>12 DEF InsertRevoked
<1>13. CASE Commit(c) BY <1>13, <1>p DEF Commit
<1>14. CASE Fail(c) BY <1>14 DEF Fail
<1> QED BY <1>2, <1>3, <1>4, <1>5, <1>6, <1>7, <1>8, <1>9, <1>10, <1>11, <1>12, <1>13, <1>14
       DEF Reads

LEMMA SessionsWhenChanged ==
    ASSUME TypeInv, SessionInv, NEW u \in Accounts, Change(u)
    PROVE  SessionInv'
<1>1. PICK row \in Rows : user' = [user EXCEPT ![u] = row] /\ row.rev = user[u].rev + 1
  BY ChangesMove
<1>2. call' = call /\ revoked' = revoked BY DEF Change
<1>3. ASSUME NEW c \in Calls PROVE Kept(call[c])'
  <2>1. call[c] \in Records /\ Holds(call[c]) /\ Kept(call[c])
    BY DEF TypeInv, TypeOK, SessionInv
  <2>2. ASSUME call[c].pc \in {"lookup", "load"} PROVE user'[call[c].who].rev >= call[c].since
    <3>1. call[c].who \in Users /\ user[call[c].who] \in Rows
      BY <2>1, <2>2, NamesAssumption DEF Holds, Records, TypeInv, TypeOK
    <3>2. /\ user[call[c].who].rev \in Nat /\ call[c].since \in Nat
          /\ user[call[c].who].rev >= call[c].since
      BY <2>1, <2>2, <3>1 DEF Rows, Records, Kept
    <3> QED BY <1>1, <3>1, <3>2 DEF TypeInv, TypeOK
  <2> QED BY <1>2, <2>1, <2>2 DEF Kept, Can
<1> QED BY <1>2, <1>3 DEF SessionInv

LEMMA SessionsWhenIdle == ASSUME SessionInv, UNCHANGED vars PROVE SessionInv'
  BY DEF vars, SessionInv, Kept, Can

LEMMA SessionStep == TypeInv /\ AccountInv /\ SessionInv /\ [Next]_vars => SessionInv'
  BY Steps, SessionsWhenBegun, SessionsWhenReading, SessionsWhenChanged, SessionsWhenIdle

LEMMA SessionsFollow == TypeInv /\ AccountInv /\ SessionInv => SessionsAreTrue
<1> SUFFICES ASSUME TypeInv, AccountInv, SessionInv PROVE SessionsAreTrue OBVIOUS
<1>1. ASSUME NEW c \in Done("refresh")
      PROVE  /\ \A d \in call[c].ended : ~(call[d].kind = "logout" /\ call[d].token = call[c].token)
             /\ call[c].seen.active /\ call[c].seen.rev >= call[c].since
  BY DEF Done, SessionInv, Kept
<1>2. ASSUME NEW c \in Done("use")
      PROVE  Can(call[c].seen, call[c].permission) /\ call[c].seen.rev >= call[c].since
  BY DEF Done, SessionInv, Kept
<1>3. ASSUME NEW c \in Done("register"), call[c].token # None
      PROVE  Can(call[c].seen, call[c].permission) /\ call[c].seen.rev >= call[c].since
  <2>1. c \in Calls /\ call[c].kind = "register" /\ call[c].pc = "done" BY DEF Done
  <2>2. call[c].permission = "manage_users" BY <2>1 DEF TypeInv, Holds
  <2>3. Can(call[c].seen, "manage_users") BY <1>3, <2>1 DEF AccountInv, Told, Cleared
  <2> QED BY <1>3, <2>1, <2>2, <2>3 DEF SessionInv, Kept, Cleared
<1>4. \A c \in Calls : call[c].kind \in {"login", "logout"} => (call[c].pc = "done" <=> c \in audited)
  BY DEF AccountInv, Told, Recorded
<1>5. \A c \in Done("logout") : call[c].token \in revoked BY DEF Done, SessionInv, Past
<1>6. \A t \in revoked : \E c \in Calls :
        /\ call[c].kind = "logout" /\ call[c].token = t
        /\ call[c].pc \in {"head", "append", "commit", "done", "failed"}
  BY DEF SessionInv, Past
<1> QED BY <1>1, <1>2, <1>3, <1>4, <1>5, <1>6 DEF SessionsAreTrue

\* For any number of overlapping calls: no token is minted for a session after its logout was
\* answered, nobody is let through by a row older than the call, and logins and logouts are
\* answered exactly when they are on the audit log.
THEOREM SessionsHold == Spec => []SessionsAreTrue
<1>1. Spec => []AccountInv BY AccountInit, TypesHold, AccountStep, PTL DEF Spec
<1>2. Spec => []SessionInv BY SessionInit, TypesHold, <1>1, SessionStep, PTL DEF Spec
<1> QED BY <1>1, <1>2, TypesHold, SessionsFollow, PTL
==============================================================================
