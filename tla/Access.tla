------------------------------- MODULE Access -------------------------------
(***************************************************************************)
(* Accounts and sessions: registration, login, refresh, logout and the      *)
(* guard that every route of the API passes (register_user.py, login.py,    *)
(* refresh_access_token.py, logout.py, dependencies.py, jwt_tokens.py).     *)
(*                                                                          *)
(* Each call is a few short transactions with awaits between them.  A       *)
(* session is identified with the login that began it, a token with the     *)
(* call that minted it.  A call that begins presents a token that is well   *)
(* formed and not expired: any other is refused before anything is read.    *)
(***************************************************************************)
EXTENDS Integers

CONSTANTS
    Calls,
    Root, Session,  \* the first administrator's account, and a login of it that is over
    Addresses,      \* addresses as people type them
    Normal,         \* the stripped, lowercase spelling of each
    Roles,          \* ranks: 0 viewer, 1 operator, 2 ml_engineer, 3 administrator
    Permissions,    \* what the routes in play ask for
    None,
    MaxChanges,     \* bound: changes of accounts
    MaxFaults       \* bound: calls that raise or are cut off

Users == Calls \cup {Root}       \* an account is identified with its registration
Issuers == Calls \cup {Session}  \* what may have minted a token
MinimumRole ==
    [view_models |-> 0, submit_feedback |-> 1, promote_model |-> 2, manage_users |-> 3]

ASSUME RolesAssumption ==
    /\ Roles \subseteq 0..3 /\ 3 \in Roles
    /\ Permissions \subseteq DOMAIN MinimumRole /\ "manage_users" \in Permissions
ASSUME NamesAssumption ==
    /\ Root \notin Calls /\ Session \notin Calls
    /\ None \notin Users \cup Issuers \cup Addresses
ASSUME AddressesAssumption ==
    /\ Normal \in [Addresses -> Addresses]
    /\ \A a \in Addresses : Normal[Normal[a]] = Normal[a]
ASSUME BoundsAssumption == MaxChanges \in Nat /\ MaxFaults \in Nat

VARIABLES
    user,      \* committed rows of the users table, by id
    call,      \* what each call is doing
    revoked,   \* rows of revoked_tokens: sessions whose refresh token is revoked
    audited,   \* calls whose audit event is committed
    changes, faults

vars == <<user, call, revoked, audited, changes, faults>>

-----------------------------------------------------------------------------
(* Rows, tokens and calls *)

\* rev counts the changes of a row; the code has no such column, the properties refer to it.
Rows == [email : Addresses, role : Roles, active : BOOLEAN, rev : Nat]
ASSUME NoneAssumption == None \notin Rows
Row(address, role) == [email |-> address, role |-> role, active |-> TRUE, rev |-> 0]
Accounts == {u \in Users : user[u] # None}
Can(row, permission) == row.active /\ row.role >= MinimumRole[permission]

\* token: the issuer of the token it presents;  who: the account it is about;
\* seen: that account's row when the call read it;  head: the events on the log when it read it;
\* since, ended: the row's rev and the calls that were done when it began, for the properties.
NewCall == [kind |-> "none", pc |-> "idle", token |-> None, address |-> None, role |-> 3,
            permission |-> "manage_users", who |-> None, seen |-> None, head |-> {},
            since |-> 0, ended |-> {}]

Done(k) == {c \in Calls : call[c].kind = k /\ call[c].pc = "done"}
Ended == {c \in Calls : call[c].pc = "done"}
RefreshTokens == Done("login") \cup {Session}
AccessTokens == RefreshTokens \cup Done("refresh")
SubjectOf(t) == IF t = Session THEN Root ELSE call[t].who

Working == {"load", "guard", "find", "insert", "lookup", "mint", "merge", "revoke", "head",
            "append", "commit"}

\* Whose events and rows are written but not committed: it holds the audit log's lock.
Appending == {c \in Calls : call[c].pc = "commit"}
Failing == faults < MaxFaults /\ faults' = faults + 1

Begin(c, asked) ==
    /\ call[c].pc = "idle" /\ call' = [call EXCEPT ![c] = asked]
    /\ UNCHANGED <<user, revoked, audited, changes, faults>>
Step(c, pc) ==
    /\ call' = [call EXCEPT ![c].pc = pc]
    /\ UNCHANGED <<user, revoked, audited, changes, faults>>

Init ==
    /\ user \in {[u \in Users |-> IF u = Root THEN Row(a, 3) ELSE None] :
                   a \in {Normal[b] : b \in Addresses}}
    /\ call = [c \in Calls |-> NewCall]
    /\ revoked = {} /\ audited = {}
    /\ changes = 0 /\ faults = 0

-----------------------------------------------------------------------------
(* What begins a call *)

\* factoryai user create, and POST /auth/register behind its guard.
CreateUser(c) ==
    \E a \in Addresses, r \in Roles :
        Begin(c, [NewCall EXCEPT !.kind = "register", !.pc = "find", !.address = a, !.role = r,
                                 !.ended = Ended])

\* get_current_user takes the subject from the access token's claims.
Present(c, kind, permission, address, role) ==
    \E t \in AccessTokens :
        Begin(c, [NewCall EXCEPT !.kind = kind, !.pc = "load", !.token = t, !.address = address,
                                 !.role = role, !.permission = permission, !.who = SubjectOf(t),
                                 !.since = user[SubjectOf(t)].rev, !.ended = Ended])
Register(c) == \E a \in Addresses, r \in Roles : Present(c, "register", "manage_users", a, r)
Use(c) == \E p \in Permissions : Present(c, "use", p, None, 3)

Login(c) ==
    \E a \in Addresses :
        Begin(c, [NewCall EXCEPT !.kind = "login", !.pc = "find", !.address = a, !.ended = Ended])

\* verify_refresh_token: a token of type "refresh", which only logins mint.
Refresh(c) ==
    \E t \in RefreshTokens :
        Begin(c, [NewCall EXCEPT !.kind = "refresh", !.pc = "lookup", !.token = t,
                                 !.who = SubjectOf(t), !.since = user[SubjectOf(t)].rev,
                                 !.ended = Ended])
Logout(c) ==
    \E t \in RefreshTokens :
        Begin(c, [NewCall EXCEPT !.kind = "logout", !.pc = "merge", !.token = t,
                                 !.who = SubjectOf(t), !.ended = Ended])

-----------------------------------------------------------------------------
(* get_current_user, require_permission and RefreshAccessToken *)

\* is_revoked, in a session of its own.
LookUp(c) ==
    /\ call[c].pc = "lookup"
    /\ Step(c, IF call[c].token \in revoked THEN "refused" ELSE "load")

\* Mutant: the account is taken as it was when the token was minted.
RowAsMinted(c) ==
    IF call[c].token = Session \/ call[call[c].token].seen = None
    THEN user[call[c].who] ELSE call[call[c].token].seen

\* users.get reads the row as it is now; rows are never deleted.
RowOf(c) == user[call[c].who]
LoadUser(c) ==
    /\ call[c].pc = "load"
    /\ call' = [call EXCEPT ![c].seen = RowOf(c),
                           ![c].pc = IF call[c].kind = "refresh" THEN "mint" ELSE "guard"]
    /\ UNCHANGED <<user, revoked, audited, changes, faults>>

\* A deactivated account and one whose role does not suffice are refused.
Guard(c) ==
    /\ call[c].pc = "guard"
    /\ Step(c, IF ~Can(call[c].seen, call[c].permission) THEN "refused"
               ELSE IF call[c].kind = "register" THEN "find" ELSE "done")

\* The refresh token is not rotated.
Mint(c) ==
    /\ call[c].pc = "mint"
    /\ Step(c, IF call[c].seen.active THEN "done" ELSE "refused")

-----------------------------------------------------------------------------
(* RegisterUser and Login *)

\* Mutant: the address is looked up and stored as it was typed.
AsTyped(c) == call[c].address

KeyOf(c) == Normal[call[c].address]
With(key) == {u \in Accounts : user[u].email = key}

FindEmail(c) ==
    /\ call[c].kind = "register" /\ call[c].pc = "find"
    /\ Step(c, IF With(KeyOf(c)) # {} THEN "conflict" ELSE "insert")

\* The flush waits for an uncommitted row with the same email and fails on a committed one.
Inserted == {c \in Calls : call[c].kind = "register" /\ call[c].pc \in {"head", "append", "commit"}}
InsertUser(c) ==
    /\ call[c].pc = "insert" /\ \A d \in Inserted : KeyOf(d) # KeyOf(c)
    /\ Step(c, IF With(KeyOf(c)) # {} THEN "failed" ELSE "head")

\* find_by_email, then the password, then whether the account is active.
FindUser(c) ==
    /\ call[c].kind = "login" /\ call[c].pc = "find"
    /\ \/ With(KeyOf(c)) = {} /\ Step(c, "unknown")
       \/ With(KeyOf(c)) # {} /\ Step(c, "refused")   \* a wrong password
       \/ \E u \in With(KeyOf(c)) :
            /\ call' = [call EXCEPT ![c].who = u, ![c].seen = user[u],
                                   ![c].pc = IF user[u].active THEN "head" ELSE "refused"]
            /\ UNCHANGED <<user, revoked, audited, changes, faults>>

-----------------------------------------------------------------------------
(* Logout: revoke commits a transaction of its own before the audit event is written *)

\* session.merge selects the row; one that exists is updated.
SelectRevoked(c) ==
    /\ call[c].pc = "merge"
    /\ Step(c, IF call[c].token \in revoked THEN "head" ELSE "revoke")

\* It inserts the row that it did not find, which fails if another logout has by now.
InsertRevoked(c) ==
    /\ call[c].pc = "revoke"
    /\ call' = [call EXCEPT ![c].pc = IF call[c].token \in revoked THEN "failed" ELSE "head"]
    /\ revoked' = revoked \cup {call[c].token}
    /\ UNCHANGED <<user, audited, changes, faults>>

-----------------------------------------------------------------------------
(* The audit event and the commit of a registration, a login or a logout *)

ReadHead(c) ==
    /\ call[c].pc = "head"
    /\ call' = [call EXCEPT ![c].pc = "append", ![c].head = audited]
    /\ UNCHANGED <<user, revoked, audited, changes, faults>>

\* append waits for the advisory lock and refuses an event that does not follow the last one.
AppendEvent(c) ==
    /\ call[c].pc = "append" /\ Appending = {}
    /\ Step(c, IF call[c].head = audited THEN "commit" ELSE "failed")

Commit(c) ==
    /\ call[c].pc = "commit"
    /\ call' = [call EXCEPT ![c].pc = "done"]
    /\ audited' = audited \cup {c}
    /\ user' = IF call[c].kind = "register"
               THEN [user EXCEPT ![c] = Row(KeyOf(c), call[c].role)] ELSE user
    /\ UNCHANGED <<revoked, changes, faults>>

\* Anything may raise or be cut off: the open transaction is rolled back.
Fail(c) ==
    /\ call[c].pc \in Working /\ faults < MaxFaults /\ faults' = faults + 1
    /\ call' = [call EXCEPT ![c].pc = "failed"]
    /\ UNCHANGED <<user, revoked, audited, changes>>

-----------------------------------------------------------------------------
\* An account gets another role, is deactivated or reactivated.
Change(u) ==
    /\ changes < MaxChanges /\ changes' = changes + 1
    /\ \E r \in Roles, active \in BOOLEAN :
         /\ <<r, active>> # <<user[u].role, user[u].active>>
         /\ user' = [user EXCEPT ![u] =
                     [email |-> @.email, role |-> r, active |-> active, rev |-> @.rev + 1]]
    /\ UNCHANGED <<call, revoked, audited, faults>>

Next ==
    \/ \E c \in Calls :
         \/ CreateUser(c) \/ Register(c) \/ Use(c) \/ Login(c) \/ Refresh(c) \/ Logout(c)
         \/ LookUp(c) \/ LoadUser(c) \/ Guard(c) \/ Mint(c)
         \/ FindEmail(c) \/ InsertUser(c) \/ FindUser(c)
         \/ SelectRevoked(c) \/ InsertRevoked(c)
         \/ ReadHead(c) \/ AppendEvent(c) \/ Commit(c) \/ Fail(c)
    \/ \E u \in Accounts : Change(u)

Spec == Init /\ [][Next]_vars

-----------------------------------------------------------------------------
(* Properties *)

Records ==
    [kind : {"none", "register", "use", "login", "refresh", "logout"},
     pc : Working \cup {"idle", "done", "refused", "unknown", "conflict", "failed"},
     token : Issuers \cup {None}, address : Addresses \cup {None}, role : Roles,
     permission : Permissions, who : Users \cup {None}, seen : Rows \cup {None},
     head : SUBSET Calls, since : Nat, ended : SUBSET Calls]

\* The types of the rows and the calls; the bounds hold.
TypeOK ==
    /\ user \in [Users -> Rows \cup {None}] /\ user[Root] # None
    /\ call \in [Calls -> Records]
    /\ revoked \subseteq Issuers /\ audited \subseteq Calls
    /\ changes \in 0..MaxChanges /\ faults \in 0..MaxFaults

\* However an address is spelled and however registrations overlap: it has one account; who is
\* told that it is taken is told the truth, and who logs in after a registration was answered
\* is not told that the address is unknown.  An account other than the first exists exactly
\* when its registration is on the audit log, and the registration was a command of the
\* operator's or of an account that could manage users (RegisterUser.execute).
AccountsAreTrue ==
    /\ \A u, v \in Accounts : Normal[user[u].email] = Normal[user[v].email] => u = v
    /\ \A c \in Calls :
         /\ call[c].pc = "conflict" =>
              \E u \in Accounts : user[u].email = Normal[call[c].address]
         /\ call[c].pc = "unknown" =>
              \A d \in call[c].ended :
                 call[d].kind = "register" => Normal[call[d].address] # Normal[call[c].address]
         /\ c \in Accounts <=> c \in audited /\ call[c].kind = "register"
         /\ c \in Accounts => call[c].pc = "done" /\ user[c].email = Normal[call[c].address]
         /\ c \in Accounts /\ call[c].token # None => Can(call[c].seen, "manage_users")

\* A session ends with its logout: a refresh that begins after one was answered mints nothing,
\* and what is revoked or on the audit log is explained by a logout that got that far.  A
\* change of an account takes effect at once: whoever is let through, or handed a token, had
\* the right to it by a row no older than the call, whatever role the token names
\* (Logout.execute, RefreshAccessToken.execute, get_current_user).
SessionsAreTrue ==
    /\ \A c \in Done("refresh") : \A d \in call[c].ended :
         ~(call[d].kind = "logout" /\ call[d].token = call[c].token)
    /\ \A c \in Done("refresh") : call[c].seen.active /\ call[c].seen.rev >= call[c].since
    /\ \A c \in Done("use") \cup {d \in Done("register") : call[d].token # None} :
         Can(call[c].seen, call[c].permission) /\ call[c].seen.rev >= call[c].since
    /\ \A c \in Calls : call[c].kind \in {"login", "logout"} =>
         (call[c].pc = "done" <=> c \in audited)
    /\ \A c \in Done("logout") : call[c].token \in revoked
    /\ \A t \in revoked : \E c \in Calls :
         /\ call[c].kind = "logout" /\ call[c].token = t
         /\ call[c].pc \in {"head", "append", "commit", "done", "failed"}
=============================================================================
