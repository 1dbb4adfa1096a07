---------------------------- MODULE AccountSessions ----------------------------
(***************************************************************************)
(* The sessions of one account, and who ends them.                         *)
(*                                                                         *)
(* The account and its credential are rows in MySQL, sessions are keys in  *)
(* Redis, and no transaction spans both.  A login, a refresh and an access *)
(* check read one and then the other; an administrator who resets the      *)
(* password or disables the account changes the row first and deletes the  *)
(* sessions afterwards, from a list collected by a scan.  All of these     *)
(* interleave here at every call.                                          *)
(***************************************************************************)
EXTENDS Naturals, FiniteSets

CONSTANTS
    SessionIDs,    \* the IDs sessions may get
    Slots,         \* the requests in flight at once
    MaxPasswords,  \* bound on the changes of the password
    MaxTokens      \* bound on the refresh tokens of one session

ASSUME AccountBoundsAssumption == MaxPasswords \in Nat /\ MaxTokens \in Nat \ {0}

VARIABLES
    identity,   \* the account row and its credential; "cleared" is the password
                \* in force when the last account-wide revocation succeeded
    sessions,   \* the session keys
    requests,   \* the requests in flight
    admin,      \* the account-wide revocation in progress
    exchanges,  \* history: the refresh tokens that were exchanged, for which
    raced       \* history: the sessions of logins that such a revocation overtook

accountVars == <<identity, sessions, requests, admin, exchanges, raced>>

-----------------------------------------------------------------------------
(* Values *)

(* Passwords and refresh tokens are numbered in the order of their issue.  *)
Passwords == 0 .. MaxPasswords
Tokens    == 1 .. MaxTokens
Kinds     == {"login", "refresh", "access", "logout"}

Unissued  == [state |-> "unused", token |-> 0, password |-> 0]
Free      == [pc |-> "free", kind |-> "access", id |-> 0, token |-> 0, password |-> 0]
Quiet     == [pc |-> "quiet", password |-> 0, listed |-> {}]

Alive(id) == sessions[id].state = "live"
Stored    == {id \in SessionIDs : Alive(id)}
Deleted(ids) == [id \in SessionIDs |->
                    IF id \in ids THEN [sessions[id] EXCEPT !.state = "gone"] ELSE sessions[id]]

Starts(s, request) == requests[s] = Free /\ requests' = [requests EXCEPT ![s] = request]
Continues(s, pc)   == requests' = [requests EXCEPT ![s].pc = pc]
Answers(s)         == requests' = [requests EXCEPT ![s] = Free]

-----------------------------------------------------------------------------
(* Login *)

Reserved == {id \in SessionIDs : \E s \in Slots : requests[s].pc \in {"verify", "create"} /\ requests[s].id = id}

(* Provider.Authenticate: the account is active now; its credential is     *)
(* read afterwards.                                                        *)
Login(s, id, password) ==
    /\ identity.active
    /\ sessions[id] = Unissued /\ id \notin Reserved
    /\ Starts(s, [pc |-> "verify", kind |-> "login", id |-> id, token |-> 0, password |-> password])
    /\ UNCHANGED <<identity, sessions, admin, exchanges, raced>>

VerifyPassword(s) ==
    /\ requests[s].pc = "verify"
    /\ IF requests[s].password = identity.password THEN Continues(s, "create") ELSE Answers(s)
    /\ UNCHANGED <<identity, sessions, admin, exchanges, raced>>

(* IssueVerifiedAccount: a bound external identity needs no password.      *)
IssueVerified(s, id) ==
    /\ identity.active
    /\ sessions[id] = Unissued /\ id \notin Reserved
    /\ Starts(s, [pc |-> "create", kind |-> "login", id |-> id, token |-> 0,
                  password |-> identity.password])
    /\ UNCHANGED <<identity, sessions, admin, exchanges, raced>>

(* issueVerifiedPrincipal: the session is stored before its access token   *)
(* is signed, and revoked when that fails.                                 *)
Create(s) ==
    /\ requests[s].pc = "create"
    /\ sessions' = [sessions EXCEPT ![requests[s].id] =
                        [state |-> "live", token |-> 1, password |-> requests[s].password]]
    /\ Answers(s) \/ Continues(s, "revoke")
    /\ UNCHANGED <<identity, admin, exchanges, raced>>

-----------------------------------------------------------------------------
(* Use of a session *)

(* Refresh: the session holds the token that is presented.                 *)
RefreshGet(s, id, token) ==
    /\ Alive(id) /\ sessions[id].token = token
    /\ Starts(s, [pc |-> "resolve", kind |-> "refresh", id |-> id, token |-> token, password |-> 0])
    /\ UNCHANGED <<identity, sessions, admin, exchanges, raced>>

(* AuthenticateAccess, by itself or for a logout. *)
AccessGet(s, id, kind) ==
    /\ Alive(id)
    /\ Starts(s, [pc |-> "resolve", kind |-> kind, id |-> id, token |-> 0, password |-> 0])
    /\ UNCHANGED <<identity, sessions, admin, exchanges, raced>>

(* ResolveActive reads the row, not the account cache. *)
ResolveActive(s) ==
    /\ requests[s].pc = "resolve"
    /\ IF ~identity.active \/ requests[s].kind = "logout" THEN Continues(s, "revoke")
       ELSE IF requests[s].kind = "refresh" THEN Continues(s, "rotate") ELSE Answers(s)
    /\ UNCHANGED <<identity, sessions, admin, exchanges, raced>>

(* Variant: the new token is written without a look at the session. *)
RotatableBlind(id, token) == TRUE

(* Variant: the session that was read before is written back. *)
RotatableDeleted(id, token) == sessions[id].token = token

(* Store.Rotate compares and writes under WATCH. *)
Rotatable(id, token) == Alive(id) /\ sessions[id].token = token

Spent(id) == {e.from : e \in {x \in exchanges : x.id = id}}
NextToken(id) == Cardinality({e \in exchanges : e.id = id}) + 2

Rotate(s) ==
    /\ requests[s].pc = "rotate"
    /\ LET id == requests[s].id
           to == NextToken(id)
       IN  IF Rotatable(id, requests[s].token)
           THEN /\ to \in Tokens
                /\ sessions' = [sessions EXCEPT ![id].state = "live", ![id].token = to]
                /\ exchanges' = exchanges \cup {[id |-> id, from |-> requests[s].token, to |-> to]}
           ELSE UNCHANGED <<sessions, exchanges>>
    /\ Answers(s)
    /\ UNCHANGED <<identity, admin, raced>>

Revoked(id) == IF Alive(id) THEN Deleted({id}) ELSE sessions

(* Store.Revoke; only a logout tells its caller when it fails. *)
Revoke(s) ==
    /\ requests[s].pc = "revoke"
    /\ sessions' \in {Revoked(requests[s].id), sessions}
    /\ Answers(s)
    /\ UNCHANGED <<identity, admin, exchanges, raced>>

(* The key's time to live ends. *)
ExpireSession(id) ==
    /\ Alive(id)
    /\ sessions' = Deleted({id})
    /\ UNCHANGED <<identity, requests, admin, exchanges, raced>>

-----------------------------------------------------------------------------
(* Changes of the account *)

(* The player's own change of the password ends no session. *)
ChangePassword ==
    /\ identity.active
    /\ identity.password < MaxPasswords
    /\ identity' = [identity EXCEPT !.password = @ + 1]
    /\ UNCHANGED <<sessions, requests, admin, exchanges, raced>>

EnableAccount ==
    /\ ~identity.active
    /\ identity' = [identity EXCEPT !.active = TRUE]
    /\ UNCHANGED <<sessions, requests, admin, exchanges, raced>>

(* The row is changed before the sessions are listed. *)
Scanning(password) == admin = Quiet /\ admin' = [Quiet EXCEPT !.pc = "scan", !.password = password]

DisableAccount ==
    /\ identity.active
    /\ identity' = [identity EXCEPT !.active = FALSE]
    /\ Scanning(identity.password)
    /\ UNCHANGED <<sessions, requests, exchanges, raced>>

ResetPassword ==
    /\ identity.password < MaxPasswords
    /\ identity' = [identity EXCEPT !.password = @ + 1]
    /\ Scanning(identity.password + 1)
    /\ UNCHANGED <<sessions, requests, exchanges, raced>>

RevokeAccountSessions ==
    /\ Scanning(identity.password)
    /\ UNCHANGED <<identity, sessions, requests, exchanges, raced>>

(* Variant: the list holds the sessions that were never refreshed. *)
ListByAccountFirst == {id \in Stored : sessions[id].token = 1}

ListByAccount == Stored

(* RevokeByAccount.  SCAN returns what is there from its beginning to its  *)
(* end, and may return what is created meanwhile.                          *)
ScanAccount ==
    /\ admin.pc = "scan"
    /\ admin' = [admin EXCEPT !.pc = "delete", !.listed = ListByAccount]
    /\ raced' = raced \cup {requests[s].id : s \in {x \in Slots : requests[x].pc = "create"}}
    /\ UNCHANGED <<identity, sessions, requests, exchanges>>

DeleteListed ==
    /\ admin.pc = "delete"
    /\ \E late \in SUBSET (Stored \ admin.listed) :
           sessions' = Deleted((admin.listed \cap Stored) \cup late)
    /\ identity' = [identity EXCEPT !.cleared = admin.password]
    /\ admin' = Quiet
    /\ UNCHANGED <<requests, exchanges, raced>>

(* The row stays changed: DisableAccount ignores the error, ResetPassword  *)
(* reports it.                                                             *)
RevocationFails ==
    /\ admin.pc \in {"scan", "delete"}
    /\ admin' = Quiet
    /\ UNCHANGED <<identity, sessions, requests, exchanges, raced>>

-----------------------------------------------------------------------------
AccountInit ==
    /\ identity = [active |-> TRUE, password |-> 0, cleared |-> 0]
    /\ sessions = [id \in SessionIDs |-> Unissued]
    /\ requests = [s \in Slots |-> Free]
    /\ admin = Quiet
    /\ exchanges = {}
    /\ raced = {}

AccountNext ==
    \/ \E s \in Slots :
        \/ VerifyPassword(s) \/ Create(s) \/ ResolveActive(s) \/ Rotate(s) \/ Revoke(s)
        \/ \E id \in SessionIDs :
            \/ \E password \in 0 .. identity.password : Login(s, id, password)
            \/ IssueVerified(s, id)
            \/ \E token \in Tokens : RefreshGet(s, id, token)
            \/ \E kind \in {"access", "logout"} : AccessGet(s, id, kind)
    \/ \E id \in SessionIDs : ExpireSession(id)
    \/ ChangePassword \/ EnableAccount \/ DisableAccount \/ ResetPassword \/ RevokeAccountSessions
    \/ ScanAccount \/ DeleteListed \/ RevocationFails

AccountSpec == AccountInit /\ [][AccountNext]_accountVars

-----------------------------------------------------------------------------
(* Properties *)

AccountTypeOK ==
    /\ identity \in [active : BOOLEAN, password : Passwords, cleared : Passwords]
    /\ sessions \in [SessionIDs -> [state : {"unused", "live", "gone"}, token : 0 .. MaxTokens,
                                   password : Passwords]]
    /\ requests \in [Slots -> [pc : {"free", "verify", "create", "resolve", "rotate", "revoke"},
                              kind : Kinds, id : SessionIDs \cup {0}, token : 0 .. MaxTokens,
                              password : Passwords]]
    /\ admin \in [pc : {"quiet", "scan", "delete"}, password : Passwords, listed : SUBSET SessionIDs]
    /\ exchanges \subseteq [id : SessionIDs, from : Tokens, to : Tokens]
    /\ raced \subseteq SessionIDs

(* A refresh token is exchanged at most once, however often and from       *)
(* however many clients it is presented, and only the newest is accepted.  *)
TokensAreSpentOnce ==
    /\ \A e, f \in exchanges : e.id = f.id /\ e.from = f.from => e = f
    /\ \A id \in Stored : sessions[id].token \notin Spent(id)

(* A session that was revoked, by a logout, by an administrator or by its  *)
(* expiry, stays revoked: no request that had read it before stores it     *)
(* again.                                                                  *)
RevokedStaysRevoked ==
    [][\A id \in SessionIDs : sessions[id].state = "gone" => sessions'[id].state = "gone"]_accountVars

(* After a successful account-wide revocation no session is left that was  *)
(* opened under an earlier password, unless its login was between the      *)
(* check of the password and the store while the revocation listed.        *)
OldPasswordsKeepNoSession ==
    \A id \in Stored : sessions[id].password >= identity.cleared \/ id \in raced
=============================================================================
