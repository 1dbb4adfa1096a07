--------------------------- MODULE PlatformProofs ---------------------------
(***************************************************************************)
(* Proofs about the services of src/server/platform: AccountSessions, for  *)
(* any sessions, requests and bounds; PolicyCluster, for any instances,    *)
(* accounts and numbers of writes and failures; CatalogCache, for any rows,*)
(* requests and number of writes; RealtimeHub, and HandNews with the       *)
(* bridge that tells the hub the moves of a hand, for any connections,     *)
(* accounts, limits and numbers of moves.                                  *)
(***************************************************************************)
EXTENDS AccountSessions, PolicyCluster, CatalogCache, HandNews, RealtimeHub,
        FiniteSetTheorems, SequenceTheorems, TLAPS

-----------------------------------------------------------------------------
(***************************************************************************)
(* AccountSessions.                                                        *)
(*                                                                         *)
(* A deleted session could come back through a login that stores it late   *)
(* or through a refresh that had read it.  The first is excluded because   *)
(* no two logins work on one session ID and none on an ID that was stored; *)
(* the second by the comparison under WATCH.  That a token is exchanged    *)
(* once rests on counting: the token of a live session is one more than    *)
(* the number of its exchanges, and every exchanged token is smaller.      *)
(***************************************************************************)
PCs            == {"free", "verify", "create", "resolve", "rotate", "revoke"}
SessionRecords == [state : {"unused", "live", "gone"}, token : 0 .. MaxTokens, password : Passwords]
RequestRecords == [pc : PCs, kind : Kinds, id : SessionIDs \cup {0}, token : 0 .. MaxTokens,
                   password : Passwords]
AdminRecords   == [pc : {"quiet", "scan", "delete"}, password : Passwords,
                   listed : SUBSET SessionIDs]

Opens(r)      == r.pc \in {"verify", "create"}
Exchanged(id) == {e \in exchanges : e.id = id}

(* A request works on a session; a login on one of its own that was never  *)
(* stored.                                                                 *)
LoginsOwnSessions ==
    /\ \A s \in Slots : requests[s].pc # "free" => requests[s].id \in SessionIDs
    /\ \A s \in Slots : Opens(requests[s]) => sessions[requests[s].id].state = "unused"
    /\ \A s, t \in Slots :
          s # t /\ Opens(requests[s]) /\ Opens(requests[t]) => requests[s].id # requests[t].id

(* Exchanges count up the tokens of their session. *)
ExchangesCount ==
    /\ IsFiniteSet(exchanges)
    /\ \A id \in SessionIDs : sessions[id].state = "unused" => Exchanged(id) = {}
    /\ \A id \in Stored : sessions[id].token = Cardinality(Exchanged(id)) + 1
    /\ \A e \in exchanges : e.from <= Cardinality(Exchanged(e.id))
    /\ \A e, f \in exchanges : e.id = f.id /\ e.from = f.from => e = f

AccountInv == AccountTypeOK /\ LoginsOwnSessions /\ ExchangesCount

-----------------------------------------------------------------------------
(* The values of the model are typed. *)
LEMMA ZerosAreTyped ==
    /\ 0 \in Passwords /\ 0 \in 0 .. MaxTokens /\ 1 \in 0 .. MaxTokens /\ Tokens \subseteq 0 .. MaxTokens
    /\ Free \in RequestRecords /\ Free.pc = "free" /\ Unissued \in SessionRecords
    /\ Quiet \in AdminRecords
  BY AccountBoundsAssumption
     DEF Passwords, Tokens, Free, Unissued, Quiet, RequestRecords, SessionRecords, AdminRecords, PCs, Kinds

(* A request that continues changes its step only. *)
LEMMA ContinuingIsTyped ==
    ASSUME NEW q \in RequestRecords, NEW pc \in PCs
    PROVE  LET r == [q EXCEPT !.pc = pc]
           IN  /\ r \in RequestRecords /\ r.pc = pc /\ r.kind = q.kind /\ r.id = q.id
               /\ r.token = q.token /\ r.password = q.password
<1> DEFINE r == [pc |-> pc, kind |-> q.kind, id |-> q.id, token |-> q.token, password |-> q.password]
<1>1. q = [pc |-> q.pc, kind |-> q.kind, id |-> q.id, token |-> q.token, password |-> q.password]
  BY DEF RequestRecords
<1>2. [q EXCEPT !.pc = pc] = r
  BY <1>1
<1>3. r \in RequestRecords
  BY DEF RequestRecords
<1> QED
  BY <1>2, <1>3

(* What is read of a session that is deleted. *)
LEMMA DeletedSessions ==
    ASSUME sessions \in [SessionIDs -> SessionRecords], NEW ids, ids \subseteq Stored
    PROVE  /\ Deleted(ids) \in [SessionIDs -> SessionRecords]
           /\ \A id \in SessionIDs : id \notin ids => Deleted(ids)[id] = sessions[id]
           /\ \A id \in ids : Deleted(ids)[id].state = "gone" /\ sessions[id].state = "live"
<1>1. \A id \in SessionIDs :
          [sessions[id] EXCEPT !.state = "gone"]
            = [state |-> "gone", token |-> sessions[id].token, password |-> sessions[id].password]
  <2> SUFFICES ASSUME NEW q \in SessionRecords
               PROVE  [q EXCEPT !.state = "gone"]
                        = [state |-> "gone", token |-> q.token, password |-> q.password]
    OBVIOUS
  <2>1. q = [state |-> q.state, token |-> q.token, password |-> q.password]
    BY DEF SessionRecords
  <2> QED
    BY <2>1
<1>2. \A id \in SessionIDs : sessions[id] \in SessionRecords
  OBVIOUS
<1>3. \A id \in SessionIDs :
          [state |-> "gone", token |-> sessions[id].token, password |-> sessions[id].password]
            \in SessionRecords
  BY <1>2 DEF SessionRecords
<1>4. \A id \in SessionIDs :
          /\ Deleted(ids)[id] \in SessionRecords
          /\ id \notin ids => Deleted(ids)[id] = sessions[id]
          /\ id \in ids => Deleted(ids)[id].state = "gone"
  BY <1>1, <1>2, <1>3 DEF Deleted
<1>5. ids \subseteq SessionIDs /\ \A id \in ids : sessions[id].state = "live"
  BY DEF Stored, Alive
<1>6. Deleted(ids) = [id \in SessionIDs |-> Deleted(ids)[id]]
  BY DEF Deleted
<1> QED
  BY <1>4, <1>5, <1>6

(* The invariant holds initially. *)
LEMMA AccountStarts == AccountInit => AccountInv
<1> SUFFICES ASSUME AccountInit PROVE AccountInv
  OBVIOUS
<1>1. AccountTypeOK
  BY ZerosAreTyped DEF AccountInit, AccountTypeOK, RequestRecords, SessionRecords, AdminRecords, PCs
<1>2. LoginsOwnSessions
  BY ZerosAreTyped DEF AccountInit, LoginsOwnSessions, Opens
<1>3. ExchangesCount
  <2>1. IsFiniteSet(exchanges)
    BY FS_EmptySet DEF AccountInit
  <2>2. Stored = {}
    BY DEF AccountInit, Stored, Alive, Unissued
  <2> QED
    BY <2>1, <2>2 DEF AccountInit, ExchangesCount, Exchanged
<1> QED
  BY <1>1, <1>2, <1>3 DEF AccountInv
-----------------------------------------------------------------------------
(* Steps that only move a request: it rests, or works on a session, and a  *)
(* login that begins or continues has a session of its own.                *)
LEMMA RequestMoves ==
    ASSUME AccountInv, NEW s \in Slots, NEW r \in RequestRecords,
           UNCHANGED <<identity, sessions, admin, exchanges, raced>>,
           requests' = [requests EXCEPT ![s] = r],
           r.pc # "free" => r.id \in SessionIDs,
           Opens(r) => /\ sessions[r.id].state = "unused"
                       /\ \A t \in Slots : t # s /\ Opens(requests[t]) => requests[t].id # r.id
    PROVE  AccountInv'
<1>0. AccountTypeOK /\ LoginsOwnSessions /\ ExchangesCount
  BY DEF AccountInv
<1>1. requests'[s] = r /\ \A t \in Slots : t # s => requests'[t] = requests[t]
  BY <1>0 DEF AccountTypeOK
<1>2. AccountTypeOK'
  BY <1>0 DEF AccountTypeOK, RequestRecords, PCs
<1>3. LoginsOwnSessions'
  BY <1>0, <1>1 DEF LoginsOwnSessions, Opens
<1>4. ExchangesCount'
  BY <1>0 DEF ExchangesCount, Exchanged, Stored, Alive
<1> QED
  BY <1>2, <1>3, <1>4 DEF AccountInv

(* A request that continues stays a login, or is none. *)
LEMMA ContinuingKeeps ==
    ASSUME AccountInv, NEW s \in Slots, NEW pc \in PCs, Continues(s, pc),
           requests[s].pc # "free", pc \in {"verify", "create"} => Opens(requests[s]),
           UNCHANGED <<identity, sessions, admin, exchanges, raced>>
    PROVE  AccountInv'
<1> DEFINE r == [requests[s] EXCEPT !.pc = pc]
<1>0. AccountTypeOK /\ LoginsOwnSessions
  BY DEF AccountInv
<1>1. requests[s] \in RequestRecords
  BY <1>0 DEF AccountTypeOK, RequestRecords, PCs
<1>2. r \in RequestRecords /\ r.pc = pc /\ r.id = requests[s].id
  BY <1>1, ContinuingIsTyped
<1>3. requests' = [requests EXCEPT ![s] = r]
  BY DEF Continues
<1> HIDE DEF r
<1>4. r.id \in SessionIDs
  BY <1>0, <1>2 DEF LoginsOwnSessions
<1>5. Opens(r) => /\ sessions[r.id].state = "unused"
                  /\ \A t \in Slots : t # s /\ Opens(requests[t]) => requests[t].id # r.id
  BY <1>0, <1>2 DEF LoginsOwnSessions, Opens
<1> QED
  BY <1>2, <1>3, <1>4, <1>5, RequestMoves

LEMMA AnsweringKeeps ==
    ASSUME AccountInv, NEW s \in Slots, Answers(s),
           UNCHANGED <<identity, sessions, admin, exchanges, raced>>
    PROVE  AccountInv'
  BY RequestMoves, ZerosAreTyped DEF Answers, Opens

(* A login that begins takes an ID that no other login and no session has. *)
LEMMA OpeningKeeps ==
    ASSUME AccountInv, NEW s \in Slots, NEW id \in SessionIDs, NEW pc \in {"verify", "create"},
           NEW password \in Passwords, sessions[id] = Unissued, id \notin Reserved,
           Starts(s, [pc |-> pc, kind |-> "login", id |-> id, token |-> 0, password |-> password]),
           UNCHANGED <<identity, sessions, admin, exchanges, raced>>
    PROVE  AccountInv'
<1> DEFINE r == [pc |-> pc, kind |-> "login", id |-> id, token |-> 0, password |-> password]
<1>1. r \in RequestRecords
  BY ZerosAreTyped DEF RequestRecords, PCs, Kinds
<1>2. requests' = [requests EXCEPT ![s] = r]
  BY DEF Starts
<1>3. r.id = id
  OBVIOUS
<1> HIDE DEF r
<1>4. sessions[id].state = "unused"
  BY DEF Unissued
<1>5. \A t \in Slots : Opens(requests[t]) => requests[t].id # id
  BY DEF Reserved, Opens
<1> QED
  BY <1>1, <1>2, <1>3, <1>4, <1>5, RequestMoves

(* A request that begins to use a session. *)
LEMMA UsingKeeps ==
    ASSUME AccountInv, NEW s \in Slots, NEW id \in SessionIDs, NEW token \in 0 .. MaxTokens,
           NEW kind \in Kinds,
           Starts(s, [pc |-> "resolve", kind |-> kind, id |-> id, token |-> token, password |-> 0]),
           UNCHANGED <<identity, sessions, admin, exchanges, raced>>
    PROVE  AccountInv'
<1> DEFINE r == [pc |-> "resolve", kind |-> kind, id |-> id, token |-> token, password |-> 0]
<1>1. r \in RequestRecords
  BY ZerosAreTyped DEF RequestRecords, PCs
<1>2. requests' = [requests EXCEPT ![s] = r]
  BY DEF Starts
<1>3. r.id = id /\ ~Opens(r)
  BY DEF Opens
<1> HIDE DEF r
<1> QED
  BY <1>1, <1>2, <1>3, RequestMoves

LEMMA LoginKeeps ==
    ASSUME AccountInv, NEW s \in Slots, NEW id \in SessionIDs,
           NEW password \in 0 .. identity.password, Login(s, id, password)
    PROVE  AccountInv'
<1>1. identity.password \in Passwords
  BY DEF AccountInv, AccountTypeOK
<1>2. password \in Passwords
  BY <1>1, AccountBoundsAssumption DEF Passwords
<1> QED
  BY <1>2, OpeningKeeps DEF Login

LEMMA IssueVerifiedKeeps ==
    ASSUME AccountInv, NEW s \in Slots, NEW id \in SessionIDs, IssueVerified(s, id)
    PROVE  AccountInv'
<1>1. identity.password \in Passwords
  BY DEF AccountInv, AccountTypeOK
<1> QED
  BY <1>1, OpeningKeeps DEF IssueVerified

LEMMA VerifyPasswordKeeps ==
    ASSUME AccountInv, NEW s \in Slots, VerifyPassword(s)
    PROVE  AccountInv'
<1>1. ASSUME Continues(s, "create") PROVE AccountInv'
  BY <1>1, ContinuingKeeps DEF VerifyPassword, PCs, Opens
<1>2. ASSUME Answers(s) PROVE AccountInv'
  BY <1>2, AnsweringKeeps DEF VerifyPassword
<1> QED
  BY <1>1, <1>2 DEF VerifyPassword

LEMMA UsesKeep ==
    ASSUME AccountInv, NEW s \in Slots, NEW id \in SessionIDs
    PROVE  /\ \A token \in Tokens : RefreshGet(s, id, token) => AccountInv'
           /\ \A kind \in {"access", "logout"} : AccessGet(s, id, kind) => AccountInv'
<1>1. ASSUME NEW token \in Tokens, RefreshGet(s, id, token) PROVE AccountInv'
  BY <1>1, UsingKeeps, ZerosAreTyped DEF RefreshGet, Kinds
<1>2. ASSUME NEW kind \in {"access", "logout"}, AccessGet(s, id, kind) PROVE AccountInv'
  BY <1>2, UsingKeeps, ZerosAreTyped DEF AccessGet, Kinds
<1> QED
  BY <1>1, <1>2

LEMMA ResolveActiveKeeps ==
    ASSUME AccountInv, NEW s \in Slots, ResolveActive(s)
    PROVE  AccountInv'
<1>1. ASSUME Continues(s, "revoke") \/ Continues(s, "rotate") PROVE AccountInv'
  BY <1>1, ContinuingKeeps DEF ResolveActive, PCs
<1>2. ASSUME Answers(s) PROVE AccountInv'
  BY <1>2, AnsweringKeeps DEF ResolveActive
<1> QED
  BY <1>1, <1>2 DEF ResolveActive
-----------------------------------------------------------------------------
(* Steps that delete sessions or none, and end requests or none.           *)

IdentityRecords == [active : BOOLEAN, password : Passwords, cleared : Passwords]

LEMMA DeletingKeeps ==
    ASSUME AccountInv, AccountTypeOK', UNCHANGED exchanges,
           \A id \in SessionIDs :
               \/ sessions'[id] = sessions[id]
               \/ sessions'[id].state = "gone" /\ sessions[id].state = "live",
           \A s \in Slots : requests'[s] = requests[s] \/ requests'[s].pc = "free"
    PROVE  AccountInv'
<1>0. AccountTypeOK /\ LoginsOwnSessions /\ ExchangesCount
  BY DEF AccountInv
<1>1. LoginsOwnSessions'
  <2>1. \A s \in Slots : requests'[s].pc # "free" => requests'[s] = requests[s]
    OBVIOUS
  <2>2. \A id \in SessionIDs : sessions[id].state = "unused" => sessions'[id].state = "unused"
    OBVIOUS
  <2> QED
    BY <1>0, <2>1, <2>2 DEF LoginsOwnSessions, Opens
<1>2. ExchangesCount'
  <2>1. \A id \in SessionIDs :
            sessions'[id].state \in {"unused", "live"} => sessions'[id] = sessions[id]
    OBVIOUS
  <2>2. \A id : Exchanged(id)' = Exchanged(id)
    BY DEF Exchanged
  <2>3. \A id \in Stored' : id \in Stored /\ sessions'[id] = sessions[id]
    BY <2>1 DEF Stored, Alive
  <2>4. \A id \in SessionIDs : sessions'[id].state = "unused" => Exchanged(id)' = {}
    BY <1>0, <2>1, <2>2 DEF ExchangesCount
  <2>5. \A id \in Stored' : sessions'[id].token = Cardinality(Exchanged(id)) + 1
    BY <1>0, <2>3 DEF ExchangesCount
  <2> QED
    BY <1>0, <2>2, <2>4, <2>5 DEF ExchangesCount, Exchanged
<1> QED
  BY <1>1, <1>2 DEF AccountInv

(* The fields of the account and of the revocation that steps change. *)
LEMMA IdentityChanges ==
    ASSUME identity \in IdentityRecords, NEW b \in BOOLEAN, NEW p \in Passwords
    PROVE  /\ [identity EXCEPT !.active = b] \in IdentityRecords
           /\ [identity EXCEPT !.password = p] \in IdentityRecords
           /\ [identity EXCEPT !.cleared = p] \in IdentityRecords
  BY DEF IdentityRecords

LEMMA ScanningIsTyped ==
    ASSUME NEW password \in Passwords, Scanning(password)
    PROVE  admin' \in AdminRecords
  BY DEF Scanning, Quiet, AdminRecords

LEMMA ChangesKeep ==
    ASSUME AccountInv,
           \/ ChangePassword \/ EnableAccount \/ DisableAccount \/ ResetPassword
           \/ RevokeAccountSessions
    PROVE  AccountInv'
<1>0. AccountTypeOK
  BY DEF AccountInv
<1>1. identity \in IdentityRecords
  BY <1>0 DEF AccountTypeOK, IdentityRecords
<1>2. identity.password \in Passwords
        /\ (identity.password < MaxPasswords => identity.password + 1 \in Passwords)
  BY <1>1, AccountBoundsAssumption DEF IdentityRecords, Passwords
<1>3. identity' \in IdentityRecords
  BY <1>1, <1>2, IdentityChanges
     DEF ChangePassword, EnableAccount, DisableAccount, ResetPassword, RevokeAccountSessions
<1>4. admin' \in AdminRecords
  <2>1. admin \in AdminRecords
    BY <1>0 DEF AccountTypeOK, AdminRecords
  <2> QED
    BY <1>2, <2>1, ScanningIsTyped
       DEF ChangePassword, EnableAccount, DisableAccount, ResetPassword, RevokeAccountSessions
<1>5. UNCHANGED <<sessions, requests, exchanges, raced>>
  BY DEF ChangePassword, EnableAccount, DisableAccount, ResetPassword, RevokeAccountSessions
<1>6. AccountTypeOK'
  BY <1>0, <1>3, <1>4, <1>5 DEF AccountTypeOK, IdentityRecords, AdminRecords
<1> QED
  BY <1>5, <1>6, DeletingKeeps

LEMMA ScanAccountKeeps ==
    ASSUME AccountInv, ScanAccount
    PROVE  AccountInv'
<1>0. AccountTypeOK /\ LoginsOwnSessions
  BY DEF AccountInv
<1>1. admin' \in AdminRecords
  <2>1. admin \in AdminRecords /\ ListByAccount \in SUBSET SessionIDs
    BY <1>0 DEF AccountTypeOK, AdminRecords, ListByAccount, Stored
  <2> QED
    BY <2>1 DEF ScanAccount, AdminRecords
<1>2. raced' \subseteq SessionIDs
  BY <1>0 DEF ScanAccount, AccountTypeOK, LoginsOwnSessions
<1>3. AccountTypeOK'
  BY <1>0, <1>1, <1>2 DEF ScanAccount, AccountTypeOK, AdminRecords
<1> QED
  BY <1>3, DeletingKeeps DEF ScanAccount

LEMMA RevocationFailsKeeps ==
    ASSUME AccountInv, RevocationFails
    PROVE  AccountInv'
<1>1. AccountTypeOK'
  BY ZerosAreTyped DEF AccountInv, AccountTypeOK, RevocationFails, AdminRecords
<1> QED
  BY <1>1, DeletingKeeps DEF RevocationFails

LEMMA DeleteListedKeeps ==
    ASSUME AccountInv, DeleteListed
    PROVE  AccountInv'
<1>0. AccountTypeOK
  BY DEF AccountInv
<1>1. sessions \in [SessionIDs -> SessionRecords]
  BY <1>0 DEF AccountTypeOK, SessionRecords
<1>2. PICK ids : ids \subseteq Stored /\ sessions' = Deleted(ids)
  BY DEF DeleteListed
<1>3. /\ sessions' \in [SessionIDs -> SessionRecords]
      /\ \A id \in SessionIDs :
            \/ sessions'[id] = sessions[id]
            \/ sessions'[id].state = "gone" /\ sessions[id].state = "live"
  BY <1>1, <1>2, DeletedSessions
<1>4. identity' \in IdentityRecords
  <2>1. identity \in IdentityRecords /\ admin.password \in Passwords
    BY <1>0 DEF AccountTypeOK, IdentityRecords
  <2> QED
    BY <2>1, IdentityChanges DEF DeleteListed
<1>5. AccountTypeOK'
  BY <1>0, <1>3, <1>4, ZerosAreTyped
     DEF DeleteListed, AccountTypeOK, IdentityRecords, SessionRecords, AdminRecords
<1> QED
  BY <1>3, <1>5, DeletingKeeps DEF DeleteListed

LEMMA ExpireSessionKeeps ==
    ASSUME AccountInv, NEW id \in SessionIDs, ExpireSession(id)
    PROVE  AccountInv'
<1>0. AccountTypeOK
  BY DEF AccountInv
<1>1. sessions \in [SessionIDs -> SessionRecords] /\ {id} \subseteq Stored
  BY <1>0 DEF AccountTypeOK, SessionRecords, ExpireSession, Stored
<1>2. /\ sessions' \in [SessionIDs -> SessionRecords]
      /\ \A i \in SessionIDs :
            \/ sessions'[i] = sessions[i]
            \/ sessions'[i].state = "gone" /\ sessions[i].state = "live"
  BY <1>1, DeletedSessions DEF ExpireSession
<1>3. AccountTypeOK'
  BY <1>0, <1>2 DEF ExpireSession, AccountTypeOK, SessionRecords
<1> QED
  BY <1>2, <1>3, DeletingKeeps DEF ExpireSession

LEMMA RevokeKeeps ==
    ASSUME AccountInv, NEW s \in Slots, Revoke(s)
    PROVE  AccountInv'
<1> DEFINE id == requests[s].id
<1>0. AccountTypeOK /\ LoginsOwnSessions
  BY DEF AccountInv
<1>1. sessions \in [SessionIDs -> SessionRecords] /\ id \in SessionIDs
  BY <1>0 DEF AccountTypeOK, SessionRecords, Revoke, LoginsOwnSessions
<1>2. Alive(id) => {id} \subseteq Stored
  BY <1>1 DEF Stored
<1>3. sessions' = sessions \/ (Alive(id) /\ sessions' = Deleted({id}))
  BY DEF Revoke, Revoked
<1>4. /\ sessions' \in [SessionIDs -> SessionRecords]
      /\ \A i \in SessionIDs :
            \/ sessions'[i] = sessions[i]
            \/ sessions'[i].state = "gone" /\ sessions[i].state = "live"
  BY <1>1, <1>2, <1>3, DeletedSessions
<1>5. requests' \in [Slots -> RequestRecords] /\ requests'[s] = Free
        /\ \A t \in Slots : t # s => requests'[t] = requests[t]
  BY <1>0, ZerosAreTyped DEF Revoke, Answers, AccountTypeOK, RequestRecords, PCs
<1>6. AccountTypeOK'
  BY <1>0, <1>4, <1>5 DEF Revoke, AccountTypeOK, SessionRecords, RequestRecords, PCs
<1> QED
  BY <1>4, <1>5, <1>6, DeletingKeeps, ZerosAreTyped DEF Revoke
-----------------------------------------------------------------------------
(* A login stores a session that nobody exchanged a token of. *)
LEMMA CreateKeeps ==
    ASSUME AccountInv, NEW s \in Slots, Create(s)
    PROVE  AccountInv'
<1> DEFINE id == requests[s].id
           new == [state |-> "live", token |-> 1, password |-> requests[s].password]
<1>0. AccountTypeOK /\ LoginsOwnSessions /\ ExchangesCount
  BY DEF AccountInv
<1>1. requests[s] \in RequestRecords /\ Opens(requests[s]) /\ id \in SessionIDs
  BY <1>0 DEF AccountTypeOK, RequestRecords, PCs, Create, Opens, LoginsOwnSessions
<1>2. PICK r \in RequestRecords : requests' = [requests EXCEPT ![s] = r] /\ ~Opens(r)
                                  /\ (r.pc # "free" => r.id = id)
  <2>1. ASSUME Answers(s)
        PROVE  \E r \in RequestRecords : requests' = [requests EXCEPT ![s] = r] /\ ~Opens(r)
                                         /\ (r.pc # "free" => r.id = id)
    BY <2>1, ZerosAreTyped DEF Answers, Opens
  <2>2. ASSUME Continues(s, "revoke")
        PROVE  \E r \in RequestRecords : requests' = [requests EXCEPT ![s] = r] /\ ~Opens(r)
                                         /\ (r.pc # "free" => r.id = id)
    <3> DEFINE r == [requests[s] EXCEPT !.pc = "revoke"]
    <3>1. r \in RequestRecords /\ r.pc = "revoke" /\ r.id = id
      BY <1>1, ContinuingIsTyped DEF PCs
    <3>2. requests' = [requests EXCEPT ![s] = r]
      BY <2>2 DEF Continues
    <3> HIDE DEF r
    <3> QED
      BY <3>1, <3>2 DEF Opens
  <2> QED
    BY <2>1, <2>2 DEF Create
<1>3. requests'[s] = r /\ \A t \in Slots : t # s => requests'[t] = requests[t]
  BY <1>0, <1>2 DEF AccountTypeOK
<1>4. sessions' = [sessions EXCEPT ![id] = new] /\ UNCHANGED <<identity, admin, exchanges, raced>>
  BY DEF Create
<1>5. new \in SessionRecords
  BY <1>1, ZerosAreTyped DEF SessionRecords, RequestRecords
<1>6. AccountTypeOK'
  <2>1. requests' \in [Slots -> RequestRecords]
    BY <1>0, <1>2 DEF AccountTypeOK, RequestRecords, PCs
  <2>2. sessions' \in [SessionIDs -> SessionRecords]
    BY <1>0, <1>4, <1>5 DEF AccountTypeOK, SessionRecords
  <2> QED
    BY <1>0, <1>4, <2>1, <2>2 DEF AccountTypeOK, SessionRecords, RequestRecords, PCs
<1> HIDE DEF new
<1>7. sessions'[id] = new /\ \A i \in SessionIDs : i # id => sessions'[i] = sessions[i]
  BY <1>0, <1>1, <1>4 DEF AccountTypeOK
<1>8. new.state = "live" /\ new.token = 1 /\ sessions[id].state = "unused"
  BY <1>0, <1>1 DEF new, LoginsOwnSessions
<1>9. LoginsOwnSessions'
  <2>1. \A t \in Slots : Opens(requests'[t]) => t # s /\ requests'[t] = requests[t]
    BY <1>2, <1>3
  <2>2. \A t \in Slots : t # s /\ Opens(requests[t]) => requests[t].id # id
    BY <1>0, <1>1 DEF LoginsOwnSessions
  <2>3. \A t \in Slots : requests'[t].pc # "free" => requests'[t].id \in SessionIDs
    BY <1>0, <1>1, <1>2, <1>3 DEF LoginsOwnSessions
  <2>4. \A t \in Slots : Opens(requests'[t]) => sessions'[requests'[t].id].state = "unused"
    BY <1>0, <1>7, <2>1, <2>2, <2>3 DEF LoginsOwnSessions, Opens
  <2>5. \A t, u \in Slots :
            t # u /\ Opens(requests'[t]) /\ Opens(requests'[u]) => requests'[t].id # requests'[u].id
    BY <1>0, <2>1 DEF LoginsOwnSessions
  <2> QED
    BY <2>3, <2>4, <2>5 DEF LoginsOwnSessions, Opens
<1>10. ExchangesCount'
  <2>1. \A i : Exchanged(i)' = Exchanged(i)
    BY <1>4 DEF Exchanged
  <2>2. Exchanged(id) = {} /\ Cardinality(Exchanged(id)) = 0
    BY <1>0, <1>1, <1>8, FS_EmptySet DEF ExchangesCount
  <2>3. \A i \in SessionIDs : sessions'[i].state = "unused" => Exchanged(i)' = {}
    BY <1>0, <1>7, <1>8, <2>1 DEF ExchangesCount
  <2>4. \A i \in Stored' : sessions'[i].token = Cardinality(Exchanged(i)) + 1
    <3>1. SUFFICES ASSUME NEW i \in SessionIDs, sessions'[i].state = "live"
                   PROVE  sessions'[i].token = Cardinality(Exchanged(i)) + 1
      BY DEF Stored, Alive
    <3>2. CASE i = id
      BY <1>7, <1>8, <2>2, <3>2
    <3>3. CASE i # id
      BY <1>0, <1>7, <3>1, <3>3 DEF ExchangesCount, Stored, Alive
    <3> QED
      BY <3>2, <3>3
  <2> QED
    BY <1>0, <1>4, <2>1, <2>3, <2>4 DEF ExchangesCount
<1> QED
  BY <1>6, <1>9, <1>10 DEF AccountInv

(* A token is exchanged for the next one; the count grows by one.          *)
LEMMA RotateKeeps ==
    ASSUME AccountInv, NEW s \in Slots, Rotate(s)
    PROVE  AccountInv'
<1> DEFINE id == requests[s].id
           from == requests[s].token
           to == NextToken(id)
           e == [id |-> id, from |-> from, to |-> to]
           n == Cardinality(Exchanged(id))
<1>0. AccountTypeOK /\ LoginsOwnSessions /\ ExchangesCount
  BY DEF AccountInv
<1>1. requests[s] \in RequestRecords /\ id \in SessionIDs
  BY <1>0 DEF AccountTypeOK, RequestRecords, PCs, Rotate, LoginsOwnSessions
<1>2. /\ requests' \in [Slots -> RequestRecords]
      /\ \A t \in Slots : requests'[t] = requests[t] \/ requests'[t].pc = "free"
  BY <1>0, ZerosAreTyped DEF Rotate, Answers, AccountTypeOK, RequestRecords, PCs
<1>3. UNCHANGED <<identity, admin, raced>>
  BY DEF Rotate
<1>4. ASSUME ~Rotatable(id, from) PROVE AccountInv'
  <2>1. UNCHANGED <<sessions, exchanges>>
    BY <1>4 DEF Rotate
  <2>2. AccountTypeOK'
    BY <1>0, <1>2, <1>3, <2>1 DEF AccountTypeOK, RequestRecords, PCs
  <2> QED
    BY <1>2, <2>1, <2>2, DeletingKeeps
<1>5. ASSUME Rotatable(id, from) PROVE AccountInv'
  <2> DEFINE new == [state |-> "live", token |-> to, password |-> sessions[id].password]
  <2>1. to \in Tokens /\ exchanges' = exchanges \cup {e}
    BY <1>5 DEF Rotate
  <2>2. sessions[id] \in SessionRecords /\ sessions[id].state = "live" /\ sessions[id].token = from
    BY <1>0, <1>1, <1>5 DEF AccountTypeOK, SessionRecords, Rotatable, Alive
  <2>3. sessions' = [sessions EXCEPT ![id] = new]
    <3>1. sessions' = [sessions EXCEPT ![id] = [[sessions[id] EXCEPT !.state = "live"] EXCEPT !.token = to]]
      BY <1>0, <1>1, <1>5 DEF Rotate, AccountTypeOK
    <3> DEFINE o == sessions[id]
               m == [state |-> "live", token |-> o.token, password |-> o.password]
    <3>2. o = [state |-> o.state, token |-> o.token, password |-> o.password]
      BY <2>2 DEF SessionRecords
    <3>3. [o EXCEPT !.state = "live"] = m
      BY <3>2
    <3>4. [m EXCEPT !.token = to] = new
      OBVIOUS
    <3> HIDE DEF m, new
    <3> QED
      BY <3>1, <3>3, <3>4
  <2>4. new \in SessionRecords
    BY <2>1, <2>2, ZerosAreTyped DEF SessionRecords
  <2>5. \A i \in SessionIDs : IsFiniteSet(Exchanged(i)) /\ Cardinality(Exchanged(i)) \in Nat
    BY <1>0, FS_Subset, FS_CardinalityType DEF ExchangesCount, Exchanged
  <2>6. from = n + 1 /\ to = n + 2 /\ n \in Nat
    BY <1>0, <1>1, <2>2, <2>5 DEF ExchangesCount, Stored, Alive, NextToken, Exchanged
  <2>7. e \notin exchanges
    <3>1. \A x \in exchanges : x.id = id => x.from <= n
      BY <1>0 DEF ExchangesCount
    <3>2. \A x \in exchanges : x.from \in Nat
      BY <1>0 DEF AccountTypeOK, Tokens
    <3> QED
      BY <2>6, <3>1, <3>2
  <2>8. from \in Tokens
    BY <1>1, <2>6, AccountBoundsAssumption DEF RequestRecords, Tokens
  <2>9. AccountTypeOK'
    <3>1. sessions' \in [SessionIDs -> SessionRecords]
      BY <1>0, <2>3, <2>4 DEF AccountTypeOK, SessionRecords
    <3>2. exchanges' \subseteq [id : SessionIDs, from : Tokens, to : Tokens]
      BY <1>0, <1>1, <2>1, <2>8 DEF AccountTypeOK
    <3> QED
      BY <1>0, <1>2, <1>3, <3>1, <3>2 DEF AccountTypeOK, SessionRecords, RequestRecords, PCs
  <2> HIDE DEF new
  <2>10. sessions'[id] = new /\ \A i \in SessionIDs : i # id => sessions'[i] = sessions[i]
    BY <1>0, <1>1, <2>3 DEF AccountTypeOK
  <2>11. new.state = "live" /\ new.token = n + 2
    BY <2>6 DEF new
  <2>12. LoginsOwnSessions'
    <3>1. \A t \in Slots : requests'[t].pc # "free" => requests'[t] = requests[t]
      BY <1>2
    <3>2. \A i \in SessionIDs : sessions[i].state = "unused" => sessions'[i].state = "unused"
      BY <2>2, <2>10
    <3> QED
      BY <1>0, <3>1, <3>2 DEF LoginsOwnSessions, Opens
  <2> DEFINE X(i) == {x \in exchanges' : x.id = i}
  <2>13. X(id) = Exchanged(id) \cup {e} /\ \A i \in SessionIDs : i # id => X(i) = Exchanged(i)
    BY <2>1 DEF Exchanged
  <2>14. Cardinality(X(id)) = n + 1
    <3>1. e \notin Exchanged(id)
      BY <2>7 DEF Exchanged
    <3> HIDE DEF e
    <3>2. Cardinality(Exchanged(id) \cup {e}) = Cardinality(Exchanged(id)) + 1
      BY <1>1, <2>5, <3>1, FS_AddElement
    <3> QED
      BY <2>13, <3>2
  <2>15. ExchangesCount'
    <3>1. IsFiniteSet(exchanges')
      BY <1>0, <2>1, FS_AddElement DEF ExchangesCount
    <3>2. \A i \in SessionIDs : sessions'[i].state = "unused" => X(i) = {}
      BY <1>0, <2>10, <2>11, <2>13 DEF ExchangesCount
    <3>3. \A i \in SessionIDs : sessions'[i].state = "live"
              => sessions'[i].token = Cardinality(X(i)) + 1
      <4> SUFFICES ASSUME NEW i \in SessionIDs, sessions'[i].state = "live"
                   PROVE  sessions'[i].token = Cardinality(X(i)) + 1
        OBVIOUS
      <4>1. CASE i = id
        BY <2>6, <2>10, <2>11, <2>14, <4>1
      <4>2. CASE i # id
        BY <1>0, <2>10, <2>13, <4>2 DEF ExchangesCount, Stored, Alive
      <4> QED
        BY <4>1, <4>2
    <3>4. \A x \in exchanges' : x.from <= Cardinality(X(x.id))
      <4> SUFFICES ASSUME NEW x \in exchanges' PROVE x.from <= Cardinality(X(x.id))
        OBVIOUS
      <4>1. CASE x = e
        BY <2>6, <2>14, <4>1
      <4>2. CASE x # e /\ x.id = id
        <5>1. x \in exchanges /\ x.from \in Nat /\ x.from <= n
          BY <1>0, <2>1, <4>2 DEF ExchangesCount, AccountTypeOK, Tokens
        <5> QED
          BY <2>6, <2>14, <4>2, <5>1
      <4>3. CASE x # e /\ x.id # id
        <5>1. x \in exchanges /\ x.id \in SessionIDs
          BY <1>0, <2>1, <4>3 DEF AccountTypeOK
        <5> QED
          BY <1>0, <2>13, <4>3, <5>1 DEF ExchangesCount
      <4> QED
        BY <4>1, <4>2, <4>3
    <3>5. \A x, y \in exchanges' : x.id = y.id /\ x.from = y.from => x = y
      <4>1. \A x \in exchanges : x.id = id => x.from # from
        <5>1. \A x \in exchanges : x.from \in Nat
          BY <1>0 DEF AccountTypeOK, Tokens
        <5>2. \A x \in exchanges : x.id = id => x.from <= n
          BY <1>0 DEF ExchangesCount
        <5> QED
          BY <2>6, <5>1, <5>2
      <4> QED
        BY <1>0, <2>1, <4>1 DEF ExchangesCount
    <3> QED
      BY <3>1, <3>2, <3>3, <3>4, <3>5 DEF ExchangesCount, Exchanged, Stored, Alive
  <2> QED
    BY <2>9, <2>12, <2>15 DEF AccountInv
<1> QED
  BY <1>4, <1>5

LEMMA AccountStutters ==
    ASSUME AccountInv, UNCHANGED accountVars
    PROVE  AccountInv'
  BY DEF AccountInv, AccountTypeOK, LoginsOwnSessions, ExchangesCount, Exchanged, Stored, Alive,
         Opens, accountVars

LEMMA AccountKept == AccountInv /\ [AccountNext]_accountVars => AccountInv'
  BY LoginKeeps, IssueVerifiedKeeps, VerifyPasswordKeeps, UsesKeep, ResolveActiveKeeps,
     ChangesKeep, ScanAccountKeeps, RevocationFailsKeeps, DeleteListedKeeps, ExpireSessionKeeps,
     RevokeKeeps, CreateKeeps, RotateKeeps, AccountStutters
     DEF AccountNext

-----------------------------------------------------------------------------
(* The invariant holds in every reachable state. *)
THEOREM SessionsInvariant == AccountSpec => []AccountInv
  BY AccountStarts, AccountKept, PTL DEF AccountSpec

(* Every variable of the sessions keeps its type. *)
THEOREM SessionsTypeCorrect == AccountSpec => []AccountTypeOK
<1>1. AccountInv => AccountTypeOK
  BY DEF AccountInv
<1> QED
  BY <1>1, SessionsInvariant, PTL

(* A refresh token is exchanged at most once, and a live session never     *)
(* holds one that was (Rotate).                                            *)
THEOREM TokensSpentOnce == AccountSpec => []TokensAreSpentOnce
<1>1. ASSUME AccountInv PROVE TokensAreSpentOnce
  <2>0. AccountTypeOK /\ ExchangesCount
    BY <1>1 DEF AccountInv
  <2>1. ASSUME NEW id \in Stored PROVE sessions[id].token \notin Spent(id)
    <3>1. sessions[id].token = Cardinality(Exchanged(id)) + 1
      BY <2>0, <2>1 DEF ExchangesCount
    <3>2. Cardinality(Exchanged(id)) \in Nat
      BY <2>0, FS_Subset, FS_CardinalityType DEF ExchangesCount, Exchanged
    <3>3. \A x \in exchanges : x.id = id => x.from \in Nat /\ x.from <= Cardinality(Exchanged(id))
      BY <2>0 DEF ExchangesCount, AccountTypeOK, Tokens
    <3> QED
      BY <3>1, <3>2, <3>3 DEF Spent
  <2> QED
    BY <2>0, <2>1 DEF TokensAreSpentOnce, ExchangesCount
<1> QED
  BY <1>1, SessionsInvariant, PTL

(* A session that is gone stays gone, whatever requests had read it before *)
(* (Rotate, issueVerifiedPrincipal).                                       *)
THEOREM RevocationIsFinal == AccountSpec => RevokedStaysRevoked
<1> DEFINE Gone == \A id \in SessionIDs : sessions[id].state = "gone" => sessions'[id].state = "gone"
<1>1. ASSUME AccountInv, [AccountNext]_accountVars PROVE Gone
  <2>0. AccountTypeOK /\ LoginsOwnSessions
    BY <1>1 DEF AccountInv
  <2>1. sessions \in [SessionIDs -> SessionRecords]
    BY <2>0 DEF AccountTypeOK, SessionRecords
  <2>2. ASSUME NEW s \in Slots, Create(s) PROVE Gone
    <3>1. sessions[requests[s].id].state = "unused"
      BY <2>0, <2>2 DEF Create, LoginsOwnSessions, Opens
    <3> QED
      BY <2>1, <2>2, <3>1 DEF Create
  <2>3. ASSUME NEW s \in Slots, Rotate(s) PROVE Gone
    BY <2>1, <2>3 DEF Rotate, Rotatable, Alive
  <2>4. ASSUME NEW s \in Slots, Revoke(s) PROVE Gone
    <3>1. Alive(requests[s].id) => requests[s].id \in Stored
      BY <2>0, <2>4 DEF Stored, Revoke, LoginsOwnSessions
    <3>2. sessions' = sessions \/ (Alive(requests[s].id) /\ sessions' = Deleted({requests[s].id}))
      BY <2>4 DEF Revoke, Revoked
    <3> QED
      BY <2>1, <3>1, <3>2, DeletedSessions
  <2>5. ASSUME DeleteListed PROVE Gone
    <3>1. PICK ids : ids \subseteq Stored /\ sessions' = Deleted(ids)
      BY <2>5 DEF DeleteListed
    <3> QED
      BY <2>1, <3>1, DeletedSessions
  <2>6. ASSUME NEW id \in SessionIDs, ExpireSession(id) PROVE Gone
    <3>1. {id} \subseteq Stored
      BY <2>6 DEF ExpireSession, Stored
    <3> QED
      BY <2>1, <2>6, <3>1, DeletedSessions DEF ExpireSession
  <2>7. ASSUME UNCHANGED sessions PROVE Gone
    BY <2>7
  <2> QED
    BY <1>1, <2>2, <2>3, <2>4, <2>5, <2>6, <2>7
       DEF AccountNext, accountVars, Login, IssueVerified, VerifyPassword, RefreshGet, AccessGet,
           ResolveActive, ChangePassword, EnableAccount, DisableAccount, ResetPassword,
           RevokeAccountSessions, ScanAccount, RevocationFails
<1>2. AccountInv /\ [AccountNext]_accountVars => [Gone]_accountVars
  BY <1>1
<1> QED
  BY <1>2, SessionsInvariant, PTL DEF AccountSpec, RevokedStaysRevoked

-----------------------------------------------------------------------------
(* Passwords.  A login that passed the check before a revocation listed    *)
(* the sessions is known to have raced with it; one that passes later has  *)
(* the new password.                                                       *)
Recent(password, id) == password >= identity.cleared \/ id \in raced
Spared(password, id) == password >= admin.password \/ id \in raced

PasswordsAreOrdered ==
    /\ identity.cleared <= identity.password
    /\ admin.pc # "quiet" => admin.password <= identity.password

SessionsAreRecent ==
    /\ \A s \in Slots : requests[s].pc = "create" => Recent(requests[s].password, requests[s].id)
    /\ \A id \in Stored : Recent(sessions[id].password, id)

DeletionIsComplete ==
    admin.pc = "delete" =>
        /\ \A s \in Slots : requests[s].pc = "create" => Spared(requests[s].password, requests[s].id)
        /\ \A id \in Stored : id \in admin.listed \/ Spared(sessions[id].password, id)

PasswordsInv == PasswordsAreOrdered /\ SessionsAreRecent /\ DeletionIsComplete

(* Passwords are numbers. *)
LEMMA PasswordsAreNumbers ==
    ASSUME AccountTypeOK
    PROVE  /\ identity.password \in Nat /\ identity.cleared \in Nat /\ admin.password \in Nat
           /\ \A s \in Slots : requests[s].password \in Nat
           /\ \A id \in SessionIDs : sessions[id].password \in Nat
  BY AccountBoundsAssumption DEF AccountTypeOK, Passwords

(* A step of the requests: what is about to be stored was so before, or    *)
(* has the current password; what is stored was so before, or was about to *)
(* be.                                                                     *)
LEMMA RequestsKeepPasswords ==
    ASSUME AccountTypeOK, PasswordsInv, UNCHANGED <<identity, admin, raced>>,
           \A s \in Slots : requests'[s].pc = "create" =>
               \/ requests'[s] = requests[s]
               \/ requests'[s].password = identity.password,
           \A id \in Stored' :
               \/ id \in Stored /\ sessions'[id].password = sessions[id].password
               \/ \E s \in Slots : /\ requests[s].pc = "create" /\ requests[s].id = id
                                   /\ sessions'[id].password = requests[s].password
    PROVE  PasswordsInv'
<1>1. PasswordsAreOrdered'
  BY DEF PasswordsInv, PasswordsAreOrdered
<1>2. SessionsAreRecent'
  <2>1. identity.password >= identity.cleared
    BY PasswordsAreNumbers DEF PasswordsInv, PasswordsAreOrdered
  <2>2. \A s \in Slots : requests'[s].pc = "create" => Recent(requests'[s].password, requests'[s].id)
    BY <2>1, PasswordsAreNumbers DEF PasswordsInv, PasswordsAreOrdered, SessionsAreRecent, Recent
  <2>3. \A id \in Stored' : Recent(sessions'[id].password, id)
    BY DEF PasswordsInv, SessionsAreRecent
  <2> QED
    BY <2>2, <2>3 DEF SessionsAreRecent, Recent
<1>3. DeletionIsComplete'
  <2> SUFFICES ASSUME admin.pc = "delete"
               PROVE  /\ \A s \in Slots : requests'[s].pc = "create" =>
                             Spared(requests'[s].password, requests'[s].id)
                      /\ \A id \in Stored' : id \in admin.listed \/ Spared(sessions'[id].password, id)
    BY DEF DeletionIsComplete, Spared
  <2>1. \A s \in Slots : requests'[s].pc = "create" => Spared(requests'[s].password, requests'[s].id)
    BY PasswordsAreNumbers DEF PasswordsInv, PasswordsAreOrdered, DeletionIsComplete, Spared
  <2>2. \A id \in Stored' : id \in admin.listed \/ Spared(sessions'[id].password, id)
    BY DEF PasswordsInv, DeletionIsComplete
  <2> QED
    BY <2>1, <2>2
<1> QED
  BY <1>1, <1>2, <1>3 DEF PasswordsInv

LEMMA RequestStepsKeepPasswords ==
    ASSUME AccountInv, PasswordsInv, NEW s \in Slots,
           \/ VerifyPassword(s) \/ Create(s) \/ ResolveActive(s) \/ Rotate(s) \/ Revoke(s)
           \/ \E id \in SessionIDs :
               \/ \E password \in 0 .. identity.password : Login(s, id, password)
               \/ IssueVerified(s, id)
               \/ \E token \in Tokens : RefreshGet(s, id, token)
               \/ \E kind \in {"access", "logout"} : AccessGet(s, id, kind)
    PROVE  PasswordsInv'
<1>0. /\ AccountTypeOK /\ LoginsOwnSessions /\ requests \in [Slots -> RequestRecords]
      /\ sessions \in [SessionIDs -> SessionRecords]
  BY DEF AccountInv, AccountTypeOK, RequestRecords, PCs, SessionRecords
<1>1. UNCHANGED <<identity, admin, raced>>
  BY DEF VerifyPassword, Create, ResolveActive, Rotate, Revoke, Login, IssueVerified, RefreshGet, AccessGet
<1>2. \A t \in Slots : t # s => requests'[t] = requests[t]
  BY <1>0 DEF VerifyPassword, Create, ResolveActive, Rotate, Revoke, Login, IssueVerified, RefreshGet,
              AccessGet, Starts, Continues, Answers
<1>3. requests'[s].pc = "create" => requests'[s].password = identity.password
  <2>1. ASSUME NEW pc \in PCs, Continues(s, pc)
        PROVE  requests'[s].pc = pc /\ requests'[s].password = requests[s].password
    BY <1>0, <2>1, ContinuingIsTyped DEF Continues
  <2>2. ASSUME Answers(s) PROVE requests'[s].pc = "free"
    BY <1>0, <2>2, ZerosAreTyped DEF Answers
  <2>3. CASE VerifyPassword(s)
    BY <2>1, <2>2, <2>3 DEF VerifyPassword, PCs
  <2>4. CASE Create(s) \/ ResolveActive(s) \/ Rotate(s) \/ Revoke(s)
    BY <2>1, <2>2, <2>4 DEF Create, ResolveActive, Rotate, Revoke, PCs
  <2>5. ASSUME NEW id \in SessionIDs, NEW password \in 0 .. identity.password, Login(s, id, password)
        PROVE  requests'[s].pc # "create"
    BY <1>0, <2>5 DEF Login, Starts
  <2>6. ASSUME NEW id \in SessionIDs, IssueVerified(s, id)
        PROVE  requests'[s].password = identity.password
    BY <1>0, <2>6 DEF IssueVerified, Starts
  <2>7. ASSUME NEW id \in SessionIDs, NEW token \in Tokens, RefreshGet(s, id, token)
        PROVE  requests'[s].pc # "create"
    BY <1>0, <2>7 DEF RefreshGet, Starts
  <2>8. ASSUME NEW id \in SessionIDs, NEW kind \in {"access", "logout"}, AccessGet(s, id, kind)
        PROVE  requests'[s].pc # "create"
    BY <1>0, <2>8 DEF AccessGet, Starts
  <2> QED
    BY <2>3, <2>4, <2>5, <2>6, <2>7, <2>8
<1>4. ASSUME NEW id \in Stored'
      PROVE  \/ id \in Stored /\ sessions'[id].password = sessions[id].password
             \/ \E t \in Slots : /\ requests[t].pc = "create" /\ requests[t].id = id
                                 /\ sessions'[id].password = requests[t].password
  <2>0. id \in SessionIDs /\ sessions'[id].state = "live"
    BY DEF Stored, Alive
  <2>1. CASE UNCHANGED sessions
    BY <2>1 DEF Stored, Alive
  <2>2. CASE Create(s)
    <3>1. CASE id = requests[s].id
      BY <1>0, <2>0, <2>2, <3>1 DEF Create
    <3>2. CASE id # requests[s].id
      BY <1>0, <2>0, <2>2, <3>2 DEF Create, Stored, Alive
    <3> QED
      BY <3>1, <3>2
  <2>3. CASE Rotate(s)
    <3>1. CASE id = requests[s].id /\ Rotatable(requests[s].id, requests[s].token)
      <4>1. sessions'[id] = [[sessions[id] EXCEPT !.state = "live"] EXCEPT !.token = NextToken(id)]
        BY <1>0, <2>0, <2>3, <3>1 DEF Rotate
      <4>2. sessions[id] \in SessionRecords
        BY <1>0, <2>0
      <4>3. sessions'[id].password = sessions[id].password
        BY <4>1, <4>2 DEF SessionRecords
      <4> QED
        BY <2>0, <3>1, <4>3 DEF Stored, Rotatable
    <3>2. CASE id # requests[s].id \/ ~Rotatable(requests[s].id, requests[s].token)
      BY <1>0, <2>0, <2>3, <3>2 DEF Rotate, Stored, Alive
    <3> QED
      BY <3>1, <3>2
  <2>4. CASE Revoke(s)
    <3>1. Alive(requests[s].id) => {requests[s].id} \subseteq Stored
      BY <1>0, <2>4 DEF Stored, Revoke, LoginsOwnSessions
    <3>2. sessions' = sessions \/ (Alive(requests[s].id) /\ sessions' = Deleted({requests[s].id}))
      BY <2>4 DEF Revoke, Revoked
    <3>3. sessions'[id] = sessions[id]
      BY <1>0, <2>0, <3>1, <3>2, DeletedSessions
    <3> QED
      BY <2>0, <3>3 DEF Stored, Alive
  <2> QED
    BY <2>1, <2>2, <2>3, <2>4
       DEF VerifyPassword, ResolveActive, Login, IssueVerified, RefreshGet, AccessGet
<1> QED
  BY <1>0, <1>1, <1>2, <1>3, <1>4, RequestsKeepPasswords

(* Steps of the account: the password only grows, and no revocation runs   *)
(* whose password is newer.                                                *)
LEMMA ChangesKeepPasswords ==
    ASSUME AccountInv, PasswordsInv,
           \/ ChangePassword \/ EnableAccount \/ DisableAccount \/ ResetPassword
           \/ RevokeAccountSessions \/ RevocationFails
    PROVE  PasswordsInv'
<1>0. AccountTypeOK
  BY DEF AccountInv
<1>1. /\ identity'.cleared = identity.cleared /\ identity'.password >= identity.password
      /\ UNCHANGED <<sessions, requests, raced>>
  BY <1>0, PasswordsAreNumbers
     DEF AccountTypeOK, ChangePassword, EnableAccount, DisableAccount, ResetPassword,
         RevokeAccountSessions, RevocationFails
<1>2. \/ UNCHANGED admin
      \/ admin'.pc = "quiet"
      \/ admin'.pc = "scan" /\ admin'.password = identity'.password
  <2>1. ASSUME NEW password, Scanning(password)
        PROVE  admin'.pc = "scan" /\ admin'.password = password
    BY <2>1 DEF Scanning, Quiet
  <2>2. ChangePassword \/ EnableAccount => UNCHANGED admin
    BY DEF ChangePassword, EnableAccount
  <2>3. RevocationFails => admin'.pc = "quiet"
    BY DEF RevocationFails, Quiet
  <2>4. DisableAccount \/ RevokeAccountSessions =>
            Scanning(identity.password) /\ identity'.password = identity.password
    BY <1>0 DEF AccountTypeOK, DisableAccount, RevokeAccountSessions
  <2>5. ResetPassword =>
            Scanning(identity.password + 1) /\ identity'.password = identity.password + 1
    BY <1>0 DEF AccountTypeOK, ResetPassword
  <2> QED
    BY <2>1, <2>2, <2>3, <2>4, <2>5
<1>3. PasswordsAreOrdered'
  <2>1. identity'.password \in Nat
    BY <1>0, PasswordsAreNumbers
       DEF AccountTypeOK, ChangePassword, EnableAccount, DisableAccount, ResetPassword,
           RevokeAccountSessions, RevocationFails
  <2> QED
    BY <1>0, <1>1, <1>2, <2>1, PasswordsAreNumbers DEF PasswordsInv, PasswordsAreOrdered
<1>4. SessionsAreRecent'
  BY <1>1 DEF PasswordsInv, SessionsAreRecent, Recent, Stored, Alive
<1>5. DeletionIsComplete'
  BY <1>1, <1>2 DEF PasswordsInv, DeletionIsComplete, Spared, Stored, Alive
<1> QED
  BY <1>3, <1>4, <1>5 DEF PasswordsInv

LEMMA ScanKeepsPasswords ==
    ASSUME AccountInv, PasswordsInv, ScanAccount
    PROVE  PasswordsInv'
<1>1. /\ admin'.pc = "delete" /\ admin'.password = admin.password /\ admin'.listed = Stored
      /\ admin.pc = "scan" /\ raced \subseteq raced' /\ UNCHANGED <<identity, sessions, requests>>
      /\ \A s \in Slots : requests[s].pc = "create" => requests[s].id \in raced'
  BY DEF AccountInv, AccountTypeOK, ScanAccount, ListByAccount
<1>2. PasswordsAreOrdered'
  BY <1>1 DEF PasswordsInv, PasswordsAreOrdered
<1>3. SessionsAreRecent'
  BY <1>1 DEF PasswordsInv, SessionsAreRecent, Recent, Stored, Alive
<1>4. DeletionIsComplete'
  BY <1>1 DEF DeletionIsComplete, Spared, Stored, Alive
<1> QED
  BY <1>2, <1>3, <1>4 DEF PasswordsInv

(* Nothing is left of the list, and what is not on it was spared.          *)
LEMMA DeletionKeepsPasswords ==
    ASSUME AccountInv, PasswordsInv, DeleteListed
    PROVE  PasswordsInv'
<1>0. AccountTypeOK /\ sessions \in [SessionIDs -> SessionRecords]
  BY DEF AccountInv, AccountTypeOK, SessionRecords
<1>1. /\ identity'.cleared = admin.password /\ identity'.password = identity.password
      /\ admin.pc = "delete" /\ admin'.pc = "quiet" /\ UNCHANGED <<requests, raced>>
  BY <1>0 DEF AccountTypeOK, DeleteListed, Quiet
<1>2. PICK ids : ids \subseteq Stored /\ admin.listed \cap Stored \subseteq ids /\ sessions' = Deleted(ids)
  BY DEF DeleteListed
<1>3. \A id \in Stored' : id \in Stored /\ id \notin admin.listed /\ sessions'[id] = sessions[id]
  BY <1>0, <1>2, DeletedSessions DEF Stored, Alive
<1>4. PasswordsAreOrdered'
  BY <1>1 DEF PasswordsInv, PasswordsAreOrdered
<1>5. SessionsAreRecent'
  BY <1>1, <1>3 DEF PasswordsInv, DeletionIsComplete, SessionsAreRecent, Spared, Recent
<1>6. DeletionIsComplete'
  BY <1>1 DEF DeletionIsComplete
<1> QED
  BY <1>4, <1>5, <1>6 DEF PasswordsInv

LEMMA ExpiryKeepsPasswords ==
    ASSUME AccountInv, PasswordsInv, NEW id \in SessionIDs, ExpireSession(id)
    PROVE  PasswordsInv'
<1>0. AccountTypeOK /\ sessions \in [SessionIDs -> SessionRecords] /\ {id} \subseteq Stored
  BY DEF AccountInv, AccountTypeOK, SessionRecords, ExpireSession, Stored
<1>1. \A i \in Stored' : i \in Stored /\ sessions'[i] = sessions[i]
  BY <1>0, DeletedSessions DEF ExpireSession, Stored, Alive
<1> QED
  BY <1>0, <1>1, RequestsKeepPasswords DEF ExpireSession

(* After a successful account-wide revocation no session is left that was  *)
(* opened under an earlier password, unless its login raced with it        *)
(* (RevokeByAccount, issueVerifiedPrincipal).                              *)
THEOREM OldPasswordsEnd == AccountSpec => []OldPasswordsKeepNoSession
<1>1. AccountInit => PasswordsInv
  <2> SUFFICES ASSUME AccountInit PROVE PasswordsInv
    OBVIOUS
  <2>1. /\ identity.cleared = 0 /\ identity.password = 0 /\ admin.pc = "quiet" /\ Stored = {}
        /\ \A s \in Slots : requests[s].pc = "free"
    BY DEF AccountInit, Quiet, Stored, Alive, Unissued, Free
  <2> QED
    BY <2>1 DEF PasswordsInv, PasswordsAreOrdered, SessionsAreRecent, DeletionIsComplete
<1>2. ASSUME AccountInv, PasswordsInv, [AccountNext]_accountVars PROVE PasswordsInv'
  <2>1. CASE UNCHANGED accountVars
    BY <1>2, <2>1 DEF accountVars, PasswordsInv, PasswordsAreOrdered, SessionsAreRecent,
                      DeletionIsComplete, Recent, Spared, Stored, Alive
  <2> QED
    BY <1>2, <2>1, RequestStepsKeepPasswords, ChangesKeepPasswords, ScanKeepsPasswords,
       DeletionKeepsPasswords, ExpiryKeepsPasswords DEF AccountNext
<1>3. AccountInv /\ PasswordsInv => OldPasswordsKeepNoSession
  BY PasswordsAreNumbers DEF AccountInv, PasswordsInv, SessionsAreRecent, Recent, OldPasswordsKeepNoSession
<1> QED
  BY <1>1, <1>2, <1>3, SessionsInvariant, PTL DEF AccountSpec

-----------------------------------------------------------------------------
(***************************************************************************)
(* PolicyCluster.                                                          *)
(*                                                                         *)
(* An engine that polls claims what it read before it loaded, so its claim *)
(* runs ahead of its rules only when it starts.  That an active super      *)
(* administrator stays needs more: writes exclude one another by the       *)
(* advisory lock, a copy with the version of the policy has its members,   *)
(* and so a guard that was not misled still tells the truth when the       *)
(* account is disabled, whoever was enabled or created in between.         *)
(***************************************************************************)
EngineRecords == [state : {"down", "loaded", "up", "claim"}, claimed : 0 .. MaxVersion,
                  loaded : 0 .. MaxVersion, members : SUBSET People,
                  polled : 0 .. MaxVersion]
OpRecords     == [pc : {"none", "lock", "write", "reload", "undo"}, kind : Changes, who : People,
                  misled : BOOLEAN]

(* What an engine knows of the policy. *)
EngineFollows(e) ==
    /\ e.claimed <= policy.version /\ e.loaded <= policy.version /\ e.polled <= policy.version
    /\ e.state # "down" /\ e.loaded = policy.version => e.members = policy.members
    /\ e.state = "claim" => e.polled <= e.loaded

EnginesFollow == \A i \in Instances : EngineFollows(engines[i])

(* Only instances that have started work, and writes hold the lock. *)
WritersHoldLock ==
    /\ \A i \in Instances : engines[i].state \in {"down", "loaded"} => ops[i].pc = "none"
    /\ \A i \in Instances : ops[i].pc \in {"write", "reload"} => lock = i

(* An account whose disable may still count on its guard has another       *)
(* active member beside it.                                                *)
DisablesAreGuarded ==
    \A i \in Instances :
        ops[i].pc = "write" /\ ops[i].kind = "disable" /\ ~ops[i].misled => ~Indispensable(ops[i].who)

PolicyInv == PolicyTypeOK /\ EnginesFollow /\ WritersHoldLock /\ DisablesAreGuarded

-----------------------------------------------------------------------------
LEMMA PolicyValuesAreTyped ==
    /\ Asleep \in OpRecords /\ Asleep.pc = "none"
    /\ Down \in EngineRecords /\ Down.state = "down" /\ Down.claimed = 0
    /\ Down.loaded = 0 /\ Down.polled = 0 /\ 0 \in 0 .. MaxVersion
<1>1. (CHOOSE p \in People : TRUE) \in People
  BY InstancesAssumption
<1>2. Asleep \in OpRecords /\ Asleep.pc = "none"
  BY <1>1 DEF Asleep, OpRecords, Changes
<1> QED
  BY <1>2, PolicyBoundsAssumption DEF Down, EngineRecords

(* The invariant holds initially. *)
LEMMA PolicyStarts == PolicyInit => PolicyInv
<1> SUFFICES ASSUME PolicyInit PROVE PolicyInv
  OBVIOUS
<1> USE DEF PolicyInit
<1>1. PolicyTypeOK
  <2>1. engines \in [Instances -> EngineRecords] /\ ops \in [Instances -> OpRecords]
    BY PolicyValuesAreTyped
  <2>2. policy \in [version : 0 .. MaxVersion, members : SUBSET People] /\ mishaps \in 0 .. MaxMishaps
    BY PolicyBoundsAssumption
  <2> QED
    BY <2>1, <2>2 DEF PolicyTypeOK, EngineRecords, OpRecords
<1>2. EnginesFollow
  BY PolicyValuesAreTyped DEF EnginesFollow, EngineFollows
<1>3. WritersHoldLock /\ DisablesAreGuarded
  BY PolicyValuesAreTyped DEF WritersHoldLock, DisablesAreGuarded
<1> QED
  BY <1>1, <1>2, <1>3 DEF PolicyInv

-----------------------------------------------------------------------------
(* Steps of an engine by itself: it gets a record that follows the policy, *)
(* and is not set back while an operation of it is in progress.            *)
LEMMA EngineMoves ==
    ASSUME PolicyInv, NEW i \in Instances, engines' \in [Instances -> EngineRecords],
           \A j \in Instances : j # i => engines'[j] = engines[j], EngineFollows(engines'[i]),
           engines'[i].state \in {"down", "loaded"} => ops[i].pc = "none",
           UNCHANGED <<policy, accounts, ops, lock, mishaps>>
    PROVE  PolicyInv'
<1>0. PolicyTypeOK /\ EnginesFollow /\ WritersHoldLock /\ DisablesAreGuarded
  BY DEF PolicyInv
<1>2. PolicyTypeOK'
  BY <1>0 DEF PolicyTypeOK, EngineRecords
<1>3. EnginesFollow'
  BY <1>0 DEF EnginesFollow, EngineFollows
<1>4. WritersHoldLock'
  BY <1>0 DEF WritersHoldLock
<1>5. DisablesAreGuarded'
  BY <1>0 DEF DisablesAreGuarded, Indispensable, Others, Active
<1> QED
  BY <1>2, <1>3, <1>4, <1>5 DEF PolicyInv

(* What is known of one engine and the policy. *)
LEMMA EngineKnown ==
    ASSUME PolicyInv, NEW i \in Instances
    PROVE  /\ engines \in [Instances -> EngineRecords] /\ engines[i] \in EngineRecords
           /\ policy.version \in 0 .. MaxVersion /\ policy.members \in SUBSET People
           /\ EngineFollows(engines[i]) /\ ops[i] \in OpRecords
           /\ engines[i].state \in {"down", "loaded"} => ops[i].pc = "none"
  BY DEF PolicyInv, PolicyTypeOK, EngineRecords, OpRecords, EnginesFollow, WritersHoldLock

LEMMA BootLoadPolicyKeeps ==
    ASSUME PolicyInv, NEW i \in Instances, BootLoadPolicy(i)
    PROVE  PolicyInv'
<1> USE EngineKnown DEF BootLoadPolicy
<1>1. engines' \in [Instances -> EngineRecords]
  BY PolicyBoundsAssumption DEF EngineRecords
<1>2. \A j \in Instances : j # i => engines'[j] = engines[j]
  OBVIOUS
<1>3. EngineFollows(engines'[i])
  BY DEF EngineFollows
<1> QED
  BY <1>1, <1>2, <1>3, EngineMoves

LEMMA BootClaimKeeps ==
    ASSUME PolicyInv, NEW i \in Instances, BootClaim(i)
    PROVE  PolicyInv'
<1> USE EngineKnown DEF BootClaim
<1>1. engines' \in [Instances -> EngineRecords]
  BY DEF EngineRecords
<1>2. \A j \in Instances : j # i => engines'[j] = engines[j]
  OBVIOUS
<1>3. EngineFollows(engines'[i]) /\ engines'[i].state = "up"
  BY DEF EngineFollows
<1> QED
  BY <1>1, <1>2, <1>3, EngineMoves

LEMMA SyncReadKeeps ==
    ASSUME PolicyInv, NEW i \in Instances, SyncRead(i)
    PROVE  PolicyInv'
<1> USE EngineKnown DEF SyncRead
<1>1. engines' \in [Instances -> EngineRecords]
  BY DEF EngineRecords
<1>2. \A j \in Instances : j # i => engines'[j] = engines[j]
  OBVIOUS
<1>3. EngineFollows(engines'[i]) /\ engines'[i].state = "up"
  BY DEF EngineFollows, EngineRecords
<1> QED
  BY <1>1, <1>2, <1>3, EngineMoves

LEMMA SyncLoadKeeps ==
    ASSUME PolicyInv, NEW i \in Instances, SyncLoad(i)
    PROVE  PolicyInv'
<1> USE EngineKnown DEF SyncLoad, Loaded
<1>1. engines' \in [Instances -> EngineRecords]
  <2> DEFINE next == [Loaded(engines[i]) EXCEPT !.state = "claim"]
  <2>1. next \in EngineRecords
    BY DEF EngineRecords
  <2>2. engines' = [engines EXCEPT ![i] = next]
    BY Zenon
  <2> HIDE DEF next
  <2> QED
    BY <2>1, <2>2
<1>2. \A j \in Instances : j # i => engines'[j] = engines[j]
  OBVIOUS
<1>3. EngineFollows(engines'[i]) /\ engines'[i].state = "claim"
  BY DEF EngineFollows, EngineRecords
<1> QED
  BY <1>1, <1>2, <1>3, EngineMoves

(* The version was read before the rules. *)
LEMMA SyncClaimKeeps ==
    ASSUME PolicyInv, NEW i \in Instances, SyncClaim(i)
    PROVE  PolicyInv'
<1> USE EngineKnown DEF SyncClaim, Claimed
<1>1. engines' \in [Instances -> EngineRecords]
  BY DEF EngineRecords
<1>2. \A j \in Instances : j # i => engines'[j] = engines[j]
  OBVIOUS
<1>3. EngineFollows(engines'[i]) /\ engines'[i].state = "up"
  BY DEF EngineFollows, EngineRecords
<1> QED
  BY <1>1, <1>2, <1>3, EngineMoves

-----------------------------------------------------------------------------
(* Steps of an operation.  First what enabling an account, and creating    *)
(* one, means to the super administrators.                                 *)
LEMMA ActivationsHelp ==
    ASSUME PolicyInv, NEW p \in People, accounts' = [accounts EXCEPT ![p] = "active"], UNCHANGED policy
    PROVE  /\ \A w \in People : ~Indispensable(w) => ~Indispensable(w)'
           /\ HasAdmin => HasAdmin'
<1>1. accounts \in [People -> {"absent", "active", "disabled"}] /\ policy.members \in SUBSET People
  BY DEF PolicyInv, PolicyTypeOK
<1>2. \A q \in People : Active(q) => Active(q)'
  BY <1>1 DEF Active
<1> QED
  BY <1>1, <1>2 DEF Indispensable, Others, HasAdmin

LEMMA OpMoves ==
    ASSUME PolicyInv, NEW i \in Instances, ops' \in [Instances -> OpRecords],
           \A j \in Instances : j # i => ops'[j].pc = ops[j].pc /\ (lock = j => lock' = j),
           accounts' \in [People -> {"absent", "active", "disabled"}],
           lock' \in Instances \cup {"none"}, mishaps' \in 0 .. MaxMishaps,
           engines[i].state \in {"down", "loaded"} => ops'[i].pc = "none",
           ops'[i].pc \in {"write", "reload"} => lock' = i,
           UNCHANGED <<policy, engines>>, DisablesAreGuarded'
    PROVE  PolicyInv'
<1>0. PolicyTypeOK /\ EnginesFollow /\ WritersHoldLock
  BY DEF PolicyInv
<1>1. PolicyTypeOK'
  BY <1>0 DEF PolicyTypeOK, OpRecords
<1>2. EnginesFollow'
  BY <1>0 DEF EnginesFollow, EngineFollows
<1>3. WritersHoldLock'
  BY <1>0 DEF WritersHoldLock
<1> QED
  BY <1>1, <1>2, <1>3 DEF PolicyInv

(* What is known of the operations. *)
LEMMA OpKnown ==
    ASSUME PolicyInv
    PROVE  /\ ops \in [Instances -> OpRecords] /\ lock \in Instances \cup {"none"}
           /\ accounts \in [People -> {"absent", "active", "disabled"}]
           /\ mishaps \in 0 .. MaxMishaps
           /\ mishaps < MaxMishaps => mishaps + 1 \in 0 .. MaxMishaps
           /\ DisablesAreGuarded
           /\ \A j \in Instances : ops[j].pc \in {"write", "reload"} => lock = j
<1>1. PolicyTypeOK /\ WritersHoldLock /\ DisablesAreGuarded
  BY DEF PolicyInv
<1>2. mishaps < MaxMishaps => mishaps + 1 \in 0 .. MaxMishaps
  BY <1>1, PolicyBoundsAssumption DEF PolicyTypeOK
<1> QED
  BY <1>1, <1>2 DEF PolicyTypeOK, OpRecords, WritersHoldLock

(* An operation that starts no disable and leaves the accounts alone. *)
LEMMA QuietOpMoves ==
    ASSUME PolicyInv, NEW i \in Instances, ops' \in [Instances -> OpRecords],
           \A j \in Instances : j # i => ops'[j] = ops[j] /\ (lock = j => lock' = j),
           lock' \in Instances \cup {"none"}, mishaps' \in 0 .. MaxMishaps,
           engines[i].state \in {"down", "loaded"} => ops'[i].pc = "none",
           ops'[i].pc \notin {"write", "reload"},
           UNCHANGED <<policy, engines, accounts>>
    PROVE  PolicyInv'
<1>1. DisablesAreGuarded'
  BY OpKnown DEF DisablesAreGuarded, Indispensable, Others, Active
<1> QED
  BY <1>1, OpKnown, OpMoves

LEMMA LockTimeoutKeeps ==
    ASSUME PolicyInv, NEW i \in Instances, LockTimeout(i)
    PROVE  PolicyInv'
<1>0. /\ ops \in [Instances -> OpRecords] /\ ops[i].pc = "lock" /\ UNCHANGED <<policy, accounts, engines, lock>>
      /\ ops' = [ops EXCEPT ![i].pc = "undo"] \/ ops' = [ops EXCEPT ![i] = Asleep]
      /\ mishaps' \in 0 .. MaxMishaps
  BY OpKnown DEF LockTimeout, Mishap, Goes, Ends
<1>1. ops' \in [Instances -> OpRecords] /\ ops'[i].pc \in {"undo", "none"}
  <2>1. CASE ops' = [ops EXCEPT ![i].pc = "undo"]
    BY <1>0, <2>1 DEF OpRecords
  <2>2. CASE ops' = [ops EXCEPT ![i] = Asleep]
    BY <1>0, <2>2, PolicyValuesAreTyped
  <2> QED
    BY <1>0, <2>1, <2>2
<1>2. \A j \in Instances : j # i => ops'[j] = ops[j] /\ (lock = j => lock' = j)
  BY <1>0
<1>3. engines[i].state \notin {"down", "loaded"} /\ lock' \in Instances \cup {"none"}
  BY <1>0, EngineKnown, OpKnown
<1> QED
  BY <1>0, <1>1, <1>2, <1>3, QuietOpMoves

LEMMA ReloadFailsKeeps ==
    ASSUME PolicyInv, NEW i \in Instances, ReloadFails(i)
    PROVE  PolicyInv'
<1> USE EngineKnown, OpKnown, PolicyValuesAreTyped DEF ReloadFails, Fails, Mishap, Goes, Ends, Release
<1>1. ops' \in [Instances -> OpRecords] /\ ops'[i].pc \in {"undo", "none"}
  BY DEF OpRecords
<1>2. \A j \in Instances : j # i => ops'[j] = ops[j] /\ (lock = j => lock' = j)
  OBVIOUS
<1>3. engines[i].state \notin {"down", "loaded"} /\ lock' \in Instances \cup {"none"}
  OBVIOUS
<1> QED
  BY <1>1, <1>2, <1>3, QuietOpMoves

LEMMA AskKeeps ==
    ASSUME PolicyInv, NEW i \in Instances, NEW kind \in Changes, NEW who \in People, Ask(i, kind, who)
    PROVE  PolicyInv'
<1> USE EngineKnown, OpKnown DEF Ask, Up
<1>1. ops' \in [Instances -> OpRecords] /\ ops'[i].pc = "lock"
  BY DEF OpRecords
<1>2. \A j \in Instances : j # i => ops'[j] = ops[j] /\ (lock = j => lock' = j)
  OBVIOUS
<1>3. engines[i].state \notin {"down", "loaded"}
  OBVIOUS
<1>4. CASE kind = "create"
  <2>1. accounts' = [accounts EXCEPT ![who] = "active"]
    BY <1>4 DEF Status
  <2>2. \A w \in People : ~Indispensable(w) => ~Indispensable(w)'
    BY <2>1, ActivationsHelp
  <2>3. DisablesAreGuarded'
    BY <1>1, <1>2, <2>2 DEF DisablesAreGuarded, OpRecords
  <2> QED
    BY <1>1, <1>2, <1>3, <2>1, <2>2, <2>3, OpMoves
<1>5. CASE kind # "create"
  BY <1>1, <1>2, <1>3, <1>5, QuietOpMoves
<1> QED
  BY <1>4, <1>5

LEMMA EnableKeeps ==
    ASSUME PolicyInv, NEW p \in People, Enable(p)
    PROVE  PolicyInv'
<1>0. PolicyTypeOK /\ EnginesFollow /\ WritersHoldLock /\ DisablesAreGuarded
  BY DEF PolicyInv
<1>1. accounts' = [accounts EXCEPT ![p] = "active"] /\ UNCHANGED <<policy, engines, ops, lock, mishaps>>
  BY DEF Enable, Status
<1>2. \A w \in People : ~Indispensable(w) => ~Indispensable(w)'
  BY <1>1, ActivationsHelp
<1>3. PolicyTypeOK' /\ EnginesFollow' /\ WritersHoldLock'
  BY <1>0, <1>1 DEF PolicyTypeOK, EnginesFollow, EngineFollows, WritersHoldLock
<1>4. DisablesAreGuarded'
  BY <1>0, <1>1, <1>2 DEF DisablesAreGuarded, PolicyTypeOK
<1> QED
  BY <1>3, <1>4 DEF PolicyInv

(* Two active members of the same copy: whoever is disabled, another one   *)
(* remains.                                                                *)
LEMMA TwoActive ==
    ASSUME PolicyInv, NEW i \in Instances, NEW who \in People, Guarded(i, "disable", who),
           engines[i].members = policy.members, Active(who)
    PROVE  ~Indispensable(who)
<1> SUFFICES ASSUME who \in policy.members, Others(who) = {} PROVE FALSE
  BY DEF Indispensable
<1>1. Cardinality(ActiveMembers(i)) > 1
  BY DEF Guarded, ActiveMembers
<1>2. ActiveMembers(i) = {who}
  BY DEF ActiveMembers, Others
<1>3. Cardinality({who}) = 1
  BY FS_Singleton
<1> QED
  BY <1>1, <1>2, <1>3

(* A guard that was not misled told the truth. *)
LEMMA GuardKeeps ==
    ASSUME PolicyInv, NEW i \in Instances, Guard(i)
    PROVE  PolicyInv'
<1> USE EngineKnown, OpKnown
<1>1. CASE ~Guarded(i, ops[i].kind, ops[i].who)
  <2>1. ops' = [ops EXCEPT ![i] = Asleep] /\ UNCHANGED <<policy, engines, accounts, lock, mishaps>>
    BY <1>1 DEF Guard, Ends
  <2>2. ops' \in [Instances -> OpRecords] /\ ops'[i].pc = "none"
    BY <2>1, PolicyValuesAreTyped
  <2> QED
    BY <2>1, <2>2, QuietOpMoves
<1>2. CASE Guarded(i, ops[i].kind, ops[i].who)
  <2>1. /\ ops' = [ops EXCEPT ![i].pc = "write", ![i].misled = Misled(i)]
        /\ lock' = i /\ lock = "none" /\ ops[i].pc = "lock"
        /\ IF ops[i].kind = "bootstrap" THEN Status(ops[i].who, "active") ELSE UNCHANGED accounts
        /\ UNCHANGED <<policy, engines, mishaps>>
    BY <1>2 DEF Guard, LockFree
  <2>2. /\ ops' \in [Instances -> OpRecords] /\ ops'[i].pc = "write" /\ ops'[i].who = ops[i].who
        /\ ops'[i].kind = ops[i].kind /\ ops'[i].misled = Misled(i)
    BY <2>1 DEF OpRecords, Misled
  <2>3. \A j \in Instances : j # i => ops'[j] = ops[j] /\ (lock = j => lock' = j)
    BY <2>1, InstancesAssumption
  <2>4. engines[i].state \notin {"down", "loaded"}
    BY <2>1
  <2>5. ops[i].kind = "disable" /\ ~Misled(i) => ~Indispensable(ops[i].who)
    <3> SUFFICES ASSUME ops[i].kind = "disable", ~Stale(i), Active(ops[i].who)
                 PROVE  ~Indispensable(ops[i].who)
      BY DEF Misled
    <3>1. engines[i].members = policy.members /\ ops[i].who \in People
      BY <2>4 DEF Stale, EngineFollows, OpRecords
    <3> QED
      BY <1>2, <3>1, TwoActive
  <2>6. /\ accounts' \in [People -> {"absent", "active", "disabled"}]
        /\ \A w \in People : ~Indispensable(w) => ~Indispensable(w)'
    <3>1. CASE ops[i].kind = "bootstrap"
      <4>1. accounts' = [accounts EXCEPT ![ops[i].who] = "active"] /\ ops[i].who \in People
        BY <2>1, <3>1 DEF Status, OpRecords
      <4> QED
        BY <2>1, <4>1, ActivationsHelp
    <3>2. CASE ops[i].kind # "bootstrap"
      BY <2>1, <3>2 DEF Indispensable, Others, Active
    <3> QED
      BY <3>1, <3>2
  <2>7. DisablesAreGuarded'
    BY <2>2, <2>3, <2>5, <2>6 DEF DisablesAreGuarded, OpRecords
  <2> QED
    BY <2>1, <2>2, <2>3, <2>4, <2>6, <2>7, OpMoves
<1> QED
  BY <1>1, <1>2

(* No other instance is about to disable an account. *)
LEMMA WriteStatusKeeps ==
    ASSUME PolicyInv, NEW i \in Instances, WriteStatus(i)
    PROVE  PolicyInv'
<1> USE EngineKnown, OpKnown, PolicyValuesAreTyped
<1>1. /\ ops[i].pc = "write" /\ ops[i].kind = "disable" /\ ops[i].who \in People
      /\ ops' = [ops EXCEPT ![i] = Asleep] /\ lock' = (IF lock = i THEN "none" ELSE lock)
      /\ accounts' = IF Active(ops[i].who) THEN [accounts EXCEPT ![ops[i].who] = "disabled"] ELSE accounts
      /\ UNCHANGED <<policy, engines, mishaps>>
    BY DEF WriteStatus, Ends, Release, Status, OpRecords
<1>2. ops' \in [Instances -> OpRecords] /\ ops'[i].pc = "none"
  BY <1>1
<1>3. \A j \in Instances : j # i => ops'[j] = ops[j] /\ (lock = j => lock' = j)
  BY <1>1
<1>4. lock' \in Instances \cup {"none"} /\ accounts' \in [People -> {"absent", "active", "disabled"}]
  BY <1>1
<1>5. DisablesAreGuarded'
  BY <1>1, <1>2, <1>3 DEF DisablesAreGuarded
<1> QED
  BY <1>1, <1>2, <1>3, <1>4, <1>5, OpMoves

(* The compensation marks every disable that counted on its account. *)
LEMMA UndoKeeps ==
    ASSUME PolicyInv, NEW i \in Instances, Undo(i)
    PROVE  PolicyInv'
<1> USE EngineKnown, OpKnown, PolicyValuesAreTyped
<1> DEFINE who == ops[i].who
<1>1. /\ ops[i].pc = "undo" /\ who \in People /\ lock' = (IF lock = i THEN "none" ELSE lock)
      /\ UNCHANGED <<policy, engines, mishaps>>
  BY DEF Undo, Release, OpRecords
<1>2. lock' \in Instances \cup {"none"} /\ \A j \in Instances : j # i => (lock = j => lock' = j)
  BY <1>1
<1>3. CASE UNCHANGED accounts /\ Ends(i)
  <2>1. /\ ops' \in [Instances -> OpRecords] /\ ops'[i].pc = "none"
        /\ \A j \in Instances : j # i => ops'[j] = ops[j]
    BY <1>3 DEF Ends
  <2> QED
    BY <1>1, <1>2, <1>3, <2>1, QuietOpMoves
<1>4. CASE /\ Status(who, "disabled")
           /\ ops' = [j \in Instances |->
                         IF j = i THEN Asleep ELSE [ops[j] EXCEPT !.misled = @ \/ Deceives(who, ops[j])]]
  <2>1. accounts' = [accounts EXCEPT ![who] = "disabled"]
    BY <1>4 DEF Status
  <2>2. \A j \in Instances : j # i => ops'[j] = [ops[j] EXCEPT !.misled = @ \/ Deceives(who, ops[j])]
    BY <1>4
  <2>3. /\ ops'[i].pc = "none"
        /\ \A j \in Instances : j # i =>
               /\ ops'[j].pc = ops[j].pc /\ ops'[j].kind = ops[j].kind /\ ops'[j].who = ops[j].who
               /\ ops'[j].misled = (ops[j].misled \/ Deceives(who, ops[j]))
    BY <1>4, <2>2 DEF OpRecords
  <2>4. ops' \in [Instances -> OpRecords]
    BY <1>4, <2>2 DEF OpRecords, Deceives
  <2>5. ASSUME NEW j \in Instances, ops'[j].pc = "write", ops'[j].kind = "disable", ~ops'[j].misled
        PROVE  ~Indispensable(ops[j].who)'
    <3>1. /\ j # i /\ ops[j].pc = "write" /\ ops[j].kind = "disable" /\ ops'[j].who = ops[j].who
          /\ ~ops[j].misled /\ ~Deceives(who, ops[j]) /\ ops[j].who \in People
      BY <2>3, <2>5 DEF OpRecords
    <3>2. ~Indispensable(ops[j].who)
      BY <3>1 DEF DisablesAreGuarded
    <3> SUFFICES ASSUME ops[j].who \in policy.members PROVE \E q \in policy.members : q # ops[j].who /\ Active(q)'
      BY <1>1, <3>1 DEF Indispensable, Others, Active
    <3>3. PICK q \in policy.members : q # ops[j].who /\ Active(q) /\ (q # who \/ ops[j].who = who)
      BY <3>1, <3>2 DEF Indispensable, Others, Deceives
    <3>4. q # who
      BY <3>3
    <3> QED
      BY <2>1, <3>3, <3>4 DEF Active
  <2>6. DisablesAreGuarded'
    BY <2>5 DEF DisablesAreGuarded
  <2> QED
    BY <1>1, <1>2, <2>1, <2>3, <2>4, <2>6, OpMoves
<1> QED
  BY <1>3, <1>4 DEF Undo

(* A step that ends an operation and gives its engine another record.      *)
LEMMA EngineEnds ==
    ASSUME PolicyInv, NEW i \in Instances, engines' \in [Instances -> EngineRecords],
           \A j \in Instances : j # i => engines'[j] = engines[j], EngineFollows(engines'[i]),
           mishaps' \in 0 .. MaxMishaps, Ends(i), Release(i), UNCHANGED <<policy, accounts>>
    PROVE  PolicyInv'
<1> USE EngineKnown, OpKnown, PolicyValuesAreTyped
<1>1. /\ ops' \in [Instances -> OpRecords] /\ ops'[i].pc = "none" /\ lock' \in Instances \cup {"none"}
      /\ \A j \in Instances : j # i => ops'[j] = ops[j] /\ (lock = j => lock' = j)
  BY DEF Ends, Release
<1>2. PolicyTypeOK'
  BY <1>1 DEF PolicyInv, PolicyTypeOK, EngineRecords, OpRecords
<1>3. EnginesFollow'
  BY DEF EnginesFollow, EngineFollows
<1>4. WritersHoldLock'
  BY <1>1 DEF WritersHoldLock
<1>5. DisablesAreGuarded'
  BY <1>1 DEF DisablesAreGuarded, Indispensable, Others, Active
<1> QED
  BY <1>2, <1>3, <1>4, <1>5 DEF PolicyInv

LEMMA CrashEngineKeeps ==
    ASSUME PolicyInv, NEW i \in Instances, CrashEngine(i)
    PROVE  PolicyInv'
<1>1. /\ engines' = [engines EXCEPT ![i] = Down] /\ mishaps < MaxMishaps /\ mishaps' = mishaps + 1
      /\ Ends(i) /\ Release(i) /\ UNCHANGED <<policy, accounts>>
  BY DEF CrashEngine, Mishap
<1>2. engines' \in [Instances -> EngineRecords] /\ engines'[i] = Down
  BY <1>1, PolicyValuesAreTyped, EngineKnown
<1>3. EngineFollows(engines'[i])
  BY <1>2, PolicyValuesAreTyped, EngineKnown DEF EngineFollows
<1>4. mishaps' \in 0 .. MaxMishaps /\ \A j \in Instances : j # i => engines'[j] = engines[j]
  BY <1>1, OpKnown, EngineKnown
<1> QED
  BY <1>1, <1>2, <1>3, <1>4, EngineEnds

LEMMA ReloadKeeps ==
    ASSUME PolicyInv, NEW i \in Instances, Reload(i)
    PROVE  PolicyInv'
<1> USE EngineKnown DEF Reload, Loaded
<1>1. engines' \in [Instances -> EngineRecords]
  <2> DEFINE next == [Loaded(engines[i]) EXCEPT !.claimed = policy.version, !.polled = policy.version]
  <2>1. next \in EngineRecords
    BY DEF EngineRecords
  <2>2. engines' = [engines EXCEPT ![i] = next]
    BY Zenon
  <2> HIDE DEF next
  <2> QED
    BY <2>1, <2>2
<1>2. engines[i].state \notin {"down", "loaded"} /\ \A j \in Instances : j # i => engines'[j] = engines[j]
  OBVIOUS
<1>3. EngineFollows(engines'[i])
  BY <1>2 DEF EngineFollows, EngineRecords
<1>4. mishaps' \in 0 .. MaxMishaps
  BY OpKnown
<1> QED
  BY <1>1, <1>2, <1>3, <1>4, EngineEnds

(* The transaction sees the accounts, and no other instance is about to    *)
(* write: every guard that still counts is this instance's own.            *)
LEMMA WritePolicyKeeps ==
    ASSUME PolicyInv, NEW i \in Instances, WritePolicy(i)
    PROVE  PolicyInv'
<1> USE EngineKnown, OpKnown, PolicyValuesAreTyped
<1> DEFINE next == NextMembers(ops[i].kind, ops[i].who)
<1>0. /\ ops[i].pc = "write" /\ ops[i].kind # "disable" /\ lock = i /\ ops[i].who \in People
      /\ engines[i].state = "up" /\ UNCHANGED <<accounts, engines, mishaps>>
  BY DEF WritePolicy, OpRecords
<1>1. next \in SUBSET People
  BY <1>0 DEF NextMembers
<1>2. CASE SafePolicy(next) /\ next # policy.members
  <2>1. /\ policy.version < MaxVersion /\ policy' = [version |-> policy.version + 1, members |-> next]
        /\ ops' = [ops EXCEPT ![i].pc = "reload"] /\ UNCHANGED lock
    BY <1>2 DEF WritePolicy, Goes
  <2>2. policy'.version = policy.version + 1 /\ policy'.members = next
    BY <2>1
  <2>3. policy' \in [version : 0 .. MaxVersion, members : SUBSET People]
    BY <1>1, <2>1, PolicyBoundsAssumption
  <2>4. /\ ops' \in [Instances -> OpRecords] /\ ops'[i].pc = "reload"
        /\ \A j \in Instances : j # i => ops'[j] = ops[j]
    BY <2>1 DEF OpRecords
  <2>5. PolicyTypeOK'
    BY <1>0, <2>1, <2>3, <2>4 DEF PolicyTypeOK, PolicyInv, EngineRecords, OpRecords
  <2>6. EnginesFollow'
    <3> SUFFICES ASSUME NEW j \in Instances PROVE EngineFollows(engines[j])'
      BY DEF EnginesFollow
    <3>1. engines'[j] = engines[j] /\ engines[j] \in EngineRecords /\ EngineFollows(engines[j])
      BY <1>0
    <3>2. /\ engines[j].loaded \in Int /\ engines[j].claimed \in Int /\ engines[j].polled \in Int
          /\ policy.version \in Int /\ engines[j].loaded # policy'.version
      BY <2>2, <3>1 DEF EngineFollows, EngineRecords
    <3> QED
      BY <2>2, <3>1, <3>2 DEF EngineFollows
  <2>7. WritersHoldLock'
    BY <1>0, <2>1, <2>4 DEF WritersHoldLock
  <2>8. DisablesAreGuarded'
    BY <1>0, <2>4 DEF DisablesAreGuarded
  <2> QED
    BY <2>5, <2>6, <2>7, <2>8 DEF PolicyInv
<1>3. CASE ~(SafePolicy(next) /\ next # policy.members)
  <2>1. UNCHANGED policy /\ (Goes(i, "undo") \/ Ends(i)) /\ (UNCHANGED lock \/ Release(i))
    BY <1>3 DEF WritePolicy, Fails
  <2>2. ops' \in [Instances -> OpRecords] /\ ops'[i].pc \in {"undo", "none"}
    BY <2>1 DEF Goes, Ends, OpRecords
  <2>3. /\ lock' \in Instances \cup {"none"}
        /\ \A j \in Instances : j # i => ops'[j] = ops[j] /\ (lock = j => lock' = j)
    BY <2>1 DEF Goes, Ends, Release
  <2> QED
    BY <1>0, <2>1, <2>2, <2>3, QuietOpMoves
<1> QED
  BY <1>2, <1>3

-----------------------------------------------------------------------------
LEMMA PolicyStutters ==
    ASSUME PolicyInv, UNCHANGED policyVars
    PROVE  PolicyInv'
  BY DEF PolicyInv, policyVars, PolicyTypeOK, EnginesFollow, EngineFollows, WritersHoldLock,
         DisablesAreGuarded, Indispensable, Others, Active

(* The invariant is inductive. *)
LEMMA PolicyKept == PolicyInv /\ [PolicyNext]_policyVars => PolicyInv'
<1> SUFFICES ASSUME PolicyInv, [PolicyNext]_policyVars PROVE PolicyInv'
  OBVIOUS
<1>1. ASSUME NEW i \in Instances,
             \/ BootLoadPolicy(i) \/ BootClaim(i) \/ SyncRead(i) \/ SyncLoad(i) \/ SyncClaim(i)
             \/ CrashEngine(i)
      PROVE  PolicyInv'
  BY <1>1, BootLoadPolicyKeeps, BootClaimKeeps, SyncReadKeeps, SyncLoadKeeps, SyncClaimKeeps,
     CrashEngineKeeps
<1>2. ASSUME NEW i \in Instances,
             \/ LockTimeout(i) \/ Guard(i) \/ WritePolicy(i) \/ WriteStatus(i) \/ Reload(i)
             \/ ReloadFails(i) \/ Undo(i)
      PROVE  PolicyInv'
  BY <1>2, LockTimeoutKeeps, GuardKeeps, WritePolicyKeeps, WriteStatusKeeps, ReloadKeeps,
     ReloadFailsKeeps, UndoKeeps
<1> QED
  BY <1>1, <1>2, AskKeeps, EnableKeeps, PolicyStutters DEF PolicyNext

(* Every state of the cluster satisfies the invariant: PolicySpec keeps    *)
(* what the writers of the policy, and its readers, rely on.               *)
THEOREM PolicyInvariant == PolicySpec => []PolicyInv
<1>1. PolicyInit => PolicyInv
  BY PolicyStarts
<1>2. PolicyInv /\ [PolicyNext]_policyVars => PolicyInv'
  BY PolicyKept
<1> QED
  BY <1>1, <1>2, PTL DEF PolicySpec

(* Type correctness of the policy, the accounts, the engines and the       *)
(* operations in progress.                                                 *)
THEOREM PolicyTypeCorrect == PolicySpec => []PolicyTypeOK
<1>1. PolicyInv => PolicyTypeOK
  BY DEF PolicyInv
<1> QED
  BY <1>1, PolicyInvariant, PTL

(* No step but the end of a start takes an engine's claim ahead of its     *)
(* rules.                                                                  *)
LEMMA StepsEnforce ==
    ASSUME PolicyInv, PolicyNext, NEW i \in Instances, Enforces(i), ~Enforces(i)'
    PROVE  BootClaim(i) /\ Stale(i)
<1>1. engines'[i] # engines[i]
  BY DEF Enforces
<1>2. PICK j \in Instances :
          \/ BootLoadPolicy(j) \/ BootClaim(j) \/ SyncRead(j) \/ SyncLoad(j) \/ SyncClaim(j)
          \/ CrashEngine(j) \/ Reload(j)
  BY <1>1 DEF PolicyNext, LockTimeout, Guard, WritePolicy, WriteStatus, ReloadFails, Undo, Ask, Enable
<1>3. j = i
  BY <1>1, <1>2, EngineKnown DEF BootLoadPolicy, BootClaim, SyncRead, SyncLoad, SyncClaim, CrashEngine, Reload
<1>4. ~BootLoadPolicy(i) /\ ~SyncRead(i) /\ ~CrashEngine(i)
  BY EngineKnown, PolicyValuesAreTyped DEF BootLoadPolicy, SyncRead, CrashEngine, Enforces, EngineRecords
<1>5. ~SyncLoad(i) /\ ~Reload(i)
  <2>1. engines \in [Instances -> EngineRecords] /\ policy.version \in Nat /\ engines[i].claimed <= policy.version
    BY EngineKnown DEF EngineFollows
  <2>2. ~SyncLoad(i)
    <3>1. SyncLoad(i) => engines'[i].claimed = engines[i].claimed /\ engines'[i].loaded = policy.version
      BY <2>1 DEF SyncLoad, Loaded, EngineRecords
    <3> QED
      BY <2>1, <3>1 DEF Enforces
  <2>3. ~Reload(i)
    <3>1. Reload(i) => engines'[i].claimed = policy.version /\ engines'[i].loaded = policy.version
      BY <2>1 DEF Reload, Loaded, EngineRecords
    <3> QED
      BY <2>1, <3>1 DEF Enforces
  <2> QED
    BY <2>2, <2>3
<1>6. ~SyncClaim(i)
  BY EngineKnown DEF SyncClaim, Claimed, Enforces, EngineRecords, EngineFollows
<1>7. BootClaim(i)
  BY <1>2, <1>3, <1>4, <1>5, <1>6
<1> QED
  BY <1>7, EngineKnown DEF BootClaim, Stale, Enforces, EngineRecords

(* An instance that enforces the version it claims goes on to do so, for   *)
(* any number of instances, unless the policy changes between the loading  *)
(* of its rules and the end of its start.                                  *)
THEOREM ClaimsEnforced == PolicySpec => ReloadsAreEnforced
<1>1. PolicyInv /\ [PolicyNext]_policyVars =>
        [\A i \in Instances : Enforces(i) /\ ~Enforces(i)' => BootClaim(i) /\ Stale(i)]_policyVars
  BY StepsEnforce
<1> QED
  BY <1>1, PolicyInvariant, PTL DEF PolicySpec, ReloadsAreEnforced

(* A write of the policy keeps an active member if there was one. *)
LEMMA WritesKeepAdmin ==
    ASSUME PolicyInv, NEW i \in Instances, WritePolicy(i), HasAdmin
    PROVE  HasAdmin'
<1> DEFINE next == NextMembers(ops[i].kind, ops[i].who)
<1>1. CASE UNCHANGED policy
  BY <1>1 DEF WritePolicy, HasAdmin, Active
<1>2. CASE ~UNCHANGED policy
  <2>1. SafePolicy(next) /\ policy'.members = next /\ UNCHANGED accounts
    BY <1>2 DEF WritePolicy
  <2> QED
    BY <2>1 DEF SafePolicy, KeepsMembers, KeepsActive, HasAdmin, Active
<1> QED
  BY <1>1, <1>2

(* A disable whose guard was not misled leaves another member. *)
LEMMA DisablesKeepAdmin ==
    ASSUME PolicyInv, NEW i \in Instances, WriteStatus(i), ~ops[i].misled, HasAdmin
    PROVE  HasAdmin'
<1> USE OpKnown
<1>1. /\ ~Indispensable(ops[i].who) /\ UNCHANGED policy
      /\ accounts' = IF Active(ops[i].who) THEN [accounts EXCEPT ![ops[i].who] = "disabled"] ELSE accounts
  BY DEF WriteStatus, Status, DisablesAreGuarded
<1>2. PICK p \in policy.members : Active(p) /\ (p # ops[i].who \/ ~Active(ops[i].who))
  BY <1>1 DEF HasAdmin, Indispensable, Others
<1>3. Active(p)'
  BY <1>1, <1>2 DEF Active
<1> QED
  BY <1>1, <1>3 DEF HasAdmin

(* Every other step leaves the members alone and only activates accounts.  *)
LEMMA OthersKeepAdmin ==
    ASSUME PolicyInv, PolicyNext, HasAdmin,
           \A i \in Instances : ~WritePolicy(i) /\ ~WriteStatus(i) /\ ~Undo(i)
    PROVE  HasAdmin'
<1>1. CASE UNCHANGED <<policy, accounts>>
  BY <1>1 DEF HasAdmin, Active
<1>2. CASE ~UNCHANGED <<policy, accounts>>
  <2>1. UNCHANGED policy /\ \E p \in People : Status(p, "active")
    <3>1. CASE \E i \in Instances, kind \in Changes, who \in People : Ask(i, kind, who)
      BY <1>2, <3>1 DEF Ask
    <3>2. CASE \E i \in Instances : Guard(i)
      BY <1>2, <3>2, OpKnown DEF Guard, OpRecords
    <3>3. CASE \E p \in People : Enable(p)
      BY <3>3 DEF Enable
    <3> QED
      BY <1>2, <3>1, <3>2, <3>3 DEF PolicyNext, BootLoadPolicy, BootClaim, SyncRead, SyncLoad, SyncClaim,
         CrashEngine, LockTimeout, Reload, ReloadFails
  <2> QED
    BY <2>1, ActivationsHelp DEF Status
<1> QED
  BY <1>1, <1>2

(* For any number of instances and accounts, the last active super         *)
(* administrator is lost only by a compensation, or by a disable whose     *)
(* guard was misled about the very account.                                *)
THEOREM AdminStays == PolicySpec => LastAdminStays
<1>1. PolicyInv /\ [PolicyNext]_policyVars =>
        [HasAdmin /\ ~HasAdmin' =>
            \E i \in Instances : Undo(i) \/ (WriteStatus(i) /\ ops[i].misled)]_policyVars
  BY WritesKeepAdmin, DisablesKeepAdmin, OthersKeepAdmin
<1> QED
  BY <1>1, PolicyInvariant, PTL DEF PolicySpec, LastAdminStays

-----------------------------------------------------------------------------
(***************************************************************************)
(* CatalogCache.                                                           *)
(*                                                                         *)
(* That stale copies are explained is not inductive: a request that loaded *)
(* a row is about to make a copy of it, so the same is needed of the loads *)
(* in progress, and that every request that writes is one that             *)
(* invalidates.                                                            *)
(***************************************************************************)
CallerRecords == [at : {"none", "loading", "filling", "writing", "invalidating"}, op : Operations,
             key : Keys, value : Values, overtaken : BOOLEAN]

(* A request that may write a row does not hold a mere read. *)
WritersInvalidate == \A c \in Callers : callers[c].at = "writing" => callers[c].op \in Invalidating

CatalogInv ==
    CatalogTypeOK /\ WritersInvalidate /\ StaleCopiesAreExplained /\ StaleLoadsAreExplained

-----------------------------------------------------------------------------
(* A request at rest is a request; this needs a row to exist. *)
LEMMA RestingIsTyped == AtRest \in CallerRecords /\ AtRest.at = "none"
<1>1. \E k \in Keys : TRUE
  BY CatalogAssumption DEF Keys
<1>2. (CHOOSE k \in Keys : TRUE) \in Keys
  BY <1>1
<1>3. 0 \in Values
  BY CatalogAssumption DEF Values
<1> QED
  BY <1>2, <1>3 DEF AtRest, CallerRecords, Operations

(* The invariant holds initially. *)
LEMMA CatalogStarts == CatalogInit => CatalogInv
<1> SUFFICES ASSUME CatalogInit PROVE CatalogInv
  OBVIOUS
<1> USE CatalogAssumption DEF CatalogInit
<1>1. CatalogTypeOK
  BY RestingIsTyped DEF CatalogTypeOK, CallerRecords, Values, NoCopy
<1>2. WritersInvalidate
  BY RestingIsTyped DEF WritersInvalidate
<1>3. StaleCopiesAreExplained
  BY DEF StaleCopiesAreExplained, NoCopy
<1>4. StaleLoadsAreExplained
  BY RestingIsTyped DEF StaleLoadsAreExplained
<1> QED
  BY <1>1, <1>2, <1>3, <1>4 DEF CatalogInv

(* A request goes to its next step and touches neither rows nor copies. *)
LEMMA CallerMoves ==
    ASSUME CatalogInv, NEW c \in Callers, NEW r \in CallerRecords,
           UNCHANGED <<table, copies, writes>>, callers' = [callers EXCEPT ![c] = r],
           callers[c].at # "invalidating",
           r.at = "writing" => r.op \in Invalidating,
           r.at = "filling" => r.value = table[r.key]
    PROVE  CatalogInv'
<1>0. CatalogTypeOK /\ WritersInvalidate /\ StaleCopiesAreExplained /\ StaleLoadsAreExplained
  BY DEF CatalogInv
<1>1. callers'[c] = r /\ \A d \in Callers : d # c => callers'[d] = callers[d]
  BY <1>0 DEF CatalogTypeOK
<1>2. CatalogTypeOK'
  BY <1>0 DEF CatalogTypeOK, CallerRecords
<1>3. WritersInvalidate'
  BY <1>0, <1>1 DEF WritersInvalidate
<1>4. \A k \in Keys : BeingInvalidated(k) => BeingInvalidated(k)'
  BY <1>1 DEF BeingInvalidated, On
<1>5. StaleCopiesAreExplained'
  BY <1>0, <1>4 DEF StaleCopiesAreExplained
<1>6. StaleLoadsAreExplained'
  <2> SUFFICES ASSUME NEW d \in Callers, callers'[d].at = "filling",
                      callers'[d].value # table'[callers'[d].key]
               PROVE  callers'[d].overtaken \/ \E e \in Callers :
                          callers'[e].at = "invalidating" /\ callers'[e].key = callers'[d].key
    BY DEF StaleLoadsAreExplained, BeingInvalidated, On
  <2>1. d # c /\ callers'[d] = callers[d]
    BY <1>1
  <2>2. callers[d].overtaken \/ BeingInvalidated(callers[d].key)
    BY <1>0, <2>1 DEF StaleLoadsAreExplained
  <2> QED
    BY <1>1, <2>1, <2>2 DEF BeingInvalidated, On
<1> QED
  BY <1>2, <1>3, <1>5, <1>6 DEF CatalogInv

(* A request begins with a read, a deletion or another write. *)
LEMMA BeginningKeeps ==
    ASSUME CatalogInv, NEW c \in Callers, NEW k \in Keys, NEW op \in Operations,
           NEW step \in {"loading", "writing"}, callers' = Begins(c, step, op, k),
           callers[c].at = "none", UNCHANGED <<table, copies, writes>>,
           step = "writing" => op \in Invalidating
    PROVE  CatalogInv'
<1> DEFINE r == [at |-> step, op |-> op, key |-> k, value |-> 0, overtaken |-> FALSE]
<1>1. r \in CallerRecords
  BY CatalogAssumption DEF CallerRecords, Values
<1>2. callers' = [callers EXCEPT ![c] = r]
  BY DEF Begins
<1> QED
  BY <1>1, <1>2, CallerMoves

(* A request ends without having changed anything. *)
LEMMA FinishingKeeps ==
    ASSUME CatalogInv, NEW c \in Callers, callers' = Finishes(c),
           callers[c].at # "invalidating", UNCHANGED <<table, copies, writes>>
    PROVE  CatalogInv'
<1>1. callers' = [callers EXCEPT ![c] = AtRest]
  BY DEF Finishes
<1> QED
  BY <1>1, CallerMoves, RestingIsTyped

LEMMA TakeKeeps ==
    ASSUME CatalogInv, NEW c \in Callers, NEW k \in Keys, Take(c, k)
    PROVE  CatalogInv'
<1>0. UNCHANGED <<table, copies, writes>> /\ callers[c].at = "none"
  BY DEF Take
<1>1. (\E op \in {"get", "delete"} : callers' = Begins(c, "loading", op, k))
      \/ callers' = Begins(c, "writing", "delete", k)
  BY DEF Take
<1>2. ASSUME NEW op \in {"get", "delete"}, callers' = Begins(c, "loading", op, k) PROVE CatalogInv'
  BY <1>0, <1>2, BeginningKeeps DEF Operations
<1>3. ASSUME callers' = Begins(c, "writing", "delete", k) PROVE CatalogInv'
  BY <1>0, <1>3, BeginningKeeps DEF Operations, Invalidating
<1> QED
  BY <1>1, <1>2, <1>3

LEMMA LoadRowKeeps ==
    ASSUME CatalogInv, NEW c \in Callers, LoadRow(c)
    PROVE  CatalogInv'
<1> DEFINE r == [at |-> "filling", op |-> callers[c].op, key |-> callers[c].key,
                 value |-> table[callers[c].key], overtaken |-> callers[c].overtaken]
<1>1. callers[c] \in CallerRecords /\ table \in [Keys -> Values]
  BY DEF CatalogInv, CatalogTypeOK, CallerRecords
<1>2. r \in CallerRecords
  BY <1>1 DEF CallerRecords
<1>3. callers' = [callers EXCEPT ![c] = [[callers[c] EXCEPT !.at = "filling"]
                                              EXCEPT !.value = table[callers[c].key]]]
  BY DEF LoadRow, CatalogInv, CatalogTypeOK
<1>4. [[callers[c] EXCEPT !.at = "filling"] EXCEPT !.value = table[callers[c].key]] = r
  <2> DEFINE q == callers[c]
             v == table[q.key]
  <2>1. q = [at |-> q.at, op |-> q.op, key |-> q.key, value |-> q.value, overtaken |-> q.overtaken]
    BY <1>1 DEF CallerRecords
  <2> DEFINE e == [at |-> "filling", op |-> q.op, key |-> q.key, value |-> q.value,
                    overtaken |-> q.overtaken]
  <2>2. [q EXCEPT !.at = "filling"] = e
    BY <2>1
  <2>3. [e EXCEPT !.value = v] = r
    OBVIOUS
  <2> HIDE DEF e, r
  <2> QED
    BY <2>2, <2>3
<1>5. callers' = [callers EXCEPT ![c] = r]
  BY <1>3, <1>4
<1>6. r.at = "filling" /\ r.value = table[r.key]
  OBVIOUS
<1> HIDE DEF r
<1> QED
  BY <1>2, <1>5, <1>6, CallerMoves DEF LoadRow

LEMMA AskWriteKeeps ==
    ASSUME CatalogInv, NEW c \in Callers, NEW k \in Keys, NEW op \in Operations, AskWrite(c, k, op)
    PROVE  CatalogInv'
  BY BeginningKeeps DEF AskWrite, Operations, Invalidating

LEMMA LoadFailsKeeps ==
    ASSUME CatalogInv, NEW c \in Callers, LoadFails(c)
    PROVE  CatalogInv'
  BY FinishingKeeps DEF LoadFails

LEMMA WriteRefusedKeeps ==
    ASSUME CatalogInv, NEW c \in Callers, WriteRefused(c)
    PROVE  CatalogInv'
  BY FinishingKeeps DEF WriteRefused

(* A loaded value becomes a copy; where it is stale, it was explained.     *)
LEMMA FillKeeps ==
    ASSUME CatalogInv, NEW c \in Callers, Fill(c)
    PROVE  CatalogInv'
<1> DEFINE k == callers[c].key
<1>0. CatalogTypeOK /\ WritersInvalidate /\ StaleCopiesAreExplained /\ StaleLoadsAreExplained
  BY DEF CatalogInv
<1>1. callers[c] \in CallerRecords /\ k \in Keys /\ callers[c].at = "filling"
  BY <1>0 DEF CatalogTypeOK, CallerRecords, Fill
<1>2. UNCHANGED <<table, writes>>
  BY DEF Fill
<1>3. PICK r \in CallerRecords : callers' = [callers EXCEPT ![c] = r]
                            /\ (r = AtRest \/ (r.at = "writing" /\ r.op = "delete"))
  <2> DEFINE w == [at |-> "writing", op |-> "delete", key |-> k, value |-> 0, overtaken |-> FALSE]
  <2>1. w \in CallerRecords /\ w.at = "writing" /\ w.op = "delete"
    BY <1>1, CatalogAssumption DEF CallerRecords, Operations, Values
  <2>2. callers' = [callers EXCEPT ![c] = w] \/ callers' = [callers EXCEPT ![c] = AtRest]
    BY DEF Fill, Answered, Begins, Finishes
  <2> QED
    BY <2>1, <2>2, RestingIsTyped
<1>4. r.at # "filling" /\ r.at # "invalidating" /\ (r.at = "writing" => r.op \in Invalidating)
  BY <1>3, RestingIsTyped DEF Invalidating
<1>5. callers'[c] = r /\ \A d \in Callers : d # c => callers'[d] = callers[d]
  BY <1>0, <1>3 DEF CatalogTypeOK
<1>6. copies' = copies \/ copies' = [copies EXCEPT ![k] = Copy(c)]
  BY DEF Fill
<1>7. CatalogTypeOK'
  <2>1. callers' \in [Callers -> CallerRecords]
    BY <1>0, <1>3 DEF CatalogTypeOK, CallerRecords
  <2>2. Copy(c) \in [held : BOOLEAN, value : Values, overtaken : BOOLEAN]
    BY <1>1 DEF Copy, CallerRecords
  <2>3. copies' \in [Keys -> [held : BOOLEAN, value : Values, overtaken : BOOLEAN]]
    BY <1>0, <1>6, <2>2 DEF CatalogTypeOK
  <2> QED
    BY <1>0, <1>2, <2>1, <2>3 DEF CatalogTypeOK, CallerRecords
<1>8. WritersInvalidate'
  BY <1>0, <1>4, <1>5 DEF WritersInvalidate
<1>9. \A k2 \in Keys : BeingInvalidated(k2) => BeingInvalidated(k2)'
  BY <1>1, <1>5 DEF BeingInvalidated, On
<1>10. StaleCopiesAreExplained'
  <2> SUFFICES ASSUME NEW k2 \in Keys, copies'[k2].held, copies'[k2].value # table[k2]
               PROVE  copies'[k2].overtaken \/ BeingInvalidated(k2)'
    BY <1>2 DEF StaleCopiesAreExplained
  <2>1. ASSUME copies'[k2] = copies[k2] PROVE copies'[k2].overtaken \/ BeingInvalidated(k2)'
    BY <1>0, <1>9, <2>1 DEF StaleCopiesAreExplained
  <2>2. ASSUME k2 = k, copies'[k] = Copy(c) PROVE copies'[k2].overtaken \/ BeingInvalidated(k2)'
    BY <1>0, <1>1, <1>9, <2>2 DEF StaleLoadsAreExplained, Copy
  <2>3. copies'[k2] = copies[k2] \/ (k2 = k /\ copies'[k] = Copy(c))
    BY <1>0, <1>1, <1>6 DEF CatalogTypeOK
  <2> QED
    BY <2>1, <2>2, <2>3
<1>11. StaleLoadsAreExplained'
  <2> SUFFICES ASSUME NEW d \in Callers, callers'[d].at = "filling",
                      callers'[d].value # table'[callers'[d].key]
               PROVE  callers'[d].overtaken \/ \E e \in Callers :
                          callers'[e].at = "invalidating" /\ callers'[e].key = callers'[d].key
    BY DEF StaleLoadsAreExplained, BeingInvalidated, On
  <2>1. d # c /\ callers'[d] = callers[d]
    BY <1>4, <1>5
  <2>2. callers[d].overtaken \/ BeingInvalidated(callers[d].key)
    BY <1>0, <1>2, <2>1 DEF StaleLoadsAreExplained
  <2> QED
    BY <1>1, <1>5, <2>1, <2>2 DEF BeingInvalidated, On
<1> QED
  BY <1>7, <1>8, <1>10, <1>11 DEF CatalogInv

(* The rows of other keys stay; the stale copies and loads of this one are *)
(* explained by the invalidation to come.                                  *)
LEMMA WriteRowKeeps ==
    ASSUME CatalogInv, NEW c \in Callers, WriteRow(c)
    PROVE  CatalogInv'
<1> DEFINE k == callers[c].key
           q == callers[c]
           r == [at |-> "invalidating", op |-> q.op, key |-> q.key, value |-> q.value,
                 overtaken |-> q.overtaken]
<1>0. CatalogTypeOK /\ WritersInvalidate /\ StaleCopiesAreExplained /\ StaleLoadsAreExplained
  BY DEF CatalogInv
<1>1. q \in CallerRecords /\ k \in Keys /\ q.at = "writing"
  BY <1>0 DEF CatalogTypeOK, CallerRecords, WriteRow
<1>2. callers' = [callers EXCEPT ![c] = r]
  <2>1. q.op \in Invalidating
    BY <1>0, <1>1 DEF WritersInvalidate
  <2>2. callers' = [callers EXCEPT ![c].at = "invalidating"]
    BY <2>1 DEF WriteRow, MovesTo
  <2>3. q = [at |-> q.at, op |-> q.op, key |-> q.key, value |-> q.value, overtaken |-> q.overtaken]
    BY <1>1 DEF CallerRecords
  <2>4. [q EXCEPT !.at = "invalidating"] = r
    BY <2>3
  <2> QED
    BY <2>2, <2>4
<1>3. r \in CallerRecords /\ r.at = "invalidating" /\ r.key = k
  BY <1>1 DEF CallerRecords
<1> HIDE DEF r
<1>4. callers'[c] = r /\ \A d \in Callers : d # c => callers'[d] = callers[d]
  BY <1>0, <1>2 DEF CatalogTypeOK
<1>5. UNCHANGED copies /\ \A k2 \in Keys : k2 # k => table'[k2] = table[k2]
  BY <1>0 DEF WriteRow, CatalogTypeOK
<1>6. CatalogTypeOK'
  <2>1. callers' \in [Callers -> CallerRecords]
    BY <1>0, <1>2, <1>3 DEF CatalogTypeOK, CallerRecords
  <2>2. writes' \in Values /\ 0 \in Values
    BY <1>0, CatalogAssumption DEF CatalogTypeOK, Values, WriteRow
  <2>3. table' \in [Keys -> Values]
    BY <1>0, <2>2 DEF CatalogTypeOK, WriteRow
  <2> QED
    BY <1>0, <1>5, <2>1, <2>2, <2>3 DEF CatalogTypeOK, CallerRecords
<1>7. WritersInvalidate'
  BY <1>0, <1>3, <1>4 DEF WritersInvalidate
<1>8. \A k2 \in Keys : k2 = k \/ BeingInvalidated(k2) => BeingInvalidated(k2)'
  BY <1>1, <1>3, <1>4 DEF BeingInvalidated, On
<1>9. StaleCopiesAreExplained'
  BY <1>0, <1>5, <1>8 DEF StaleCopiesAreExplained
<1>10. StaleLoadsAreExplained'
  <2> SUFFICES ASSUME NEW d \in Callers, callers'[d].at = "filling",
                      callers'[d].value # table'[callers'[d].key]
               PROVE  callers'[d].overtaken \/ \E e \in Callers :
                          callers'[e].at = "invalidating" /\ callers'[e].key = callers'[d].key
    BY DEF StaleLoadsAreExplained, BeingInvalidated, On
  <2>1. d # c /\ callers'[d] = callers[d]
    BY <1>3, <1>4
  <2>2. ASSUME callers[d].key = k
        PROVE  callers'[c].at = "invalidating" /\ callers'[c].key = callers'[d].key
    BY <1>3, <1>4, <2>1, <2>2
  <2>3. ASSUME callers[d].key # k
        PROVE  callers[d].overtaken \/ BeingInvalidated(callers[d].key)
    <3>1. callers[d].key \in Keys
      BY <1>0 DEF CatalogTypeOK
    <3> QED
      BY <1>0, <1>5, <2>1, <2>3, <3>1 DEF StaleLoadsAreExplained
  <2> QED
    BY <1>1, <1>4, <2>1, <2>2, <2>3 DEF BeingInvalidated, On
<1> QED
  BY <1>6, <1>7, <1>9, <1>10 DEF CatalogInv

(* Whether the deletion succeeds or is lost: a copy or a load that is left *)
(* was overtaken.                                                          *)
LEMMA InvalidationKeeps ==
    ASSUME CatalogInv, NEW c \in Callers, callers[c].at = "invalidating",
           UNCHANGED <<table, writes>>, callers' = Overtaking(c),
           copies' \in [Keys -> [held : BOOLEAN, value : Values, overtaken : BOOLEAN]],
           \A k \in Keys : k # callers[c].key => copies'[k] = copies[k],
           copies'[callers[c].key].held => copies'[callers[c].key].overtaken
    PROVE  CatalogInv'
<1> DEFINE k == callers[c].key
<1>0. CatalogTypeOK /\ WritersInvalidate /\ StaleCopiesAreExplained /\ StaleLoadsAreExplained
  BY DEF CatalogInv
<1>1. callers \in [Callers -> CallerRecords] /\ k \in Keys
  BY <1>0 DEF CatalogTypeOK, CallerRecords
<1>2. \A d \in Callers : d # c =>
          /\ callers'[d] \in CallerRecords
          /\ callers'[d].at = callers[d].at /\ callers'[d].op = callers[d].op
          /\ callers'[d].key = callers[d].key /\ callers'[d].value = callers[d].value
          /\ callers'[d].overtaken = (callers[d].overtaken \/ On(d, "filling", k))
  <2> SUFFICES ASSUME NEW d \in Callers, d # c
               PROVE  /\ callers'[d] \in CallerRecords
                      /\ callers'[d].at = callers[d].at /\ callers'[d].op = callers[d].op
                      /\ callers'[d].key = callers[d].key /\ callers'[d].value = callers[d].value
                      /\ callers'[d].overtaken = (callers[d].overtaken \/ On(d, "filling", k))
    OBVIOUS
  <2> DEFINE q == callers[d]
             o == q.overtaken \/ On(d, "filling", k)
             r == [at |-> q.at, op |-> q.op, key |-> q.key, value |-> q.value, overtaken |-> o]
  <2>1. q \in CallerRecords /\ o \in BOOLEAN
    BY <1>1 DEF CallerRecords, On
  <2>2. q = [at |-> q.at, op |-> q.op, key |-> q.key, value |-> q.value, overtaken |-> q.overtaken]
    BY <2>1 DEF CallerRecords
  <2> HIDE DEF o
  <2>3. [q EXCEPT !.overtaken = o] = r
    BY <2>2
  <2>4. callers'[d] = r
    BY <2>3 DEF Overtaking, o
  <2>5. callers'[d].overtaken = o
    BY <2>4
  <2> QED
    BY <2>1, <2>4, <2>5 DEF CallerRecords, o
<1>3. callers'[c] = AtRest
  BY DEF Overtaking, On
<1>4. CatalogTypeOK'
  <2>1. callers' \in [Callers -> CallerRecords]
    <3>1. \A d \in Callers : callers'[d] \in CallerRecords
      BY <1>2, <1>3, RestingIsTyped
    <3>2. callers' = [d \in Callers |-> callers'[d]]
      BY DEF Overtaking
    <3> QED
      BY <3>1, <3>2
  <2> QED
    BY <1>0, <2>1 DEF CatalogTypeOK, CallerRecords
<1>5. WritersInvalidate'
  BY <1>0, <1>2, <1>3, RestingIsTyped DEF WritersInvalidate
<1>6. \A k2 \in Keys : k2 # k => (BeingInvalidated(k2) => BeingInvalidated(k2)')
  BY <1>2 DEF BeingInvalidated, On
<1>7. StaleCopiesAreExplained'
  BY <1>0, <1>6 DEF StaleCopiesAreExplained
<1>8. StaleLoadsAreExplained'
  <2> SUFFICES ASSUME NEW d \in Callers, callers'[d].at = "filling",
                      callers'[d].value # table'[callers'[d].key]
               PROVE  callers'[d].overtaken \/ \E e \in Callers :
                          callers'[e].at = "invalidating" /\ callers'[e].key = callers'[d].key
    BY DEF StaleLoadsAreExplained, BeingInvalidated, On
  <2>1. d # c
    BY <1>3, RestingIsTyped
  <2>2. callers[d].at = "filling" /\ callers[d].value # table[callers[d].key]
    BY <1>2, <2>1
  <2>3. ASSUME callers[d].key = k PROVE callers'[d].overtaken
    BY <1>2, <2>1, <2>2, <2>3 DEF On
  <2>4. ASSUME callers[d].key # k, ~callers[d].overtaken
        PROVE  \E e \in Callers : callers'[e].at = "invalidating" /\ callers'[e].key = callers'[d].key
    <3>1. PICK e \in Callers : callers[e].at = "invalidating" /\ callers[e].key = callers[d].key
      BY <1>0, <2>2, <2>4 DEF StaleLoadsAreExplained, BeingInvalidated, On
    <3> QED
      BY <1>2, <2>1, <2>4, <3>1
  <2>5. callers[d].overtaken => callers'[d].overtaken
    BY <1>2, <2>1
  <2> QED
    BY <2>3, <2>4, <2>5
<1> QED
  BY <1>4, <1>5, <1>7, <1>8 DEF CatalogInv

LEMMA InvalidateKeeps ==
    ASSUME CatalogInv, NEW c \in Callers, Invalidate(c)
    PROVE  CatalogInv'
<1>1. callers[c].key \in Keys /\ copies \in [Keys -> [held : BOOLEAN, value : Values, overtaken : BOOLEAN]]
  BY DEF CatalogInv, CatalogTypeOK
<1>2. NoCopy \in [held : BOOLEAN, value : Values, overtaken : BOOLEAN] /\ ~NoCopy.held
  BY CatalogAssumption DEF NoCopy, Values
<1>3. copies' = [copies EXCEPT ![callers[c].key] = NoCopy]
  BY DEF Invalidate
<1>4. copies' \in [Keys -> [held : BOOLEAN, value : Values, overtaken : BOOLEAN]]
  BY <1>1, <1>2, <1>3
<1>5. copies'[callers[c].key] = NoCopy /\ \A k \in Keys : k # callers[c].key => copies'[k] = copies[k]
  BY <1>1, <1>3
<1> QED
  BY <1>2, <1>4, <1>5, InvalidationKeeps DEF Invalidate

LEMMA InvalidationLostKeeps ==
    ASSUME CatalogInv, NEW c \in Callers, InvalidationLost(c)
    PROVE  CatalogInv'
<1> DEFINE k == callers[c].key
           o == copies[k]
           n == [held |-> o.held, value |-> o.value, overtaken |-> o.overtaken \/ o.held]
<1>1. k \in Keys /\ copies \in [Keys -> [held : BOOLEAN, value : Values, overtaken : BOOLEAN]]
  BY DEF CatalogInv, CatalogTypeOK
<1>2. copies' = [copies EXCEPT ![k] = n]
  <2>1. o \in [held : BOOLEAN, value : Values, overtaken : BOOLEAN]
    BY <1>1
  <2>2. o = [held |-> o.held, value |-> o.value, overtaken |-> o.overtaken]
    BY <2>1
  <2>3. copies' = [copies EXCEPT ![k] = [o EXCEPT !.overtaken = o.overtaken \/ o.held]]
    BY <1>1 DEF InvalidationLost
  <2>4. [o EXCEPT !.overtaken = o.overtaken \/ o.held] = n
    BY <2>2
  <2> QED
    BY <2>3, <2>4
<1>3. n \in [held : BOOLEAN, value : Values, overtaken : BOOLEAN] /\ (n.held => n.overtaken)
  BY <1>1
<1> HIDE DEF n
<1>4. copies' \in [Keys -> [held : BOOLEAN, value : Values, overtaken : BOOLEAN]]
  BY <1>1, <1>2, <1>3
<1>5. copies'[k] = n /\ \A k2 \in Keys : k2 # k => copies'[k2] = copies[k2]
  BY <1>1, <1>2
<1> QED
  BY <1>3, <1>4, <1>5, InvalidationKeeps DEF InvalidationLost

LEMMA ExpireCopyKeeps ==
    ASSUME CatalogInv, NEW k \in Keys, ExpireCopy(k)
    PROVE  CatalogInv'
<1>0. CatalogTypeOK /\ WritersInvalidate /\ StaleCopiesAreExplained /\ StaleLoadsAreExplained
  BY DEF CatalogInv
<1>1. UNCHANGED <<table, callers, writes>> /\ copies' = [copies EXCEPT ![k] = NoCopy]
  BY DEF ExpireCopy
<1>2. CatalogTypeOK'
  BY <1>0, <1>1, CatalogAssumption DEF CatalogTypeOK, NoCopy, Values
<1>3. \A k2 \in Keys : copies'[k2] = NoCopy \/ copies'[k2] = copies[k2]
  BY <1>0, <1>1 DEF CatalogTypeOK
<1>4. StaleCopiesAreExplained'
  BY <1>0, <1>1, <1>3 DEF StaleCopiesAreExplained, BeingInvalidated, On, NoCopy
<1>5. WritersInvalidate' /\ StaleLoadsAreExplained'
  BY <1>0, <1>1 DEF WritersInvalidate, StaleLoadsAreExplained, BeingInvalidated, On
<1> QED
  BY <1>2, <1>4, <1>5 DEF CatalogInv

LEMMA CatalogStutters ==
    ASSUME CatalogInv, UNCHANGED catalogVars
    PROVE  CatalogInv'
  BY DEF CatalogInv, CatalogTypeOK, WritersInvalidate, StaleCopiesAreExplained,
         StaleLoadsAreExplained, BeingInvalidated, On, catalogVars

LEMMA CatalogKept == CatalogInv /\ [CatalogNext]_catalogVars => CatalogInv'
  BY TakeKeeps, LoadRowKeeps, FillKeeps, LoadFailsKeeps, AskWriteKeeps, WriteRowKeeps,
     WriteRefusedKeeps, InvalidateKeeps, InvalidationLostKeeps, ExpireCopyKeeps, CatalogStutters
     DEF CatalogNext

-----------------------------------------------------------------------------
(* The invariant holds in every reachable state. *)
THEOREM CachesInvariant == CatalogSpec => []CatalogInv
  BY CatalogStarts, CatalogKept, PTL DEF CatalogSpec

(* Every variable of the caches keeps its type. *)
THEOREM CachesTypeCorrect == CatalogSpec => []CatalogTypeOK
<1>1. CatalogInv => CatalogTypeOK
  BY DEF CatalogInv
<1> QED
  BY <1>1, CachesInvariant, PTL

(* However many instances read and write, and whichever deletions are      *)
(* lost, a copy that differs from its row was overtaken by a deletion or   *)
(* is about to be deleted (takeAccount, invalidateAccounts).               *)
THEOREM CachesAreExplained == CatalogSpec => []StaleCopiesAreExplained
<1>1. CatalogInv => StaleCopiesAreExplained
  BY DEF CatalogInv
<1> QED
  BY <1>1, CachesInvariant, PTL

-----------------------------------------------------------------------------
(***************************************************************************)
(* HandNews.                                                               *)
(*                                                                         *)
(* That news arrives is a statement about the end of broadcasts.  In       *)
(* between, an open connection that has not been told a move it is owed is *)
(* still to be served by the broadcast of that move, with a view that is   *)
(* new enough.                                                             *)
(***************************************************************************)
LineRecords == [on : BOOLEAN, queue : Seq(Items), seen : Items, owed : SUBSET Items]
CastRecords == [at : {"idle", "reply", "load", "seat", "view", "snapshot"}, news : Items, todo : SUBSET Lines,
                seat : Lines \cup {"none"}, item : Items]

(* The queues keep their bound, nobody is owed a move that was not made,   *)
(* and a view is on its way to a seat.                                     *)
NewsIsSound ==
    /\ \A c \in Lines : Len(lines[c].queue) <= LineQueue /\ \A m \in lines[c].owed : m <= move
    /\ \A x \in Lines : casts[x].at \in {"view", "snapshot"} => casts[x].seat \in Lines

(* The client of a connection was shown a version as new as a move, or     *)
(* will find it in its queue.                                              *)
Shown(l)   == {l.seen} \cup {l.queue[i] : i \in 1..Len(l.queue)}
Told(l, m) == \E v \in Shown(l) : v >= m

(* The broadcast of x is the one of the move, and has still to serve c,    *)
(* with a view it has not read yet or one that is new enough.              *)
Serves(x, c, m) ==
    /\ casts[x].news = m
    /\ \/ casts[x].at = "load"
       \/ casts[x].at \in {"seat", "view", "snapshot"} /\ c \in casts[x].todo
       \/ casts[x].at = "view" /\ casts[x].seat = c
       \/ casts[x].at = "snapshot" /\ casts[x].seat = c /\ casts[x].item >= m

NewsIsPending ==
    \A c \in Lines : lines[c].on =>
        \A m \in lines[c].owed : Told(lines[c], m) \/ \E x \in Lines : Serves(x, c, m)

NewsInv ==
    /\ lines \in [Lines -> LineRecords] /\ casts \in [Lines -> CastRecords] /\ move \in Items
    /\ NewsIsSound /\ NewsIsPending

LEMMA NewsKnown ==
    ASSUME NewsInv
    PROVE  /\ lines \in [Lines -> LineRecords] /\ casts \in [Lines -> CastRecords]
           /\ move \in Nat /\ move <= MaxMoves /\ MaxMoves \in Nat /\ LineQueue \in Nat /\ LineQueue > 0
           /\ Items \subseteq Nat /\ 0 \in Items /\ move \in Items
           /\ \A c \in Lines : /\ Len(lines[c].queue) <= LineQueue /\ lines[c].owed \subseteq Items
                               /\ \A m \in lines[c].owed : m <= move
                               /\ lines[c] \in LineRecords /\ casts[c] \in CastRecords
                               /\ casts[c].at \in {"view", "snapshot"} => casts[c].seat \in Lines
           /\ \A c \in Lines : lines[c].on =>
                  \A m \in lines[c].owed : Told(lines[c], m) \/ \E x \in Lines : Serves(x, c, m)
  BY NewsAssumption DEF NewsInv, NewsIsSound, NewsIsPending, Items, LineRecords

LEMMA NewsFollows ==
    ASSUME lines' \in [Lines -> LineRecords], casts' \in [Lines -> CastRecords], move' \in Items,
           \A c \in Lines : Len(lines'[c].queue) <= LineQueue /\ \A m \in lines'[c].owed : m <= move',
           \A x \in Lines : casts'[x].at \in {"view", "snapshot"} => casts'[x].seat \in Lines,
           \A c \in Lines : lines'[c].on =>
               \A m \in lines'[c].owed : Told(lines'[c], m) \/ \E x \in Lines : Serves(x, c, m)'
    PROVE  NewsInv'
<1>1. NewsIsSound' /\ NewsIsPending'
  BY DEF NewsIsSound, NewsIsPending, Told, Shown
<1> QED
  BY <1>1 DEF NewsInv, LineRecords, CastRecords, Items

LEMMA OffIsLine ==
    /\ Off \in LineRecords /\ Off.on = FALSE /\ Off.owed = {} /\ Len(Off.queue) = 0 /\ Off.seen = 0
<1>1. 0 \in Items /\ <<>> \in Seq(Items) /\ Len(<<>>) = 0
  BY NewsAssumption DEF Items
<1> QED
  BY <1>1 DEF Off, LineRecords

(* What is queued is added to what the client is told, unless the          *)
(* connection ends.                                                        *)
LEMMA QueuedTells ==
    ASSUME NEW l \in LineRecords, Len(l.queue) <= LineQueue, NEW item \in Items
    PROVE  /\ Queued(l, item) \in LineRecords /\ Len(Queued(l, item).queue) <= LineQueue
           /\ Queued(l, item).owed \in {{}, l.owed}
           /\ Queued(l, item).on =>
                  /\ l.on /\ Queued(l, item).owed = l.owed
                  /\ \A m \in Items : Told(l, m) \/ item >= m => Told(Queued(l, item), m)
<1>1. l.queue \in Seq(Items) /\ LineQueue \in Nat
  BY NewsAssumption DEF LineRecords
<1>2. CASE ~l.on \/ Len(l.queue) >= LineQueue
  <2>1. (Queued(l, item) = l /\ ~l.on) \/ Queued(l, item) = Off
    BY <1>1, <1>2 DEF Queued
  <2> QED
    BY <1>1, <2>1, OffIsLine
<1>3. CASE l.on /\ Len(l.queue) < LineQueue
  <2> DEFINE q == [l EXCEPT !.queue = Append(@, item)]
  <2>1. Queued(l, item) = q
    BY <1>3 DEF Queued
  <2>2. /\ q \in LineRecords /\ q.on = l.on /\ q.owed = l.owed /\ q.seen = l.seen
        /\ q.queue = Append(l.queue, item)
    BY <1>1 DEF LineRecords
  <2> HIDE DEF q
  <2>3. /\ Len(q.queue) = Len(l.queue) + 1 /\ Len(l.queue) \in Nat
        /\ \A i \in 1..Len(l.queue) : q.queue[i] = l.queue[i]
        /\ q.queue[Len(l.queue) + 1] = item
    BY <1>1, <2>2
  <2>4. Shown(l) \subseteq Shown(q) /\ item \in Shown(q)
    <3>1. \A i \in 1..Len(l.queue) : i \in 1..Len(q.queue)
      BY <2>3
    <3>2. Len(l.queue) + 1 \in 1..Len(q.queue)
      BY <2>3
    <3> QED
      BY <2>2, <2>3, <3>1, <3>2 DEF Shown
  <2>5. \A m \in Items : Told(l, m) \/ item >= m => Told(q, m)
    BY <2>4 DEF Told
  <2> QED
    BY <1>1, <1>3, <2>1, <2>2, <2>3, <2>5
<1> QED
  BY <1>1, <1>2, <1>3

(* A message to one connection. *)
LEMMA LineQueues ==
    ASSUME NewsInv, NEW d \in Lines, NEW item \in Items,
           lines' = [lines EXCEPT ![d] = Queued(@, item)], move' = move
    PROVE  /\ lines' \in [Lines -> LineRecords] /\ move' \in Items
           /\ \A c \in Lines : Len(lines'[c].queue) <= LineQueue /\ \A m \in lines'[c].owed : m <= move'
           /\ \A c \in Lines : lines'[c].on =>
                  /\ lines[c].on /\ lines'[c].owed = lines[c].owed
                  /\ \A m \in Items : Told(lines[c], m) => Told(lines'[c], m)
           /\ lines'[d].on => \A m \in Items : item >= m => Told(lines'[d], m)
<1> DEFINE l == Queued(lines[d], item)
<1>1. lines' = [lines EXCEPT ![d] = l]
  OBVIOUS
<1>2. /\ l \in LineRecords /\ Len(l.queue) <= LineQueue /\ l.owed \in {{}, lines[d].owed}
      /\ l.on => /\ lines[d].on /\ l.owed = lines[d].owed
                 /\ \A m \in Items : Told(lines[d], m) \/ item >= m => Told(l, m)
  BY NewsKnown, QueuedTells
<1> HIDE DEF l
<1>3. lines'[d] = l /\ \A c \in Lines : c # d => lines'[c] = lines[c]
  BY <1>1, NewsKnown
<1>4. lines' \in [Lines -> LineRecords]
  BY <1>1, <1>2, NewsKnown
<1>6. \A c \in Lines : Len(lines'[c].queue) <= LineQueue /\ \A m \in lines'[c].owed : m <= move'
  BY <1>2, <1>3, NewsKnown
<1> QED
  BY <1>2, <1>3, <1>4, <1>6, NewsKnown

(* The stages of a broadcast. *)
LEMMA AudienceLoaded ==
    ASSUME NEW k \in CastRecords
    PROVE  LET n == [k EXCEPT !.at = "seat", !.todo = Lines]
           IN  n \in CastRecords /\ n.at = "seat" /\ n.news = k.news /\ n.todo = Lines
  BY DEF CastRecords

LEMMA ChangeSent ==
    ASSUME NEW k \in CastRecords, NEW d \in Lines
    PROVE  LET n == [k EXCEPT !.at = "view", !.todo = @ \ {d}, !.seat = d]
           IN  n \in CastRecords /\ n.at = "view" /\ n.news = k.news /\ n.todo = k.todo \ {d} /\ n.seat = d
  BY DEF CastRecords

LEMMA ViewRead ==
    ASSUME NEW k \in CastRecords, NEW item \in Items
    PROVE  LET n == [k EXCEPT !.at = "snapshot", !.item = item]
           IN  /\ n \in CastRecords /\ n.at = "snapshot" /\ n.item = item
               /\ n.news = k.news /\ n.todo = k.todo /\ n.seat = k.seat
  BY DEF CastRecords

LEMMA SeatServed ==
    ASSUME NEW k \in CastRecords
    PROVE  LET n == [k EXCEPT !.at = "seat", !.seat = "none", !.item = 0]
           IN  n \in CastRecords /\ n.at = "seat" /\ n.news = k.news /\ n.todo = k.todo
<1>1. 0 \in Items
  BY NewsAssumption DEF Items
<1> QED
  BY <1>1 DEF CastRecords

LEMMA CastFails ==
    ASSUME NEW k \in CastRecords
    PROVE  LET n == [k EXCEPT !.at = "seat", !.seat = "none"]
               q == [NoCast EXCEPT !.at = "reply"]
           IN  /\ n \in CastRecords /\ n.at = "seat" /\ n.news = k.news /\ n.todo = k.todo
               /\ q \in CastRecords /\ q.at = "reply"
<1>1. 0 \in Items
  BY NewsAssumption DEF Items
<1>2. NoCast \in CastRecords
  BY <1>1 DEF NoCast, CastRecords
<1> QED
  BY <1>2 DEF CastRecords

(* A broadcast goes on serving as long as nothing happens to it. *)
LEMMA ServesOn ==
    ASSUME NEW x, NEW c, NEW m, Serves(x, c, m), casts'[x] = casts[x]
    PROVE  Serves(x, c, m)'
  BY DEF Serves

-----------------------------------------------------------------------------
LEMMA NewsStarts == NewsInit => NewsInv
<1> SUFFICES ASSUME NewsInit PROVE NewsInv
  OBVIOUS
<1>1. lines \in [Lines -> LineRecords] /\ \A c \in Lines : lines[c] = Off
  BY OffIsLine DEF NewsInit
<1>2. 0 \in Items /\ LineQueue \in Nat
  BY NewsAssumption DEF Items
<1>3. casts \in [Lines -> CastRecords] /\ \A x \in Lines : casts[x].at = "idle"
  BY <1>2 DEF NewsInit, NoCast, CastRecords
<1>4. NewsIsSound /\ NewsIsPending
  BY <1>1, <1>2, <1>3, OffIsLine DEF NewsInit, NewsIsSound, NewsIsPending
<1> QED
  BY <1>1, <1>2, <1>3, <1>4 DEF NewsInv, NewsInit

LEMMA HttpMoveKeeps == ASSUME NewsInv, HttpMove PROVE NewsInv'
<1>1. lines' = lines /\ casts' = casts /\ move' = move + 1 /\ move < MaxMoves
  BY DEF HttpMove
<1>0. move \in Nat /\ MaxMoves \in Nat /\ \A c \in Lines : \A m \in lines[c].owed : m \in Nat /\ m <= move
  BY NewsKnown
<1>2. move' \in Nat /\ move' \in Items /\ move < move'
  BY <1>0, <1>1 DEF Items
<1>3. \A c \in Lines : \A m \in lines'[c].owed : m <= move'
  BY <1>0, <1>1, <1>2
<1>4. \A c \in Lines : lines'[c].on =>
          \A m \in lines'[c].owed : Told(lines'[c], m) \/ \E x \in Lines : Serves(x, c, m)'
  BY <1>1, NewsKnown, ServesOn
<1> QED
  BY <1>1, <1>2, <1>3, <1>4, NewsKnown, NewsFollows

(* A connection on its own; a new one and one that is gone are owed nothing. *)
LEMMA LineMoves ==
    ASSUME NewsInv, NEW d \in Lines, NEW l \in LineRecords, lines' = [lines EXCEPT ![d] = l],
           UNCHANGED <<casts, move>>, Len(l.queue) <= LineQueue, l.owed \in {{}, lines[d].owed},
           l.on /\ l.owed # {} =>
               lines[d].on /\ l.owed = lines[d].owed /\ \A m \in Items : Told(lines[d], m) => Told(l, m)
    PROVE  NewsInv'
<1> USE NewsKnown
<1>1. lines'[d] = l /\ (\A c \in Lines : c # d => lines'[c] = lines[c]) /\ casts' = casts /\ move' = move
  OBVIOUS
<1>2. lines' \in [Lines -> LineRecords]
  OBVIOUS
<1>3. \A c \in Lines : Len(lines'[c].queue) <= LineQueue /\ \A m \in lines'[c].owed : m <= move'
  BY <1>1
<1>4. ASSUME NEW c \in Lines, lines'[c].on, NEW m \in lines'[c].owed
      PROVE  Told(lines'[c], m) \/ \E x \in Lines : Serves(x, c, m)'
  <2>1. lines[c].on /\ m \in lines[c].owed /\ (Told(lines[c], m) => Told(lines'[c], m))
    BY <1>1, <1>4
  <2> QED
    BY <1>1, <2>1, ServesOn
<1> QED
  BY <1>1, <1>2, <1>3, <1>4, NewsFollows

LEMMA ConnectKeeps == ASSUME NewsInv, NEW c \in Lines, Connect(c) PROVE NewsInv'
<1> DEFINE l == [Off EXCEPT !.on = TRUE]
<1>1. lines' = [lines EXCEPT ![c] = l] /\ UNCHANGED <<casts, move>>
  BY DEF Connect
<1>2. l \in LineRecords /\ l.owed = {} /\ Len(l.queue) = 0
  BY OffIsLine DEF LineRecords
<1> HIDE DEF l
<1>3. Len(l.queue) <= LineQueue
  BY <1>2, NewsKnown
<1> QED
  BY <1>1, <1>2, <1>3, LineMoves

LEMMA DisconnectKeeps == ASSUME NewsInv, NEW c \in Lines, Disconnect(c) PROVE NewsInv'
<1>1. lines' = [lines EXCEPT ![c] = Off] /\ UNCHANGED <<casts, move>>
  BY DEF Disconnect
<1>2. Len(Off.queue) <= LineQueue
  BY OffIsLine, NewsKnown
<1> QED
  BY <1>1, <1>2, OffIsLine, LineMoves

LEMMA ReceiveKeeps == ASSUME NewsInv, NEW c \in Lines, Receive(c) PROVE NewsInv'
<1> USE NewsKnown
<1> DEFINE old == lines[c]
           item == Head(old.queue)
           l == [old EXCEPT !.queue = Tail(@), !.seen = IF item > @ THEN item ELSE @]
<1>1. old \in LineRecords /\ old.queue \in Seq(Items) /\ old.queue # <<>> /\ old.seen \in Items
  BY DEF Receive, LineRecords
<1>2. item \in Items /\ Tail(old.queue) \in Seq(Items) /\ item = old.queue[1]
  BY <1>1
<1>3. lines' = [lines EXCEPT ![c] = l] /\ UNCHANGED <<casts, move>>
  BY DEF Receive
<1> HIDE DEF item
<1>4. /\ l \in LineRecords /\ l.on = old.on /\ l.owed = old.owed /\ l.queue = Tail(old.queue)
      /\ l.seen = IF item > old.seen THEN item ELSE old.seen
  BY <1>1, <1>2 DEF LineRecords
<1> HIDE DEF l, old
<1>5. /\ Len(l.queue) = Len(old.queue) - 1 /\ Len(old.queue) \in Nat
      /\ \A i \in 1..Len(l.queue) : l.queue[i] = old.queue[i + 1]
  BY <1>1, <1>4
<1>6. ASSUME NEW m \in Items, Told(old, m) PROVE Told(l, m)
  <2>1. PICK v \in Shown(old) : v >= m
    BY <1>6 DEF Told
  <2>2. l.seen >= old.seen /\ l.seen >= item /\ l.seen \in Nat /\ item \in Nat /\ m \in Nat
        /\ old.seen \in Nat
    BY <1>1, <1>2, <1>4 DEF LineRecords
  <2>3. CASE v = old.seen \/ v = item
    <3>1. l.seen >= m
      BY <1>4, <2>1, <2>2, <2>3
    <3> QED
      BY <3>1 DEF Told, Shown
  <2>4. CASE v # item /\ v # old.seen
    <3>1. PICK i \in 1..Len(old.queue) : v = old.queue[i]
      BY <2>1, <2>4 DEF Shown
    <3>2. i - 1 \in 1..Len(l.queue) /\ v = l.queue[i - 1]
      BY <1>2, <1>5, <2>4, <3>1
    <3> QED
      BY <1>4, <2>1, <3>2 DEF Told, Shown
  <2> QED
    BY <2>3, <2>4
<1>7. Len(l.queue) <= LineQueue
  BY <1>5 DEF old
<1> QED
  BY <1>1, <1>3, <1>4, <1>6, <1>7, LineMoves DEF old

LEMMA SyncHandKeeps == ASSUME NewsInv, NEW y \in Lines, SyncHand(y) PROVE NewsInv'
<1> USE NewsKnown
<1> DEFINE cast == [NoCast EXCEPT !.at = "reply", !.item = move]
<1>1. /\ casts' = [casts EXCEPT ![y] = cast] /\ lines' = lines /\ move' = move
      /\ casts[y].at = "idle"
  BY DEF SyncHand
<1>2. cast \in CastRecords /\ cast.at = "reply"
  BY DEF NoCast, CastRecords
<1> HIDE DEF cast
<1>3. casts' \in [Lines -> CastRecords] /\ \A x \in Lines : casts'[x] = IF x = y THEN cast ELSE casts[x]
  BY <1>1, <1>2
<1>4. ASSUME NEW c \in Lines, lines'[c].on, NEW m \in lines'[c].owed
      PROVE  Told(lines'[c], m) \/ \E x \in Lines : Serves(x, c, m)'
  <2>1. ASSUME NEW x \in Lines, Serves(x, c, m) PROVE Serves(x, c, m)'
    <3>1. x # y
      BY <1>1, <2>1 DEF Serves
    <3> QED
      BY <1>1, <1>3, <2>1, <3>1, ServesOn
  <2> QED
    BY <1>1, <1>4, <2>1
<1> QED
  BY <1>1, <1>2, <1>3, <1>4, NewsFollows

LEMMA CommandHandKeeps == ASSUME NewsInv, NEW y \in Lines, CommandHand(y) PROVE NewsInv'
<1>0. move \in Nat /\ MaxMoves \in Nat /\ casts \in [Lines -> CastRecords]
  BY NewsKnown
<1> DEFINE cast == [NoCast EXCEPT !.at = "load", !.news = move + 1]
<1>1. /\ casts' = [casts EXCEPT ![y] = cast] /\ move' = move + 1 /\ move < MaxMoves
      /\ lines' = [d \in Lines |-> IF lines[d].on THEN [lines[d] EXCEPT !.owed = @ \cup {move + 1}]
                                   ELSE lines[d]]
      /\ casts[y].at = "idle"
  BY DEF CommandHand
<1>4. 0 \in Items /\ move' \in Items /\ move' \in Nat /\ move < move'
  BY <1>0, <1>1 DEF Items
<1>2. cast \in CastRecords /\ cast.at = "load" /\ cast.news = move'
  BY <1>1, <1>4 DEF NoCast, CastRecords
<1> HIDE DEF cast
<1>3. casts' \in [Lines -> CastRecords] /\ \A x \in Lines : casts'[x] = IF x = y THEN cast ELSE casts[x]
  BY <1>0, <1>1, <1>2
<1>5. ASSUME NEW c \in Lines
      PROVE  /\ lines'[c] \in LineRecords /\ Len(lines'[c].queue) <= LineQueue
             /\ lines'[c].on = lines[c].on /\ lines'[c].owed \subseteq lines[c].owed \cup {move'}
             /\ Shown(lines'[c]) = Shown(lines[c])
  <2>1. lines'[c] = IF lines[c].on THEN [lines[c] EXCEPT !.owed = @ \cup {move'}] ELSE lines[c]
    BY <1>1
  <2>2. lines[c] \in LineRecords /\ Len(lines[c].queue) <= LineQueue
    BY NewsKnown
  <2>3. [lines[c] EXCEPT !.owed = @ \cup {move'}] \in LineRecords
    BY <1>4, <2>2 DEF LineRecords
  <2>4. /\ lines'[c].queue = lines[c].queue /\ lines'[c].seen = lines[c].seen
        /\ lines'[c].on = lines[c].on /\ lines'[c].owed \subseteq lines[c].owed \cup {move'}
    BY <2>1, <2>2 DEF LineRecords
  <2> QED
    BY <2>1, <2>2, <2>3, <2>4 DEF Shown
<1>6. lines' \in [Lines -> LineRecords]
  BY <1>1, <1>5
<1>7. \A c \in Lines : \A m \in lines'[c].owed : m <= move'
  <2>1. \A c \in Lines : \A m \in lines[c].owed : m \in Nat /\ m <= move
    BY NewsKnown
  <2> QED
    BY <1>0, <1>4, <1>5, <2>1
<1>8. ASSUME NEW c \in Lines, lines'[c].on, NEW m \in lines'[c].owed
      PROVE  Told(lines'[c], m) \/ \E x \in Lines : Serves(x, c, m)'
  <2>1. CASE m = move'
    BY <1>2, <1>3, <2>1 DEF Serves
  <2>2. CASE m # move'
    <3>1. lines[c].on /\ m \in lines[c].owed
      BY <1>5, <1>8, <2>2
    <3>2. Told(lines[c], m) => Told(lines'[c], m)
      BY <1>5 DEF Told
    <3>3. ASSUME NEW x \in Lines, Serves(x, c, m) PROVE Serves(x, c, m)'
      <4>1. x # y
        BY <1>1, <3>3 DEF Serves
      <4> QED
        BY <1>3, <3>3, <4>1, ServesOn
    <3> QED
      BY <3>1, <3>2, <3>3, NewsKnown
  <2> QED
    BY <2>1, <2>2
<1>9. \A x \in Lines : casts'[x].at \in {"view", "snapshot"} => casts'[x].seat \in Lines
  BY <1>2, <1>3, NewsKnown
<1> QED
  BY <1>3, <1>4, <1>5, <1>6, <1>7, <1>8, <1>9, NewsFollows

LEMMA LoadAudienceKeeps == ASSUME NewsInv, NEW y \in Lines, LoadAudience(y) PROVE NewsInv'
<1> USE NewsKnown
<1> DEFINE cast == [casts[y] EXCEPT !.at = "seat", !.todo = Lines]
<1>1. /\ casts' = [casts EXCEPT ![y] = cast] /\ lines' = lines /\ move' = move
  BY DEF LoadAudience
<1>2. cast \in CastRecords /\ cast.at = "seat" /\ cast.news = casts[y].news /\ cast.todo = Lines
  BY AudienceLoaded
<1> HIDE DEF cast
<1>3. casts' \in [Lines -> CastRecords] /\ \A x \in Lines : casts'[x] = IF x = y THEN cast ELSE casts[x]
  BY <1>1, <1>2
<1>4. ASSUME NEW c \in Lines, lines'[c].on, NEW m \in lines'[c].owed
      PROVE  Told(lines'[c], m) \/ \E x \in Lines : Serves(x, c, m)'
  <2>1. ASSUME NEW x \in Lines, Serves(x, c, m) PROVE Serves(x, c, m)'
    <3>1. CASE x = y
      BY <1>2, <1>3, <2>1, <3>1 DEF Serves
    <3>2. CASE x # y
      BY <1>3, <2>1, <3>2, ServesOn
    <3> QED
      BY <3>1, <3>2
  <2> QED
    BY <1>1, <1>4, <2>1
<1> QED
  BY <1>1, <1>2, <1>3, <1>4, NewsFollows

(* The change event of d: its view is read next. *)
LEMMA SendChangedKeeps ==
    ASSUME NewsInv, NEW y \in Lines, NEW d \in Lines, SendChanged(y, d)
    PROVE  NewsInv'
<1> USE NewsKnown
<1> DEFINE cast == [casts[y] EXCEPT !.at = "view", !.todo = @ \ {d}, !.seat = d]
<1>1. /\ casts' = [casts EXCEPT ![y] = cast] /\ lines' = [lines EXCEPT ![d] = Queued(@, 0)] /\ move' = move
      /\ casts[y].at = "seat"
  BY DEF SendChanged
<1>2. cast \in CastRecords /\ cast.at = "view" /\ cast.news = casts[y].news
      /\ cast.todo = casts[y].todo \ {d} /\ cast.seat = d
  BY ChangeSent
<1> HIDE DEF cast
<1>3. casts' \in [Lines -> CastRecords] /\ \A x \in Lines : casts'[x] = IF x = y THEN cast ELSE casts[x]
  BY <1>1, <1>2
<1>4. /\ lines' \in [Lines -> LineRecords] /\ move' \in Items
      /\ \A c \in Lines : Len(lines'[c].queue) <= LineQueue /\ \A m \in lines'[c].owed : m <= move'
      /\ \A c \in Lines : lines'[c].on =>
             /\ lines[c].on /\ lines'[c].owed = lines[c].owed
             /\ \A m \in Items : Told(lines[c], m) => Told(lines'[c], m)
  BY <1>1, LineQueues
<1>5. ASSUME NEW c \in Lines, lines'[c].on, NEW m \in lines'[c].owed
      PROVE  Told(lines'[c], m) \/ \E x \in Lines : Serves(x, c, m)'
  <2>1. ASSUME NEW x \in Lines, Serves(x, c, m) PROVE Serves(x, c, m)'
    <3>1. CASE x = y
      BY <1>1, <1>2, <1>3, <2>1, <3>1 DEF Serves
    <3>2. CASE x # y
      BY <1>3, <1>4, <1>5, <2>1, <3>2, ServesOn
    <3> QED
      BY <3>1, <3>2
  <2> QED
    BY <1>4, <1>5, <2>1
<1> QED
  BY <1>2, <1>3, <1>4, <1>5, NewsFollows

(* The view is as new as the hand, and thus as what anybody is owed. *)
LEMMA ReadViewKeeps == ASSUME NewsInv, NEW y \in Lines, ReadView(y) PROVE NewsInv'
<1> DEFINE cast == [casts[y] EXCEPT !.at = "snapshot", !.item = move]
<1>1. /\ casts' = [casts EXCEPT ![y] = cast] /\ lines' = lines /\ move' = move
      /\ casts[y].at = "view"
  BY DEF ReadView
<1>2. /\ cast \in CastRecords /\ cast.at = "snapshot" /\ cast.news = casts[y].news /\ cast.todo = casts[y].todo
      /\ cast.seat = casts[y].seat /\ cast.item = move
  <2>1. casts[y] \in CastRecords /\ move \in Items
    BY NewsKnown
  <2> QED
    BY <2>1, ViewRead
<1> HIDE DEF cast
<1>3. casts' \in [Lines -> CastRecords] /\ \A x \in Lines : casts'[x] = IF x = y THEN cast ELSE casts[x]
  BY <1>1, <1>2, NewsKnown
<1>4. ASSUME NEW c \in Lines, lines'[c].on, NEW m \in lines'[c].owed
      PROVE  Told(lines'[c], m) \/ \E x \in Lines : Serves(x, c, m)'
  <2>1. ASSUME NEW x \in Lines, Serves(x, c, m) PROVE Serves(x, c, m)'
    <3>1. CASE x = y
      <4>1. m <= move /\ m \in Nat
        BY <1>1, <1>4, NewsKnown
      <4> QED
        BY <1>1, <1>2, <1>3, <2>1, <3>1, <4>1 DEF Serves
    <3>2. CASE x # y
      BY <1>1, <1>3, <2>1, <3>2, ServesOn
    <3> QED
      BY <3>1, <3>2
  <2> QED
    BY <1>1, <1>4, <2>1, NewsKnown
<1> QED
  BY <1>1, <1>2, <1>3, <1>4, NewsKnown, NewsFollows

(* The view reaches its seat, or ends the connection there. *)
LEMMA SendSnapshotKeeps == ASSUME NewsInv, NEW y \in Lines, SendSnapshot(y) PROVE NewsInv'
<1> USE NewsKnown
<1> DEFINE cast == [casts[y] EXCEPT !.at = "seat", !.seat = "none", !.item = 0]
           d    == casts[y].seat
           item == casts[y].item
<1>1. /\ casts' = [casts EXCEPT ![y] = cast] /\ lines' = [lines EXCEPT ![d] = Queued(@, item)]
      /\ move' = move /\ casts[y].at = "snapshot"
  BY DEF SendSnapshot
<1>2. /\ cast \in CastRecords /\ cast.at = "seat" /\ cast.news = casts[y].news /\ cast.todo = casts[y].todo
  BY SeatServed
<1>0. d \in Lines /\ item \in Items
  BY <1>1 DEF CastRecords
<1> HIDE DEF cast
<1>3. casts' \in [Lines -> CastRecords] /\ \A x \in Lines : casts'[x] = IF x = y THEN cast ELSE casts[x]
  BY <1>1, <1>2
<1>4. /\ lines' \in [Lines -> LineRecords] /\ move' \in Items
      /\ \A c \in Lines : Len(lines'[c].queue) <= LineQueue /\ \A m \in lines'[c].owed : m <= move'
      /\ \A c \in Lines : lines'[c].on =>
             /\ lines[c].on /\ lines'[c].owed = lines[c].owed
             /\ \A m \in Items : Told(lines[c], m) => Told(lines'[c], m)
      /\ lines'[d].on => \A m \in Items : item >= m => Told(lines'[d], m)
  BY <1>0, <1>1, LineQueues
<1>5. ASSUME NEW c \in Lines, lines'[c].on, NEW m \in lines'[c].owed
      PROVE  Told(lines'[c], m) \/ \E x \in Lines : Serves(x, c, m)'
  <2>1. ASSUME NEW x \in Lines, Serves(x, c, m) PROVE Told(lines'[c], m) \/ Serves(x, c, m)'
    <3>1. CASE x = y
      BY <1>0, <1>1, <1>2, <1>3, <1>4, <1>5, <2>1, <3>1 DEF Serves
    <3>2. CASE x # y
      BY <1>3, <1>4, <1>5, <2>1, <3>2, ServesOn
    <3> QED
      BY <3>1, <3>2
  <2> QED
    BY <1>4, <1>5, <2>1
<1> QED
  BY <1>2, <1>3, <1>4, <1>5, NewsFollows

(* A broadcast that is over serves nobody any more. *)
LEMMA ReplyKeeps == ASSUME NewsInv, NEW y \in Lines, Reply(y) PROVE NewsInv'
<1> USE NewsKnown
<1> DEFINE item == casts[y].item
<1>1. /\ casts' = [casts EXCEPT ![y] = NoCast] /\ lines' = [lines EXCEPT ![y] = Queued(@, item)]
      /\ move' = move
      /\ casts[y].at = "reply" \/ (casts[y].at = "seat" /\ casts[y].todo = {})
  BY DEF Reply
<1>2. NoCast \in CastRecords /\ NoCast.at = "idle" /\ item \in Items
  BY DEF CastRecords, NoCast
<1>3. casts' \in [Lines -> CastRecords] /\ \A x \in Lines : casts'[x] = IF x = y THEN NoCast ELSE casts[x]
  BY <1>1, <1>2
<1>4. /\ lines' \in [Lines -> LineRecords] /\ move' \in Items
      /\ \A c \in Lines : Len(lines'[c].queue) <= LineQueue /\ \A m \in lines'[c].owed : m <= move'
      /\ \A c \in Lines : lines'[c].on =>
             /\ lines[c].on /\ lines'[c].owed = lines[c].owed
             /\ \A m \in Items : Told(lines[c], m) => Told(lines'[c], m)
  BY <1>1, <1>2, LineQueues
<1>5. ASSUME NEW c \in Lines, lines'[c].on, NEW m \in lines'[c].owed
      PROVE  Told(lines'[c], m) \/ \E x \in Lines : Serves(x, c, m)'
  <2>1. ASSUME NEW x \in Lines, Serves(x, c, m) PROVE Serves(x, c, m)'
    <3>1. x # y
      BY <1>1, <2>1 DEF Serves
    <3> QED
      BY <1>3, <1>4, <1>5, <2>1, <3>1, ServesOn
  <2> QED
    BY <1>4, <1>5, <2>1
<1> QED
  BY <1>2, <1>3, <1>4, <1>5, NewsFollows

(* A line that is not owed a move any more is otherwise as before. *)
LEMMA ForgivenLine ==
    ASSUME NEW l \in LineRecords, NEW news
    PROVE  /\ Forgiven(l, news) \in LineRecords /\ Forgiven(l, news).on = l.on
           /\ Forgiven(l, news).queue = l.queue /\ Forgiven(l, news).owed = l.owed \ {news}
           /\ \A m : Told(Forgiven(l, news), m) <=> Told(l, m)
<1> DEFINE n == Forgiven(l, news)
<1>1. n \in LineRecords /\ n.on = l.on /\ n.queue = l.queue /\ n.seen = l.seen /\ n.owed = l.owed \ {news}
  BY DEF Forgiven, LineRecords
<1>2. Shown(n) = Shown(l)
  BY <1>1 DEF Shown
<1> HIDE DEF n
<1> QED
  BY <1>1, <1>2 DEF Told, n

(* Nobody is owed the move of this broadcast, and the others go on.        *)
LEMMA AudienceFailsKeeps == ASSUME NewsInv, NEW y \in Lines, AudienceFails(y) PROVE NewsInv'
<1> DEFINE cast == [NoCast EXCEPT !.at = "reply"]
           news == casts[y].news
<1>1. /\ casts' = [casts EXCEPT ![y] = cast] /\ move' = move
      /\ lines' = [d \in Lines |-> Forgiven(lines[d], news)]
  BY DEF AudienceFails
<1>2. cast \in CastRecords /\ cast.at = "reply"
  BY CastFails, NewsKnown
<1> HIDE DEF cast, news
<1>3. casts' \in [Lines -> CastRecords] /\ \A x \in Lines : casts'[x] = IF x = y THEN cast ELSE casts[x]
  BY <1>1, <1>2, NewsKnown
<1>4. ASSUME NEW c \in Lines
      PROVE  /\ lines'[c] \in LineRecords /\ lines'[c].on = lines[c].on
             /\ lines'[c].queue = lines[c].queue /\ lines'[c].owed = lines[c].owed \ {news}
             /\ \A m : Told(lines'[c], m) <=> Told(lines[c], m)
  <2>1. lines'[c] = Forgiven(lines[c], news)
    BY <1>1
  <2> QED
    BY <2>1, ForgivenLine, NewsKnown
<1>5. lines' \in [Lines -> LineRecords]
  BY <1>1, <1>4
<1>6. \A c \in Lines : Len(lines'[c].queue) <= LineQueue /\ \A m \in lines'[c].owed : m <= move'
  <2>1. \A c \in Lines : Len(lines[c].queue) <= LineQueue /\ \A m \in lines[c].owed : m <= move
    BY NewsKnown
  <2> QED
    BY <1>1, <1>4, <2>1
<1>7. ASSUME NEW c \in Lines, lines'[c].on, NEW m \in lines'[c].owed
      PROVE  Told(lines'[c], m) \/ \E x \in Lines : Serves(x, c, m)'
  <2>1. lines[c].on /\ m \in lines[c].owed /\ m # news
    BY <1>4, <1>7
  <2>2. ASSUME NEW x \in Lines, Serves(x, c, m) PROVE Serves(x, c, m)'
    <3>1. x # y
      BY <2>1, <2>2 DEF Serves, news
    <3> QED
      BY <1>3, <2>2, <3>1, ServesOn
  <2>3. Told(lines[c], m) \/ \E x \in Lines : Serves(x, c, m)
    BY <2>1, NewsKnown
  <2> QED
    BY <1>4, <2>2, <2>3
<1>8. \A x \in Lines : casts'[x].at \in {"view", "snapshot"} => casts'[x].seat \in Lines
  BY <1>2, <1>3, NewsKnown
<1>9. move' \in Items
  BY <1>1, NewsKnown
<1> QED
  BY <1>3, <1>5, <1>6, <1>7, <1>8, <1>9, NewsFollows

(* One seat is not owed the move of this broadcast, which goes on.         *)
LEMMA ViewFailsKeeps == ASSUME NewsInv, NEW y \in Lines, ViewFails(y) PROVE NewsInv'
<1> DEFINE cast == [casts[y] EXCEPT !.at = "seat", !.seat = "none"]
           news == casts[y].news
           d    == casts[y].seat
<1>1. /\ casts' = [casts EXCEPT ![y] = cast] /\ move' = move
      /\ lines' = [lines EXCEPT ![d] = Forgiven(@, news)] /\ casts[y].at = "view"
  BY DEF ViewFails
<1>2. /\ cast \in CastRecords /\ cast.at = "seat" /\ cast.news = news /\ cast.todo = casts[y].todo
  BY CastFails, NewsKnown
<1>0. d \in Lines /\ lines \in [Lines -> LineRecords] /\ casts[y] \in CastRecords
  BY <1>1, NewsKnown
<1> HIDE DEF cast, news, d
<1>3. casts' \in [Lines -> CastRecords] /\ \A x \in Lines : casts'[x] = IF x = y THEN cast ELSE casts[x]
  BY <1>1, <1>2, NewsKnown
<1>4. ASSUME NEW c \in Lines
      PROVE  /\ lines'[c] \in LineRecords /\ lines'[c].on = lines[c].on
             /\ lines'[c].queue = lines[c].queue
             /\ lines'[c].owed = IF c = d THEN lines[c].owed \ {news} ELSE lines[c].owed
             /\ \A m : Told(lines'[c], m) <=> Told(lines[c], m)
  <2>1. CASE c = d
    <3>1. lines'[c] = Forgiven(lines[c], news)
      BY <1>0, <1>1, <2>1
    <3> QED
      BY <1>0, <2>1, <3>1, ForgivenLine
  <2>2. CASE c # d
    BY <1>0, <1>1, <2>2
  <2> QED
    BY <2>1, <2>2
<1>5. lines' \in [Lines -> LineRecords]
  <2>1. lines' = [c \in Lines |-> lines'[c]]
    BY <1>0, <1>1
  <2> QED
    BY <1>4, <2>1
<1>6. \A c \in Lines : Len(lines'[c].queue) <= LineQueue /\ \A m \in lines'[c].owed : m <= move'
  <2>1. \A c \in Lines : Len(lines[c].queue) <= LineQueue /\ \A m \in lines[c].owed : m <= move
    BY NewsKnown
  <2>2. ASSUME NEW c \in Lines PROVE Len(lines'[c].queue) <= LineQueue /\ \A m \in lines'[c].owed : m <= move'
    <3>1. lines'[c].queue = lines[c].queue /\ lines'[c].owed \subseteq lines[c].owed
      BY <1>4
    <3> QED
      BY <1>1, <2>1, <3>1
  <2> QED
    BY <2>2
<1>7. ASSUME NEW c \in Lines, lines'[c].on, NEW m \in lines'[c].owed
      PROVE  Told(lines'[c], m) \/ \E x \in Lines : Serves(x, c, m)'
  <2>1. lines[c].on /\ m \in lines[c].owed /\ (c = d => m # news)
    BY <1>4, <1>7
  <2>2. ASSUME NEW x \in Lines, Serves(x, c, m) PROVE Serves(x, c, m)'
    <3>1. CASE x = y
      <4>1. c # d /\ c \in casts[y].todo /\ m = news
        BY <1>1, <2>1, <2>2, <3>1 DEF Serves, news, d
      <4> QED
        BY <1>2, <1>3, <3>1, <4>1 DEF Serves
    <3>2. CASE x # y
      BY <1>3, <2>2, <3>2, ServesOn
    <3> QED
      BY <3>1, <3>2
  <2>3. Told(lines[c], m) \/ \E x \in Lines : Serves(x, c, m)
    BY <2>1, NewsKnown
  <2> QED
    BY <1>4, <2>2, <2>3
<1>8. \A x \in Lines : casts'[x].at \in {"view", "snapshot"} => casts'[x].seat \in Lines
  BY <1>2, <1>3, NewsKnown
<1>9. move' \in Items
  BY <1>1, NewsKnown
<1> QED
  BY <1>3, <1>5, <1>6, <1>7, <1>8, <1>9, NewsFollows

(* The invariant is inductive. *)
LEMMA NewsKept == NewsInv /\ [NewsNext]_newsVars => NewsInv'
<1> SUFFICES ASSUME NewsInv, [NewsNext]_newsVars PROVE NewsInv'
  OBVIOUS
<1>1. CASE HttpMove
  BY <1>1, HttpMoveKeeps
<1>2. ASSUME NEW c \in Lines,
             Connect(c) \/ Disconnect(c) \/ Receive(c) \/ SyncHand(c) \/ CommandHand(c)
      PROVE  NewsInv'
  BY <1>2, ConnectKeeps, DisconnectKeeps, ReceiveKeeps, SyncHandKeeps, CommandHandKeeps
<1>3. ASSUME NEW c \in Lines,
             \/ LoadAudience(c) \/ ReadView(c) \/ SendSnapshot(c) \/ Reply(c) \/ AudienceFails(c)
             \/ ViewFails(c) \/ \E d \in Lines : SendChanged(c, d)
      PROVE  NewsInv'
  BY <1>3, LoadAudienceKeeps, ReadViewKeeps, SendSnapshotKeeps, ReplyKeeps, AudienceFailsKeeps,
     ViewFailsKeeps, SendChangedKeeps
<1>4. CASE UNCHANGED newsVars
  <2>1. lines' = lines /\ casts' = casts /\ move' = move
    BY <1>4 DEF newsVars
  <2>2. \A c \in Lines : lines'[c].on =>
            \A m \in lines'[c].owed : Told(lines'[c], m) \/ \E x \in Lines : Serves(x, c, m)'
    BY <2>1, NewsKnown, ServesOn
  <2> QED
    BY <2>1, <2>2, NewsKnown, NewsFollows
<1> QED
  BY <1>1, <1>2, <1>3, <1>4 DEF NewsNext

(* Every state of the connections and the broadcasts satisfies the         *)
(* invariant.                                                              *)
THEOREM NewsInvariant == NewsSpec => []NewsInv
<1>1. NewsInit => NewsInv
  BY NewsStarts
<1>2. NewsInv /\ [NewsNext]_newsVars => NewsInv'
  BY NewsKept
<1> QED
  BY <1>1, <1>2, PTL DEF NewsSpec

(* The connections, their queues and the broadcasts are well formed. *)
LEMMA NewsWellFormed == NewsInv => NewsTypeOK
<1> SUFFICES ASSUME NewsInv PROVE NewsTypeOK
  OBVIOUS
<1>1. ASSUME NEW c \in Lines
      PROVE  Len(lines[c].queue) <= LineQueue /\ casts[c].item \in Items
             /\ casts[c].news \in Items /\ casts[c].todo \subseteq Lines
  BY DEF NewsInv, NewsIsSound, CastRecords
<1> QED
  BY <1>1 DEF NewsInv, NewsTypeOK, LineRecords

(* Every variable of the bridge keeps its type, and every queue its bound. *)
THEOREM NewsTypeCorrect == NewsSpec => []NewsTypeOK
  BY NewsWellFormed, NewsInvariant, PTL

(* When the broadcasts are over, every open connection has every move that *)
(* was broadcast since it opened and did not fail for its seat, however    *)
(* the broadcasts of several players raced and whichever queues were full. *)
THEOREM NewsReaches == NewsSpec => []NewsArrives
<1>1. NewsInv => NewsArrives
  <2> SUFFICES ASSUME NewsInv, \A c \in Lines : casts[c].at \in {"idle", "reply"},
                      NEW c \in Lines, lines[c].on, NEW m \in lines[c].owed
               PROVE  \E v \in Known(c) : v >= m
    BY DEF NewsArrives
  <2>1. \A x \in Lines : ~Serves(x, c, m)
    BY DEF Serves
  <2>2. Told(lines[c], m)
    BY <2>1, NewsKnown
  <2> QED
    BY <2>2 DEF Told, Shown, Known
<1> QED
  BY <1>1, NewsInvariant, PTL

-----------------------------------------------------------------------------
(***************************************************************************)
(* RealtimeHub.                                                            *)
(*                                                                         *)
(* The limits and the indexes are inductive once it is known that nothing  *)
(* is sent to, and nothing terminates, a connection before the hub has     *)
(* registered it.                                                          *)
(***************************************************************************)
SocketRecords == [owner : Users \cup {"none"}, stage : Stages, done : BOOLEAN, leaving : BOOLEAN,
                  reading : BOOLEAN, writing : BOOLEAN, queued : 0..QueueSize]

Registered(s) == s.stage \notin {"new", "refused"}

(* The pumps, the senders and Close only know registered connections, and  *)
(* one that is not registered has not been terminated.                     *)
SocketIsSound(c) ==
    LET s == sockets[c] IN
    /\ s.leaving => s.done
    /\ c \in clients <=> Registered(s) /\ (s.done => s.leaving)
    /\ s.done \/ s.reading \/ s.writing \/ c \in targets \/ c \in closing.stops => Registered(s)

HubInv ==
    /\ subscribers \subseteq clients /\ clients \subseteq Sockets /\ targets \subseteq Sockets
    /\ closing \in [called : BOOLEAN, stops : SUBSET Sockets]
    /\ sockets \in [Sockets -> SocketRecords]
    /\ IsFiniteSet(clients) /\ Cardinality(clients) <= MaxConnections
    /\ \A u \in Users : Cardinality(Owned(u)) <= MaxPerUser
    /\ \A c \in Sockets : SocketIsSound(c)

LEMMA HubKnown ==
    ASSUME HubInv
    PROVE  /\ subscribers \subseteq clients /\ clients \subseteq Sockets /\ targets \subseteq Sockets
           /\ closing.called \in BOOLEAN /\ closing.stops \subseteq Sockets
           /\ closing \in [called : BOOLEAN, stops : SUBSET Sockets]
           /\ sockets \in [Sockets -> SocketRecords] /\ \A c \in Sockets : sockets[c] \in SocketRecords
           /\ IsFiniteSet(clients) /\ Cardinality(clients) <= MaxConnections
           /\ \A u \in Users : Cardinality(Owned(u)) <= MaxPerUser
           /\ \A c \in Sockets : SocketIsSound(c)
  BY DEF HubInv

LEMMA HubLimits == {QueueSize, MaxConnections, MaxPerUser} \subseteq Nat \ {0}
  BY HubAssumption

LEMMA OwnedIsFinite ==
    ASSUME NEW u, HubInv
    PROVE  Owned(u) \subseteq clients /\ IsFiniteSet(Owned(u)) /\ Cardinality(Owned(u)) \in Nat
  BY HubKnown, FS_Subset, FS_CardinalityType DEF Owned

(* One connection changes, and stays whose it is; the index, the senders   *)
(* and Close lose connections at most.                                     *)
LEMMA SocketMoves ==
    ASSUME HubInv, NEW d \in Sockets, NEW s \in SocketRecords,
           sockets' = [sockets EXCEPT ![d] = s], s.owner = sockets[d].owner,
           clients' \in {clients, clients \ {d}}, subscribers' \subseteq clients',
           targets' \subseteq Sockets, closing' \in [called : BOOLEAN, stops : SUBSET Sockets],
           s.leaving => s.done,
           d \in clients' <=> Registered(s) /\ (s.done => s.leaving),
           s.done \/ s.reading \/ s.writing \/ d \in targets' \/ d \in closing'.stops => Registered(s),
           \A c \in Sockets \ {d} : c \in targets' \/ c \in closing'.stops => Registered(sockets[c])
    PROVE  HubInv'
<1> USE HubKnown
<1>1. sockets' \in [Sockets -> SocketRecords] /\ sockets'[d] = s
      /\ \A c \in Sockets : c # d => sockets'[c] = sockets[c]
  OBVIOUS
<1>2. clients' \subseteq clients /\ (\A c \in Sockets : c # d => (c \in clients' <=> c \in clients))
  OBVIOUS
<1>3. IsFiniteSet(clients') /\ Cardinality(clients') <= MaxConnections
  <2>1. IsFiniteSet(clients') /\ Cardinality(clients') <= Cardinality(clients)
    BY <1>2, FS_Subset
  <2>2. Cardinality(clients) \in Nat /\ Cardinality(clients') \in Nat /\ MaxConnections \in Nat
    BY <2>1, FS_CardinalityType, HubLimits
  <2> QED
    BY <2>1, <2>2
<1>4. ASSUME NEW u \in Users PROVE Cardinality(Owned(u)') <= MaxPerUser
  <2>1. Owned(u)' \subseteq Owned(u)
    BY <1>1, <1>2 DEF Owned
  <2>2. IsFiniteSet(Owned(u)') /\ Cardinality(Owned(u)') <= Cardinality(Owned(u))
    BY <2>1, OwnedIsFinite, FS_Subset
  <2>3. Cardinality(Owned(u)) \in Nat /\ Cardinality(Owned(u)') \in Nat /\ MaxPerUser \in Nat
    BY <2>2, OwnedIsFinite, FS_CardinalityType, HubLimits
  <2> QED
    BY <2>2, <2>3
<1>5. ASSUME NEW c \in Sockets PROVE SocketIsSound(c)'
  <2>1. CASE c = d
    BY <1>1, <2>1 DEF SocketIsSound
  <2>2. CASE c # d
    BY <1>1, <1>2, <2>2 DEF SocketIsSound
  <2> QED
    BY <2>1, <2>2
<1>6. subscribers' \subseteq clients' /\ clients' \subseteq Sockets
  BY <1>2
<1> QED
  BY <1>1, <1>3, <1>4, <1>5, <1>6 DEF HubInv, Owned, SocketRecords, Stages

(* The same for a connection the hub goes on knowing as it did. *)
LEMMA SocketStays ==
    ASSUME HubInv, NEW d \in Sockets, NEW s \in SocketRecords,
           sockets' = [sockets EXCEPT ![d] = s], s.owner = sockets[d].owner,
           Registered(s) <=> Registered(sockets[d]),
           \/ s.done = sockets[d].done /\ s.leaving = sockets[d].leaving
           \/ s.done /\ s.leaving /\ ~sockets[d].done /\ Registered(sockets[d]),
           s.reading \/ s.writing => Registered(s),
           clients' = clients, subscribers' \subseteq clients,
           targets' \subseteq targets, closing'.stops \subseteq closing.stops,
           closing' \in [called : BOOLEAN, stops : SUBSET Sockets]
    PROVE  HubInv'
<1> USE HubKnown
<1>1. SocketIsSound(d) /\ \A c \in Sockets : SocketIsSound(c)
  OBVIOUS
<1>2. /\ s.leaving => s.done
      /\ d \in clients' <=> Registered(s) /\ (s.done => s.leaving)
      /\ s.done \/ s.reading \/ s.writing \/ d \in targets' \/ d \in closing'.stops => Registered(s)
  BY <1>1 DEF SocketIsSound, SocketRecords
<1>3. \A c \in Sockets \ {d} : c \in targets' \/ c \in closing'.stops => Registered(sockets[c])
  BY <1>1 DEF SocketIsSound
<1> QED
  BY <1>2, <1>3, SocketMoves

(* What terminate and enqueue make of a connection. *)
LEMMA TerminatedEnds ==
    ASSUME NEW s \in SocketRecords
    PROVE  LET n == Terminated(s)
           IN  /\ n \in SocketRecords /\ n.done /\ n.owner = s.owner /\ n.stage = s.stage
               /\ n.reading = s.reading /\ n.writing = s.writing /\ n.queued = s.queued
               /\ s.done => n.leaving = s.leaving
               /\ ~s.done => n.leaving
  BY DEF Terminated, SocketRecords

LEMMA EnqueuedKeeps ==
    ASSUME NEW s \in SocketRecords, NEW n \in Enqueued(s)
    PROVE  /\ n \in SocketRecords /\ n.owner = s.owner /\ n.stage = s.stage
           /\ n.reading = s.reading /\ n.writing = s.writing
           /\ \/ n.done = s.done /\ n.leaving = s.leaving
              \/ n.done /\ n.leaving /\ ~s.done
<1>1. CASE n = s
  BY <1>1
<1>2. CASE n = Terminated(s)
  BY <1>2, TerminatedEnds DEF SocketRecords
<1>3. CASE s.queued < QueueSize /\ n = [s EXCEPT !.queued = @ + 1]
  <2>1. s.queued + 1 \in 0..QueueSize
    BY <1>3, HubLimits DEF SocketRecords
  <2> QED
    BY <1>3, <2>1 DEF SocketRecords
<1> QED
  BY <1>1, <1>2, <1>3 DEF Enqueued

-----------------------------------------------------------------------------
LEMMA HubStarts == HubInit => HubInv
<1> SUFFICES ASSUME HubInit PROVE HubInv
  OBVIOUS
<1>1. Unconnected \in SocketRecords /\ \A c \in Sockets : sockets[c] = Unconnected
  BY HubLimits DEF HubInit, Unconnected, SocketRecords, Stages
<1>2. IsFiniteSet(clients) /\ Cardinality(clients) <= MaxConnections
  BY FS_EmptySet, HubLimits DEF HubInit
<1>3. \A u \in Users : Cardinality(Owned(u)) <= MaxPerUser
  <2>1. \A u \in Users : Owned(u) = {}
    BY DEF HubInit, Owned
  <2> QED
    BY <2>1, FS_EmptySet, HubLimits
<1>4. \A c \in Sockets : SocketIsSound(c)
  BY <1>1 DEF HubInit, SocketIsSound, Registered, Unconnected
<1>5. sockets \in [Sockets -> SocketRecords]
  BY <1>1 DEF HubInit
<1> QED
  BY <1>1, <1>2, <1>3, <1>4, <1>5 DEF HubInit, HubInv

(* The hub admits a connection within its limits. *)
LEMMA RegisterKeeps ==
    ASSUME HubInv, NEW d \in Sockets, NEW v \in Users, Register(d, v)
    PROVE  HubInv'
<1> USE HubKnown
<1>1. /\ sockets[d].stage = "new" /\ SocketIsSound(d) /\ sockets[d] \in SocketRecords
      /\ UNCHANGED <<subscribers, targets, closing>>
  BY DEF Register
<1>2. ~Registered(sockets[d]) /\ d \notin clients
  BY <1>1 DEF Registered, SocketIsSound
<1>3. ~sockets[d].done /\ ~sockets[d].reading /\ ~sockets[d].writing /\ d \notin targets
      /\ d \notin closing.stops /\ ~sockets[d].leaving
  BY <1>1, <1>2 DEF SocketIsSound
<1>4. CASE ~Admits(v)
  <2> DEFINE s == [sockets[d] EXCEPT !.stage = "refused"]
  <2>1. sockets' = [sockets EXCEPT ![d] = s] /\ clients' = clients
    BY <1>4 DEF Register
  <2>2. /\ s \in SocketRecords /\ s.owner = sockets[d].owner /\ s.stage = "refused"
        /\ s.done = sockets[d].done /\ s.leaving = sockets[d].leaving
        /\ s.reading = sockets[d].reading /\ s.writing = sockets[d].writing
    BY <1>1 DEF SocketRecords, Stages
  <2> HIDE DEF s
  <2>3. ~Registered(s)
    BY <2>2 DEF Registered
  <2> QED
    BY <1>1, <1>2, <1>3, <2>1, <2>2, <2>3, SocketStays
<1>5. CASE Admits(v)
  <2> DEFINE s == [sockets[d] EXCEPT !.stage = "listed", !.owner = v]
  <2>1. sockets' = [sockets EXCEPT ![d] = s] /\ clients' = clients \cup {d}
    <3>1. sockets' = [sockets EXCEPT ![d].stage = "listed", ![d].owner = v] /\ clients' = clients \cup {d}
      BY <1>5 DEF Register
    <3> QED
      BY <3>1
  <2>2. /\ s \in SocketRecords /\ s.owner = v /\ s.stage = "listed"
        /\ s.done = sockets[d].done /\ s.leaving = sockets[d].leaving
        /\ s.reading = sockets[d].reading /\ s.writing = sockets[d].writing
    BY <1>1 DEF SocketRecords, Stages
  <2> HIDE DEF s
  <2>3. Registered(s)
    BY <2>2 DEF Registered
  <2>4. sockets' \in [Sockets -> SocketRecords] /\ sockets'[d] = s
        /\ \A c \in Sockets : c # d => sockets'[c] = sockets[c]
    BY <2>1, <2>2
  <2>5. IsFiniteSet(clients') /\ Cardinality(clients') <= MaxConnections
    <3>1. IsFiniteSet(clients') /\ Cardinality(clients') = Cardinality(clients) + 1
      BY <1>2, <2>1, FS_AddElement
    <3>2. Cardinality(clients) < MaxConnections /\ Cardinality(clients) \in Nat /\ MaxConnections \in Nat
      BY <1>5, FS_CardinalityType, HubLimits DEF Admits
    <3> QED
      BY <3>1, <3>2
  <2>6. ASSUME NEW u \in Users PROVE Cardinality(Owned(u)') <= MaxPerUser
    <3>1. CASE u = v
      <4>1. Owned(u)' = Owned(u) \cup {d} /\ d \notin Owned(u)
        BY <1>2, <2>1, <2>2, <2>4, <3>1 DEF Owned
      <4>2. Cardinality(Owned(u)') = Cardinality(Owned(u)) + 1 /\ Cardinality(Owned(u)) \in Nat
        BY <4>1, OwnedIsFinite, FS_AddElement
      <4>3. Cardinality(Owned(u)) < MaxPerUser /\ MaxPerUser \in Nat
        BY <1>5, <3>1, HubLimits DEF Admits
      <4> QED
        BY <4>2, <4>3
    <3>2. CASE u # v
      <4>1. Owned(u)' = Owned(u)
        BY <1>2, <2>1, <2>2, <2>4, <3>2 DEF Owned
      <4> QED
        BY <4>1
    <3> QED
      BY <3>1, <3>2
  <2>7. ASSUME NEW c \in Sockets PROVE SocketIsSound(c)'
    <3>1. CASE c = d
      BY <1>3, <2>1, <2>2, <2>3, <2>4, <3>1 DEF SocketIsSound
    <3>2. CASE c # d
      BY <1>1, <2>1, <2>4, <3>2 DEF SocketIsSound
    <3> QED
      BY <3>1, <3>2
  <2>8. /\ subscribers' \subseteq clients' /\ clients' \subseteq Sockets /\ targets' \subseteq Sockets
        /\ closing' \in [called : BOOLEAN, stops : SUBSET Sockets]
    BY <1>1, <2>1
  <2> QED
    BY <2>4, <2>5, <2>6, <2>7, <2>8 DEF HubInv, Owned, SocketRecords, Stages
<1> QED
  BY <1>4, <1>5

-----------------------------------------------------------------------------
(* The pumps start, and greet. *)
LEMMA StartPumpsKeeps == ASSUME HubInv, NEW d \in Sockets, StartPumps(d) PROVE HubInv'
<1> USE HubKnown
<1> DEFINE s == [sockets[d] EXCEPT !.stage = "started", !.reading = TRUE, !.writing = TRUE]
<1>1. sockets' = [sockets EXCEPT ![d] = s] /\ UNCHANGED <<clients, subscribers, targets, closing>>
      /\ sockets[d].stage = "listed"
  BY DEF StartPumps
<1>2. /\ s \in SocketRecords /\ s.owner = sockets[d].owner /\ s.stage = "started"
      /\ s.done = sockets[d].done /\ s.leaving = sockets[d].leaving
  BY DEF SocketRecords, Stages
<1> HIDE DEF s
<1>3. Registered(s) /\ Registered(sockets[d])
  BY <1>1, <1>2 DEF Registered
<1> QED
  BY <1>1, <1>2, <1>3, SocketStays

LEMMA HelloKeeps == ASSUME HubInv, NEW d \in Sockets, Hello(d) PROVE HubInv'
<1> USE HubKnown
<1> DEFINE g == [sockets[d] EXCEPT !.stage = "greeted"]
<1>1. PICK s \in Enqueued(g) : sockets' = [sockets EXCEPT ![d] = s]
  BY DEF Hello
<1>2. UNCHANGED <<clients, subscribers, targets, closing>> /\ sockets[d].stage = "started"
  BY DEF Hello
<1>3. /\ g \in SocketRecords /\ g.owner = sockets[d].owner /\ g.stage = "greeted"
      /\ g.done = sockets[d].done /\ g.leaving = sockets[d].leaving
  BY DEF SocketRecords, Stages
<1> HIDE DEF g
<1>4. /\ s \in SocketRecords /\ s.owner = g.owner /\ s.stage = g.stage
      /\ \/ s.done = g.done /\ s.leaving = g.leaving
         \/ s.done /\ s.leaving /\ ~g.done
  BY <1>3, EnqueuedKeeps
<1>5. Registered(s) /\ Registered(sockets[d])
  BY <1>2, <1>3, <1>4 DEF Registered
<1> QED
  BY <1>1, <1>2, <1>3, <1>4, <1>5, SocketStays

(* A connection that is told something, while senders and Close go on. *)
LEMMA EnqueueKeeps ==
    ASSUME HubInv, NEW d \in Sockets, Enqueue(d), Registered(sockets[d]), clients' = clients,
           subscribers' \subseteq clients, targets' \subseteq targets, closing' = closing
    PROVE  HubInv'
<1> USE HubKnown
<1>1. PICK s \in Enqueued(sockets[d]) : sockets' = [sockets EXCEPT ![d] = s]
  BY DEF Enqueue
<1>2. /\ s \in SocketRecords /\ s.owner = sockets[d].owner /\ s.stage = sockets[d].stage
      /\ \/ s.done = sockets[d].done /\ s.leaving = sockets[d].leaving
         \/ s.done /\ s.leaving /\ ~sockets[d].done
  BY <1>1, EnqueuedKeeps
<1>3. Registered(s)
  BY <1>2 DEF Registered
<1> QED
  BY <1>1, <1>2, <1>3, SocketStays

LEMMA MessagesKeep ==
    ASSUME HubInv, NEW d \in Sockets, AnswerMessage(d) \/ ChangeTopic(d) \/ Deliver(d)
    PROVE  HubInv'
<1> USE HubKnown
<1>1. Registered(sockets[d])
  BY DEF AnswerMessage, ChangeTopic, Deliver, SocketIsSound
<1>2. Enqueue(d) /\ clients' = clients /\ targets' \subseteq targets /\ closing' = closing
  BY DEF AnswerMessage, ChangeTopic, Deliver
<1>3. subscribers' \subseteq clients
  BY DEF AnswerMessage, ChangeTopic, Deliver, Subscribed
<1> QED
  BY <1>1, <1>2, <1>3, EnqueueKeeps

(* The write pump sends or stops, the read pump stops. *)
LEMMA PumpsKeep ==
    ASSUME HubInv, NEW d \in Sockets, WritePump(d) \/ WriteFails(d) \/ StopWriting(d) \/ StopReading(d)
    PROVE  HubInv'
<1> USE HubKnown
<1> DEFINE t == Terminated(sockets[d])
<1>1. /\ t \in SocketRecords /\ t.done /\ t.owner = sockets[d].owner /\ t.stage = sockets[d].stage
      /\ t.reading = sockets[d].reading /\ t.writing = sockets[d].writing
      /\ sockets[d].done => t.leaving = sockets[d].leaving
      /\ ~sockets[d].done => t.leaving
  BY TerminatedEnds
<1>2. Registered(sockets[d]) /\ UNCHANGED <<clients, subscribers, targets, closing>>
  BY DEF WritePump, WriteFails, StopWriting, StopReading, SocketIsSound
<1> DEFINE written == [sockets[d] EXCEPT !.queued = @ - 1]
           failed  == [t EXCEPT !.writing = FALSE]
           quiet   == [sockets[d] EXCEPT !.writing = FALSE]
           deaf    == [t EXCEPT !.reading = FALSE]
<1>10. WritePump(d) => sockets' = [sockets EXCEPT ![d] = written] /\ sockets[d].queued > 0
  BY DEF WritePump
<1>11. WriteFails(d) => sockets' = [sockets EXCEPT ![d] = failed]
  BY DEF WriteFails
<1>12. StopWriting(d) => sockets' = [sockets EXCEPT ![d] = quiet]
  BY DEF StopWriting
<1>13. StopReading(d) => sockets' = [sockets EXCEPT ![d] = deaf]
  BY DEF StopReading
<1>3. PICK s : /\ sockets' = [sockets EXCEPT ![d] = s]
               /\ \/ s = written /\ sockets[d].queued > 0
                  \/ s \in {failed, quiet, deaf}
  <2> HIDE DEF written, failed, quiet, deaf
  <2> QED
    BY <1>10, <1>11, <1>12, <1>13
<1> HIDE DEF t
<1>4. /\ s \in SocketRecords /\ s.owner = sockets[d].owner /\ s.stage = sockets[d].stage
      /\ \/ s.done = sockets[d].done /\ s.leaving = sockets[d].leaving
         \/ s.done /\ s.leaving /\ ~sockets[d].done
  <2>1. CASE s = written /\ sockets[d].queued > 0
    <3>1. sockets[d].queued - 1 \in 0..QueueSize
      BY <2>1, HubLimits DEF SocketRecords
    <3>2. /\ written \in SocketRecords /\ written.owner = sockets[d].owner
          /\ written.stage = sockets[d].stage /\ written.done = sockets[d].done
          /\ written.leaving = sockets[d].leaving
      BY <3>1 DEF SocketRecords
    <3> QED
      BY <2>1, <3>2
  <2>2. CASE s = failed \/ s = deaf
    <3> HIDE HubKnown
    <3>0. /\ failed \in SocketRecords /\ failed.owner = t.owner /\ failed.stage = t.stage
          /\ failed.done = t.done /\ failed.leaving = t.leaving
      BY <1>1 DEF SocketRecords
    <3>2. /\ deaf \in SocketRecords /\ deaf.owner = t.owner /\ deaf.stage = t.stage
          /\ deaf.done = t.done /\ deaf.leaving = t.leaving
      BY <1>1 DEF SocketRecords
    <3>1. /\ s \in SocketRecords /\ s.owner = t.owner /\ s.stage = t.stage
          /\ s.done = t.done /\ s.leaving = t.leaving
      BY <2>2, <3>0, <3>2
    <3> QED
      BY <1>1, <3>1 DEF SocketRecords
  <2>3. CASE s = quiet
    BY <2>3 DEF SocketRecords
  <2> QED
    BY <1>3, <2>1, <2>2, <2>3
<1>5. Registered(s)
  BY <1>2, <1>4 DEF Registered
<1> QED
  BY <1>2, <1>3, <1>4, <1>5, SocketStays

(* A terminated connection leaves the indexes, once. *)
LEMMA UnregisterKeeps == ASSUME HubInv, NEW d \in Sockets, Unregister(d) PROVE HubInv'
<1> USE HubKnown
<1> DEFINE s == [sockets[d] EXCEPT !.leaving = FALSE]
<1>1. /\ sockets' = [sockets EXCEPT ![d] = s] /\ clients' = clients \ {d}
      /\ subscribers' = subscribers \ {d} /\ UNCHANGED <<targets, closing>> /\ sockets[d].leaving
  BY DEF Unregister
<1>2. sockets[d].done /\ SocketIsSound(d) /\ Registered(sockets[d])
  BY <1>1 DEF SocketIsSound
<1>3. /\ s \in SocketRecords /\ s.owner = sockets[d].owner /\ s.stage = sockets[d].stage
      /\ s.done = sockets[d].done /\ ~s.leaving
  BY DEF SocketRecords
<1> HIDE DEF s
<1>4. Registered(s)
  BY <1>2, <1>3 DEF Registered
<1>5. \A c \in Sockets \ {d} : c \in targets' \/ c \in closing'.stops => Registered(sockets[c])
  BY <1>1 DEF SocketIsSound
<1>6. d \notin clients' /\ s.done
  BY <1>1, <1>2, <1>3
<1> QED
  BY <1>1, <1>3, <1>4, <1>5, <1>6, SocketMoves DEF HubInv

(* Close terminates the connections it found. *)
LEMMA CloseStopsKeeps == ASSUME HubInv, NEW d \in Sockets, CloseStops(d) PROVE HubInv'
<1> USE HubKnown
<1> DEFINE s == Terminated(sockets[d])
<1>1. /\ sockets' = [sockets EXCEPT ![d] = s] /\ d \in closing.stops
      /\ closing' = [closing EXCEPT !.stops = @ \ {d}] /\ UNCHANGED <<clients, subscribers, targets>>
  BY DEF CloseStops
<1>2. /\ s \in SocketRecords /\ s.owner = sockets[d].owner /\ s.stage = sockets[d].stage
      /\ s.done /\ (sockets[d].done => s.leaving = sockets[d].leaving)
      /\ ~sockets[d].done => s.leaving
  BY TerminatedEnds
<1> HIDE DEF s
<1>3. Registered(sockets[d]) /\ Registered(s)
  BY <1>1, <1>2 DEF SocketIsSound, Registered
<1>4. closing' \in [called : BOOLEAN, stops : SUBSET Sockets] /\ closing'.stops \subseteq closing.stops
  BY <1>1
<1>5. sockets[d].done \in BOOLEAN
  BY DEF SocketRecords
<1> QED
  BY <1>1, <1>2, <1>3, <1>4, <1>5, SocketStays

(* Publish and Close note the connections they found. *)
LEMMA NotesKeep ==
    ASSUME HubInv, sockets' = sockets, clients' = clients, subscribers' = subscribers,
           targets' \subseteq Sockets, closing' \in [called : BOOLEAN, stops : SUBSET Sockets],
           \A c \in Sockets : c \in targets' \/ c \in closing'.stops => Registered(sockets[c])
    PROVE  HubInv'
<1> USE HubKnown
<1>1. \A u \in Users : Owned(u)' = Owned(u)
  BY DEF Owned
<1>2. \A c \in Sockets : SocketIsSound(c)'
  BY DEF SocketIsSound
<1> QED
  BY <1>1, <1>2 DEF HubInv, Owned, SocketRecords, Stages

LEMMA ClientsAreRegistered ==
    ASSUME HubInv
    PROVE  \A c \in Sockets : c \in clients \/ c \in targets \/ c \in closing.stops
                                  => Registered(sockets[c])
  BY HubKnown DEF SocketIsSound

LEMMA PublishKeeps == ASSUME HubInv, Publish PROVE HubInv'
<1> USE HubKnown
<1>1. targets' \subseteq clients
  BY DEF Publish, Owned
<1>2. UNCHANGED <<clients, subscribers, sockets, closing>>
  BY DEF Publish
<1>3. closing' \in [called : BOOLEAN, stops : SUBSET Sockets]
  BY <1>2 DEF HubInv
<1> QED
  BY <1>1, <1>2, <1>3, ClientsAreRegistered, NotesKeep

LEMMA CloseKeeps == ASSUME HubInv, Close PROVE HubInv'
<1> USE HubKnown
<1>1. closing' = [called |-> TRUE, stops |-> clients] /\ UNCHANGED <<clients, subscribers, sockets, targets>>
  BY DEF Close
<1>2. closing' \in [called : BOOLEAN, stops : SUBSET Sockets]
  BY <1>1
<1> QED
  BY <1>1, <1>2, ClientsAreRegistered, NotesKeep

(* The invariant is inductive. *)
LEMMA HubKept == HubInv /\ [HubNext]_hubVars => HubInv'
<1> SUFFICES ASSUME HubInv, [HubNext]_hubVars PROVE HubInv'
  OBVIOUS
<1>1. CASE Publish \/ Close
  BY <1>1, PublishKeeps, CloseKeeps
<1>2. ASSUME NEW c \in Sockets,
             (\E u \in Users : Register(c, u)) \/ StartPumps(c) \/ Hello(c) \/ Unregister(c)
      PROVE  HubInv'
  BY <1>2, RegisterKeeps, StartPumpsKeeps, HelloKeeps, UnregisterKeeps
<1>3. ASSUME NEW c \in Sockets,
             \/ WritePump(c) \/ WriteFails(c) \/ StopWriting(c) \/ StopReading(c)
             \/ AnswerMessage(c) \/ ChangeTopic(c) \/ Deliver(c) \/ CloseStops(c)
      PROVE  HubInv'
  BY <1>3, PumpsKeep, MessagesKeep, CloseStopsKeeps
<1>4. CASE UNCHANGED hubVars
  <2>1. /\ sockets' = sockets /\ clients' = clients /\ subscribers' = subscribers
        /\ targets' = targets /\ closing' = closing
    BY <1>4 DEF hubVars
  <2>2. closing' \in [called : BOOLEAN, stops : SUBSET Sockets]
    BY <2>1 DEF HubInv
  <2> QED
    BY <2>1, <2>2, HubKnown, ClientsAreRegistered, NotesKeep
<1> QED
  BY <1>1, <1>2, <1>3, <1>4 DEF HubNext

(* Every state of the hub and its connections satisfies the invariant.     *)
THEOREM HubInvariant == HubSpec => []HubInv
<1>1. HubInit => HubInv
  BY HubStarts
<1>2. HubInv /\ [HubNext]_hubVars => HubInv'
  BY HubKept
<1> QED
  BY <1>1, <1>2, PTL DEF HubSpec

(* The limits, and the indexes by owner and topic, follow the connections. *)
LEMMA HubWellFormed == HubInv => HubTypeOK
<1> SUFFICES ASSUME HubInv PROVE HubTypeOK
  OBVIOUS
<1>1. ASSUME NEW c \in Sockets
      PROVE  /\ sockets[c].stage \in Stages /\ sockets[c].queued \in 0..QueueSize
             /\ sockets[c].leaving => sockets[c].done
             /\ (c \in clients) = (sockets[c].stage \notin {"new", "refused"}
                             /\ (sockets[c].done => sockets[c].leaving))
  BY HubKnown DEF SocketRecords, SocketIsSound, Registered
<1> QED
  BY <1>1, HubKnown DEF HubTypeOK

(* The hub keeps its limits, for all connections and for each account, no  *)
(* queue outgrows its bound, and what unregister took out stays out of the *)
(* topics, although read pumps subscribe while others terminate them.      *)
THEOREM HubTypeCorrect == HubSpec => []HubTypeOK
  BY HubWellFormed, HubInvariant, PTL
=============================================================================
