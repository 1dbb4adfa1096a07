----------------------------- MODULE PolicyCluster -----------------------------
(***************************************************************************)
(* The authorization policy of several instances, and the guard of the     *)
(* last super administrator.                                               *)
(*                                                                         *)
(* The policy is stored in MySQL with a version.  Every instance enforces  *)
(* a copy, which it reloads after its own writes and whenever a poll, or a *)
(* notification, finds a newer version.  Notifications are only hints: one *)
(* that is lost, or comes early, is a poll here.  Writes of the policy and *)
(* of the status of accounts run under one advisory lock of MySQL; what    *)
(* they read of the policy is partly the instance's copy, which may be     *)
(* out of date.                                                            *)
(*                                                                         *)
(* Of the rules, the members of the super administrator's role are kept;   *)
(* its wildcard permission is written with the first member and stays.     *)
(***************************************************************************)
EXTENDS Naturals, FiniteSets

CONSTANTS
    Instances,    \* the instances of the server
    People,       \* the accounts that may exist
    MaxVersion,   \* bound on the writes of the policy
    MaxMishaps    \* bound on crashes, failed reloads and lock timeouts together

ASSUME InstancesAssumption == "none" \notin Instances /\ People # {}
ASSUME PolicyBoundsAssumption == MaxVersion \in Nat /\ MaxMishaps \in Nat

VARIABLES
    policy,    \* the rules and their version in MySQL
    accounts,  \* the status of the identity_accounts rows
    engines,   \* the enforcer of each instance
    ops,       \* the administrative operation of each instance
    lock,      \* the holder of the advisory lock
    mishaps    \* how many calls have failed

policyVars == <<policy, accounts, engines, ops, lock, mishaps>>

-----------------------------------------------------------------------------
(* Values *)

Changes == {"bootstrap", "create", "grant", "withdraw", "disable"}
Asleep  == [pc |-> "none", kind |-> "grant", who |-> CHOOSE p \in People : TRUE, misled |-> FALSE]
Down    == [state |-> "down", claimed |-> 0, loaded |-> 0, members |-> {}, polled |-> 0]

Active(p) == accounts[p] = "active"
Up(i)     == engines[i].state \in {"up", "claim"}
Stale(i)  == engines[i].loaded # policy.version

Mishap       == mishaps < MaxMishaps /\ mishaps' = mishaps + 1
Goes(i, pc)  == ops' = [ops EXCEPT ![i].pc = pc]
Ends(i)      == ops' = [ops EXCEPT ![i] = Asleep]
Release(i)   == lock' = IF lock = i THEN "none" ELSE lock
Status(p, s) == accounts' = [accounts EXCEPT ![p] = s]

-----------------------------------------------------------------------------
(* The enforcers *)

(* NewClustered loads the policy ...  *)
BootLoadPolicy(i) ==
    /\ engines[i].state = "down"
    /\ engines' = [engines EXCEPT ![i] = [state |-> "loaded", claimed |-> 0, loaded |-> policy.version,
                                          members |-> policy.members, polled |-> 0]]
    /\ UNCHANGED <<policy, accounts, ops, lock, mishaps>>

(* ... and Start claims the version the database has by then. *)
BootClaim(i) ==
    /\ engines[i].state = "loaded"
    /\ engines' = [engines EXCEPT ![i].state = "up", ![i].claimed = policy.version,
                                  ![i].polled = policy.version]
    /\ UNCHANGED <<policy, accounts, ops, lock, mishaps>>

(* Variant: a change that is one ahead is left to its notification. *)
NewerByTwo(i) == policy.version > engines[i].polled + 1

Newer(i) == policy.version > engines[i].polled

(* currentPolicyVersion of a poll, or of a notification. *)
SyncRead(i) ==
    /\ engines[i].state = "up"
    /\ Newer(i)
    /\ engines' = [engines EXCEPT ![i].polled = policy.version]
    /\ UNCHANGED <<policy, accounts, ops, lock, mishaps>>

(* Variant: the version is read after the rules were loaded. *)
ClaimedLate(i) == policy.version

(* An engine claims the version it read before it loaded the rules. *)
Claimed(i) == engines[i].polled

Loaded(engine) == [engine EXCEPT !.loaded = policy.version, !.members = policy.members]

(* reconcilePolicyVersion, which shares a mutex with the engine's writes.  *)
SyncLoad(i) ==
    /\ engines[i].state = "up"
    /\ engines[i].polled > engines[i].claimed
    /\ ops[i].pc # "reload"
    /\ engines' = [engines EXCEPT ![i] = [Loaded(@) EXCEPT !.state = "claim"]]
    /\ UNCHANGED <<policy, accounts, ops, lock, mishaps>>

SyncClaim(i) ==
    /\ engines[i].state = "claim"
    /\ engines' = [engines EXCEPT ![i].state = "up", ![i].claimed = Claimed(i)]
    /\ UNCHANGED <<policy, accounts, ops, lock, mishaps>>

(* Ping, the readiness check: the database has no version that is newer    *)
(* than the claimed one.                                                   *)
Ready(i) == policy.version <= engines[i].claimed

-----------------------------------------------------------------------------
(* Administration *)

(* protected: the instance's own copy decides who may call.  A bootstrap   *)
(* needs a token instead.                                                  *)
Permitted(i, kind) ==
    kind = "bootstrap" \/ \E p \in engines[i].members : Active(p)

(* An account that is created exists before its roles are written. *)
Ask(i, kind, who) ==
    /\ Up(i)
    /\ ops[i] = Asleep
    /\ Permitted(i, kind)
    /\ (kind \in {"bootstrap", "create"}) = (accounts[who] = "absent")
    /\ ops' = [ops EXCEPT ![i] = [pc |-> "lock", kind |-> kind, who |-> who, misled |-> FALSE]]
    /\ IF kind = "create" THEN Status(who, "active") ELSE UNCHANGED accounts
    /\ UNCHANGED <<policy, engines, lock, mishaps>>

(* EnableAccount takes no lock. *)
Enable(p) ==
    /\ accounts[p] = "disabled"
    /\ Status(p, "active")
    /\ UNCHANGED <<policy, engines, ops, lock, mishaps>>

(* Variant: an operation does not wait for another one. *)
LockFreeAlways(i) == TRUE

LockFree(i) == lock = "none"

(* activeSuperAdminCount: the active members of the instance's copy. *)
ActiveMembers(i) == {p \in engines[i].members : Active(p)}

(* ErrBootstrapComplete, ensureCanDisableSuperAdmin, and the guard of      *)
(* ReplaceAccountRoles.                                                    *)
Guarded(i, kind, who) ==
    CASE kind = "bootstrap" -> engines[i].members = {} /\ accounts[who] = "absent"
      [] kind \in {"disable", "withdraw"} ->
            who \in ActiveMembers(i) => Cardinality(ActiveMembers(i)) > 1
      [] OTHER -> TRUE

(* The active members of the stored policy besides this one. *)
Others(who) == {q \in policy.members : q # who /\ Active(q)}

(* Nobody else is active: the account is the last super administrator, or  *)
(* would be if it were enabled.                                            *)
Indispensable(who) == who \in policy.members /\ Others(who) = {}

(* History: the guard lets a disable of such an account through, because   *)
(* the copy is outdated or the account not active at the moment.           *)
Misled(i) ==
    /\ ops[i].kind = "disable"
    /\ Indispensable(ops[i].who)
    /\ Stale(i) \/ ~Active(ops[i].who)

(* The guard reads the copy and the accounts in one step, right after the  *)
(* lock was had; what happens before the write is for the properties.      *)
Guard(i) ==
    /\ ops[i].pc = "lock"
    /\ LockFree(i)
    /\ LET kind == ops[i].kind
           who  == ops[i].who
       IN  IF Guarded(i, kind, who)
           THEN /\ ops' = [ops EXCEPT ![i].pc = "write", ![i].misled = Misled(i)]
                /\ IF kind = "bootstrap" THEN Status(who, "active") ELSE UNCHANGED accounts
                /\ lock' = i
           ELSE Ends(i) /\ UNCHANGED <<accounts, lock>>
    /\ UNCHANGED <<policy, engines, mishaps>>

(* validatePolicySafety and validateActiveSuperAdminSafety, in the         *)
(* transaction that locks the version and the accounts' rows.              *)
KeepsMembers(next) == policy.members # {} => next # {}
KeepsActive(next)  == next # {} => \E p \in next : Active(p)
SafePolicy(next)   == KeepsMembers(next) /\ KeepsActive(next)

NextMembers(kind, who) ==
    IF kind = "withdraw" THEN policy.members \ {who} ELSE policy.members \cup {who}

(* The roles of a new account are not written, or not known to be: its     *)
(* creator disables it.  A bootstrap does so under the lock, a creation    *)
(* after the coordinator gave it up.                                       *)
Fails(i) ==
    /\ IF ops[i].kind \in {"bootstrap", "create"} THEN Goes(i, "undo") ELSE Ends(i)
    /\ IF ops[i].kind = "bootstrap" THEN UNCHANGED lock ELSE Release(i)

(* mutateRules up to its commit.  A change that changes nothing is not     *)
(* written.                                                                *)
WritePolicy(i) ==
    LET next == NextMembers(ops[i].kind, ops[i].who)
    IN  /\ ops[i].pc = "write"
        /\ ops[i].kind # "disable" /\ engines[i].state = "up"
        /\ \/ /\ SafePolicy(next) /\ next # policy.members
              /\ policy.version < MaxVersion
              /\ policy' = [version |-> policy.version + 1, members |-> next]
              /\ Goes(i, "reload") /\ UNCHANGED lock
           \/ SafePolicy(next) /\ next = policy.members /\ Ends(i) /\ Release(i) /\ UNCHANGED policy
           \/ ~SafePolicy(next) /\ Fails(i) /\ UNCHANGED policy
        /\ UNCHANGED <<accounts, engines, mishaps>>

(* DisableAccount *)
WriteStatus(i) ==
    /\ ops[i].pc = "write"
    /\ ops[i].kind = "disable"
    /\ IF Active(ops[i].who) THEN Status(ops[i].who, "disabled") ELSE UNCHANGED accounts
    /\ Ends(i) /\ Release(i)
    /\ UNCHANGED <<policy, engines, mishaps>>

(* reloadCommittedVersion.  The lock is still held, so the version in the  *)
(* database is the one that was written.                                   *)
Reload(i) ==
    /\ ops[i].pc = "reload"
    /\ engines' = [engines EXCEPT ![i] = [Loaded(@) EXCEPT !.claimed = policy.version,
                                                         !.polled = policy.version]]
    /\ Ends(i) /\ Release(i)
    /\ UNCHANGED <<policy, accounts, mishaps>>

(* The commit's acknowledgement or the reload fails: the caller sees an    *)
(* error although the policy is written.                                   *)
ReloadFails(i) ==
    /\ ops[i].pc = "reload"
    /\ Mishap
    /\ Fails(i)
    /\ UNCHANGED <<policy, accounts, engines>>

LockTimeout(i) ==
    /\ ops[i].pc = "lock"
    /\ Mishap
    /\ IF ops[i].kind = "create" THEN Goes(i, "undo") ELSE Ends(i)
    /\ UNCHANGED <<policy, accounts, engines, lock>>

(* History: a compensation takes the administrator that a disable, which   *)
(* has passed its guard, counts on.                                        *)
Deceives(who, op) ==
    /\ op.pc = "write" /\ op.kind = "disable"
    /\ op.who \in policy.members /\ op.who # who
    /\ Others(op.who) \subseteq {who}

(* The account that was to get the role is disabled, if that succeeds.     *)
Undo(i) ==
    /\ ops[i].pc = "undo"
    /\ \/ /\ Status(ops[i].who, "disabled")
          /\ ops' = [j \in Instances |->
                        IF j = i THEN Asleep
                        ELSE [ops[j] EXCEPT !.misled = @ \/ Deceives(ops[i].who, ops[j])]]
       \/ UNCHANGED accounts /\ Ends(i)
    /\ Release(i)
    /\ UNCHANGED <<policy, engines, mishaps>>

(* The process ends, and with it its connection and the lock. *)
CrashEngine(i) ==
    /\ engines[i].state # "down"
    /\ Mishap
    /\ engines' = [engines EXCEPT ![i] = Down]
    /\ Ends(i) /\ Release(i)
    /\ UNCHANGED <<policy, accounts>>

-----------------------------------------------------------------------------
PolicyInit ==
    /\ policy = [version |-> 0, members |-> {}]
    /\ accounts = [p \in People |-> "absent"]
    /\ engines = [i \in Instances |-> Down]
    /\ ops = [i \in Instances |-> Asleep]
    /\ lock = "none"
    /\ mishaps = 0

PolicyNext ==
    \/ \E i \in Instances :
        \/ BootLoadPolicy(i) \/ BootClaim(i) \/ SyncRead(i) \/ SyncLoad(i) \/ SyncClaim(i) \/ CrashEngine(i)
        \/ LockTimeout(i) \/ Guard(i)
        \/ WritePolicy(i) \/ WriteStatus(i) \/ Reload(i) \/ ReloadFails(i) \/ Undo(i)
        \/ \E kind \in Changes, who \in People : Ask(i, kind, who)
    \/ \E p \in People : Enable(p)

(* Instances poll for as long as they run, and a write that was committed  *)
(* is followed by its reload or its failure.                               *)
PolicyFairness ==
    \A i \in Instances :
        /\ WF_policyVars(SyncRead(i)) /\ WF_policyVars(SyncLoad(i)) /\ WF_policyVars(SyncClaim(i))
        /\ WF_policyVars(Reload(i))

PolicySpec == PolicyInit /\ [][PolicyNext]_policyVars /\ PolicyFairness

-----------------------------------------------------------------------------
(* Properties *)

PolicyTypeOK ==
    /\ policy \in [version : 0 .. MaxVersion, members : SUBSET People]
    /\ accounts \in [People -> {"absent", "active", "disabled"}]
    /\ engines \in [Instances -> [state : {"down", "loaded", "up", "claim"}, claimed : 0 .. MaxVersion,
                                 loaded : 0 .. MaxVersion, members : SUBSET People,
                                 polled : 0 .. MaxVersion]]
    /\ ops \in [Instances -> [pc : {"none", "lock", "write", "reload", "undo"},
                             kind : Changes, who : People, misled : BOOLEAN]]
    /\ lock \in Instances \cup {"none"}
    /\ mishaps \in 0 .. MaxMishaps

(* An instance that runs enforces the version it claims, or a newer one. *)
Enforces(i) == engines[i].claimed <= engines[i].loaded

(* An instance that enforces what it claims goes on to do so: no order of  *)
(* polls, reloads, writes and crashes lets it take a change that commits   *)
(* while it reads the rules for loaded.  Only Start may, with a change     *)
(* since the rules were loaded.                                            *)
ReloadsAreEnforced ==
    [][\A i \in Instances : Enforces(i) /\ ~Enforces(i)' => BootClaim(i) /\ Stale(i)]_policyVars

(* "Ping makes an out-of-date ... policy synchronizer fail readiness"      *)
(* (cluster.go:133): an instance that is ready enforces the policy of the  *)
(* database.  The code breaks this in Start.                               *)
ReadyEnforces == \A i \in Instances : Up(i) /\ Ready(i) => ~Stale(i)

HasAdmin == \E p \in policy.members : Active(p)

(* The last active super administrator is never lost to role changes,      *)
(* disabled accounts, bootstraps and creations that interleave on several  *)
(* instances.  Only two steps may take it: the compensation of the very    *)
(* account, and a disable whose guard was misled about this account, by an *)
(* outdated copy or by a compensation since.                               *)
LastAdminStays ==
    [][HasAdmin /\ ~HasAdmin' =>
           \E i \in Instances : Undo(i) \/ (WriteStatus(i) /\ ops[i].misled)]_policyVars

(* Every committed change reaches every instance that runs and does not    *)
(* already claim its version, also when all notifications are lost.        *)
PolicyReachesInstances ==
    \A i \in Instances :
        Up(i) /\ engines[i].claimed < policy.version
            ~> ~Up(i) \/ engines[i].loaded = policy.version
=============================================================================
