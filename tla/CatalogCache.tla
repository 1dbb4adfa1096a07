---------------------------- MODULE CatalogCache ----------------------------
(***************************************************************************)
(* The rows of accounts, roles and authorization resources in MySQL, and   *)
(* the copies of them that all instances share in Redis.                   *)
(*                                                                         *)
(* A detail read takes the copy, or loads the row and stores it.  A write  *)
(* changes the row and then deletes the copy; nothing orders the two of    *)
(* one request against those of another.  A value is the number of the     *)
(* write that made it, and 0 is the absence of a row, which is cached too. *)
(* Reads that decide something use the row itself and take no step here.   *)
(*                                                                         *)
(* go-zero's cache, its retries of a failed deletion and Redis are not in  *)
(* the repository; what they do is taken from how ModelCache uses them.    *)
(***************************************************************************)
EXTENDS Naturals

CONSTANTS
    Profiles,   \* account IDs
    Roles,      \* role codes
    Resources,  \* codes of authorization resources
    Callers,    \* requests in progress, on any instance
    MaxWrites   \* bound: writes

ASSUME CatalogAssumption == MaxWrites \in Nat /\ Profiles \cup Roles \cup Resources # {}

VARIABLES
    table,   \* the value of each row
    copies,  \* the copy of each row
    callers, \* where each request is
    writes   \* how many writes were made

catalogVars == <<table, copies, callers, writes>>

-----------------------------------------------------------------------------
(* Values *)

Keys   == Profiles \cup Roles \cup Resources
Values == 0 .. MaxWrites

(* An overtaken value was read before a write whose deletion of the copy   *)
(* came too early to remove it, or never came.                             *)
NoCopy   == [held |-> FALSE, value |-> 0, overtaken |-> FALSE]
Copy(c)  == [held |-> TRUE, value |-> callers[c].value, overtaken |-> callers[c].overtaken]
AtRest   == [at |-> "none", op |-> "get", key |-> CHOOSE k \in Keys : TRUE, value |-> 0,
             overtaken |-> FALSE]

Operations == {"get", "create", "update", "delete"}

On(c, step, k) == callers[c].at = step /\ callers[c].key = k
MovesTo(c, step) == [callers EXCEPT ![c].at = step]
Begins(c, step, op, k) ==
    [callers EXCEPT ![c] = [at |-> step, op |-> op, key |-> k, value |-> 0, overtaken |-> FALSE]]
Finishes(c) == [callers EXCEPT ![c] = AtRest]

-----------------------------------------------------------------------------
(* Reads *)

(* Nobody knows the ID of an account before it exists.  DeleteResource     *)
(* reads the resource through the cache before it deletes the row.         *)
Take(c, k) ==
    /\ callers[c].at = "none"
    /\ k \in Profiles => table[k] > 0
    /\ \/ /\ ~copies[k].held
          /\ \E op \in {"get"} \cup (IF k \in Resources THEN {"delete"} ELSE {}) :
                callers' = Begins(c, "loading", op, k)
       \/ /\ copies[k].held /\ copies[k].value > 0 /\ k \in Resources
          /\ callers' = Begins(c, "writing", "delete", k)
    /\ UNCHANGED <<table, copies, writes>>

LoadRow(c) ==
    /\ callers[c].at = "loading"
    /\ callers' = [callers EXCEPT ![c].at = "filling", ![c].value = table[callers[c].key]]
    /\ UNCHANGED <<table, copies, writes>>

(* The absence of a row never replaces a copy; the answer of the read does *)
(* not depend on whether Redis stores the value.                           *)
Answered(c) ==
    IF callers[c].op = "delete" /\ callers[c].value > 0
    THEN Begins(c, "writing", "delete", callers[c].key) ELSE Finishes(c)

Fill(c) ==
    /\ callers[c].at = "filling"
    /\ LET k == callers[c].key IN
          \/ copies' = [copies EXCEPT ![k] = Copy(c)] /\ (callers[c].value > 0 \/ ~copies[k].held)
          \/ UNCHANGED copies
    /\ callers' = Answered(c)
    /\ UNCHANGED <<table, writes>>

LoadFails(c) ==
    /\ callers[c].at = "loading"
    /\ callers' = Finishes(c)
    /\ UNCHANGED <<table, copies, writes>>

-----------------------------------------------------------------------------
(* Writes *)

(* CreateAccount and the creation and update of a role or a resource check *)
(* nothing first.  UpdateProfile and UpdateAccountStatus read the row,     *)
(* outside the transaction, for the keys that it has now.  DeleteRole asks *)
(* for members of the role, which this module leaves out.                  *)
AskWrite(c, k, op) ==
    /\ callers[c].at = "none"
    /\ (op = "update" /\ k \in Profiles) => table[k] > 0
    /\ op = "delete" => k \in Roles
    /\ op # "get"
    /\ callers' = Begins(c, "writing", op, k)
    /\ UNCHANGED <<table, copies, writes>>

(* INSERT meets a duplicate key, UPDATE and DELETE meet no row. *)
Applies(c) == (callers[c].op = "create") <=> (table[callers[c].key] = 0)

(* Variant: what did not exist needs no invalidation. *)
InvalidatingOld == {"update", "delete"}
Invalidating == {"create", "update", "delete"}

WriteRow(c) ==
    /\ callers[c].at = "writing" /\ Applies(c) /\ writes < MaxWrites
    /\ writes' = writes + 1
    /\ table' = [table EXCEPT ![callers[c].key] =
                     IF callers[c].op = "delete" THEN 0 ELSE writes']
    /\ callers' =
          IF callers[c].op \in Invalidating THEN MovesTo(c, "invalidating") ELSE Finishes(c)
    /\ UNCHANGED copies

(* The statement is refused, or fails. *)
WriteRefused(c) ==
    /\ callers[c].at = "writing"
    /\ callers' = Finishes(c)
    /\ UNCHANGED <<table, copies, writes>>

(* Every load of the row that is still to be stored is overtaken. *)
Overtaking(c) ==
    [d \in Callers |->
        IF d = c THEN AtRest
        ELSE [callers[d] EXCEPT !.overtaken = @ \/ On(d, "filling", callers[c].key)]]

Invalidate(c) ==
    /\ callers[c].at = "invalidating"
    /\ copies' = [copies EXCEPT ![callers[c].key] = NoCopy]
    /\ callers' = Overtaking(c)
    /\ UNCHANGED <<table, writes>>

(* The process ends first, or Redis refuses the deletion and its retries. *)
InvalidationLost(c) ==
    /\ callers[c].at = "invalidating"
    /\ copies' = [copies EXCEPT ![callers[c].key].overtaken = @ \/ copies[callers[c].key].held]
    /\ callers' = Overtaking(c)
    /\ UNCHANGED <<table, writes>>

(* The copy's time to live ends. *)
ExpireCopy(k) ==
    /\ copies[k].held
    /\ copies' = [copies EXCEPT ![k] = NoCopy]
    /\ UNCHANGED <<table, callers, writes>>

-----------------------------------------------------------------------------
CatalogInit ==
    /\ table = [k \in Keys |-> 0]
    /\ copies = [k \in Keys |-> NoCopy]
    /\ callers = [c \in Callers |-> AtRest]
    /\ writes = 0

CatalogNext ==
    \/ \E c \in Callers :
          \/ LoadRow(c) \/ Fill(c) \/ LoadFails(c)
          \/ WriteRow(c) \/ WriteRefused(c) \/ Invalidate(c) \/ InvalidationLost(c)
          \/ \E k \in Keys : Take(c, k) \/ \E op \in Operations : AskWrite(c, k, op)
    \/ \E k \in Keys : ExpireCopy(k)

CatalogSpec == CatalogInit /\ [][CatalogNext]_catalogVars

-----------------------------------------------------------------------------
(* Properties *)

(* Every variable keeps its type, and a request rests or works on one row. *)
CatalogTypeOK ==
    /\ table \in [Keys -> Values] /\ writes \in Values
    /\ copies \in [Keys -> [held : BOOLEAN, value : Values, overtaken : BOOLEAN]]
    /\ callers \in [Callers ->
          [at : {"none", "loading", "filling", "writing", "invalidating"}, op : Operations,
           key : Keys, value : Values, overtaken : BOOLEAN]]

(* A write of the row is done whose deletion of the copy is still to come. *)
BeingInvalidated(k) == \E c \in Callers : On(c, "invalidating", k)

(* A copy differs from its row only while the request that wrote the row   *)
(* has yet to delete the copy, or when the copy holds a value whose load   *)
(* such a deletion overtook or whose deletion was lost, which is what the  *)
(* time to live is for (takeAccount, invalidateAccounts, GetRole, invalidate). *)
StaleCopiesAreExplained ==
    \A k \in Keys :
        copies[k].held /\ copies[k].value # table[k] => copies[k].overtaken \/ BeingInvalidated(k)

(* The same of the values that are about to be stored. *)
StaleLoadsAreExplained ==
    \A c \in Callers :
        callers[c].at = "filling" /\ callers[c].value # table[callers[c].key]
            => callers[c].overtaken \/ BeingInvalidated(callers[c].key)
=============================================================================
