---------------------------- MODULE CommandOnce ----------------------------
(***************************************************************************)
(* What the command executor promises its clients, whatever transactions,  *)
(* row locks and retries stand behind it.  Each command ID of an actor is  *)
(* decided once.  A decision that accepts advances the aggregate from the  *)
(* version the command expected; one that rejects changes nothing.  A      *)
(* client is told the decision on the request it sent, and nothing else.   *)
(***************************************************************************)
EXTENDS Naturals

CONSTANTS Requests, Aggregate

VARIABLES
    decided,   \* requests bound to their results
    versions,  \* the version of each aggregate
    told       \* requests bound to what their clients were told

onceVars == <<decided, versions, told>>

SameCommand(r, q) == r.actor = q.actor /\ r.id = q.id

Init ==
    /\ decided = {}
    /\ versions = [g \in Aggregate |-> 0]
    /\ told = {}

Decides(r, code, version) ==
    /\ \A d \in decided : ~SameCommand(d.req, r)
    /\ decided' = decided \cup {[req |-> r, result |-> [code |-> code, version |-> version]]}

Accept(r) ==
    /\ versions[r.aggregate] = r.expected
    /\ versions' = [versions EXCEPT ![r.aggregate] = r.expected + r.events]
    /\ Decides(r, "none", r.expected + r.events)

(* A rejection that names a version names the current one. *)
Reject(r) ==
    /\ \E code \in {"expired", "sequence", "exists", "missing", "version", "refused"},
          version \in {0, versions[r.aggregate]} : Decides(r, code, version)
    /\ UNCHANGED versions

(* The result of the request itself, or the conflict with the request that *)
(* has taken its ID.                                                       *)
Told(r, d) ==
    [req |-> r, result |-> IF d.req = r THEN d.result
                           ELSE [code |-> "conflict", version |-> d.result.version]]

(* A client may be told in the same step in which its command is decided.  *)
Tell(r) ==
    \E d \in decided' :
        /\ SameCommand(d.req, r)
        /\ told' = told \cup {Told(r, d)}

(* Most steps of an executor decide nothing and tell nothing. *)
Next ==
    \/ UNCHANGED onceVars
    \/ \E r \in Requests :
           \/ (Accept(r) \/ Reject(r)) /\ (Tell(r) \/ UNCHANGED told)
           \/ Tell(r) /\ UNCHANGED <<decided, versions>>

Spec == Init /\ [][Next]_onceVars
=============================================================================
