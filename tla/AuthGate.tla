------------------------------- MODULE AuthGate -------------------------------
(***************************************************************************)
(* What every authenticated request passes before its handler runs         *)
(* (core/security.py): the bearer token is decoded, and a token of a       *)
(* read-only session is turned away unless the method is a safe one.  No   *)
(* table is read.  A request that is turned away has no effect at all and  *)
(* is left out.                                                            *)
(***************************************************************************)
CONSTANTS Users, Calls, SessionIds, None

(* The claims of a token: whose data it opens and, for a token of an       *)
(* impersonation, the administrator, the audited session and read_only.    *)
Token == [sub : Users, by : Users \cup {None}, session : SessionIds \cup {None},
          readOnly : BOOLEAN]

ASSUME GateAssumption ==
    None \notin Users /\ None \notin SessionIds /\ None \notin Token

LoginToken(u) == [sub |-> u, by |-> None, session |-> None, readOnly |-> FALSE]

SupportToken(s, admin, target, readOnly) ==
    [sub |-> target, by |-> admin, session |-> s, readOnly |-> readOnly]

SafeMethods == {"GET", "HEAD", "OPTIONS"}

(* A bug: only the methods that create something count as changes. *)
Wrong_OnlyPostIsGated(t, method) == t.readOnly => method # "POST"

(* get_current_user_id. *)
LetsThrough(t, method) == t.readOnly => method \in SafeMethods

=============================================================================
