------------------------------- MODULE Sessions -------------------------------
(***************************************************************************)
(* Login and support sessions (api/auth.py, api/admin.py,                  *)
(* core/security.py, repositories/impersonation_audit.py).  An             *)
(* administrator asks for a token of another user; the handler reads the   *)
(* caller's role twice, then the target's, writes the audit row and signs  *)
(* the token, each a call of its own.  Roles have no endpoint: they change *)
(* from outside at any time.  A user who will log in has the token from    *)
(* the start, and a token that has expired or a request that has failed is *)
(* one not heard of again: neither adds a step.                            *)
(***************************************************************************)
EXTENDS AuthGate, Naturals

CONSTANTS FirstRoles,      \* bound: the roles the users may start with
          MaxRoleChanges   \* bound: changes of roles from outside

Roles      == {"user", "admin", "super_admin"}
AdminRoles == {"admin", "super_admin"}

ASSUME SessionsAssumption ==
    FirstRoles \subseteq [Users -> Roles] /\ MaxRoleChanges \in Nat

VARIABLES
    role,         \* users.role
    tokens,       \* the tokens signed
    audit,        \* impersonation_audit_log; ended holds the call that ended it
    grant,        \* the impersonation requests
    raised,       \* history: the users who were raised from "user"
    roleChanges

sessionsVars == <<role, tokens, audit, grant, raised, roleChanges>>

AuditRow == [admin : Users, target : Users, ended : Calls \cup {None}]
Grant    == [tok : Token, target : Users \cup {None}, tier : Roles,
             session : SessionIds \cup {None},
             step : {"require", "tier", "target", "audit", "sign", "done"}]

ASSUME AuditAssumption == None \notin AuditRow

SessionsTypeOK ==
    /\ role \in [Users -> Roles]
    /\ tokens \subseteq Token
    /\ audit \in [SessionIds -> AuditRow \cup {None}]
    /\ grant \in [Calls -> Grant \cup {None}]
    /\ raised \subseteq Users
    /\ roleChanges \in 0..MaxRoleChanges

SessionsInit ==
    /\ role \in FirstRoles
    /\ tokens = {LoginToken(u) : u \in Users}
    /\ audit = [s \in SessionIds |-> None]
    /\ grant = [c \in Calls |-> None]
    /\ raised = {}
    /\ roleChanges = 0

-----------------------------------------------------------------------------
(* A role is edited in the database. *)
SetRole(u, r) ==
    /\ roleChanges < MaxRoleChanges /\ r # role[u]
    /\ role' = [role EXCEPT ![u] = r]
    /\ raised' = IF role[u] = "user" THEN raised \cup {u} ELSE raised
    /\ roleChanges' = roleChanges + 1
    /\ UNCHANGED <<tokens, audit, grant>>

-----------------------------------------------------------------------------
(* POST /admin/users/{target}/impersonate.  An unknown target is None.     *)

AskGrant(c, t, target) ==
    /\ t \in tokens /\ LetsThrough(t, "POST")
    /\ grant[c] = None
    /\ grant' = [grant EXCEPT ![c] = [tok |-> t, target |-> target, tier |-> "user",
                                      session |-> None, step |-> "require"]]
    /\ UNCHANGED <<role, tokens, audit, raised, roleChanges>>

At(c, step) == grant[c] # None /\ grant[c].step = step

GoesTo(c, step) == grant' = [grant EXCEPT ![c].step = step]

(* require_admin: the caller's role, read now. *)
RequireAdmin(c) ==
    /\ At(c, "require")
    /\ GoesTo(c, IF role[grant[c].tok.sub] \in AdminRoles THEN "tier" ELSE "done")
    /\ UNCHANGED <<role, tokens, audit, raised, roleChanges>>

(* The role is read again, for the tier. *)
ReadTier(c) ==
    /\ At(c, "tier")
    /\ grant' = [grant EXCEPT ![c].tier = role[grant[c].tok.sub], ![c].step = "target"]
    /\ UNCHANGED <<role, tokens, audit, raised, roleChanges>>

(* A bug: only the highest tier is protected. *)
Wrong_OnlySuperAdminsExempt(target) == target # None /\ role[target] # "super_admin"

MayBeImpersonated(target) == target # None /\ role[target] = "user"

(* 404 for no such user, 409 for another administrator. *)
CheckTarget(c) ==
    /\ At(c, "target")
    /\ GoesTo(c, IF MayBeImpersonated(grant[c].target) THEN "audit" ELSE "done")
    /\ UNCHANGED <<role, tokens, audit, raised, roleChanges>>

(* create_impersonation_session. *)
WriteAudit(c, s) ==
    /\ At(c, "audit") /\ audit[s] = None
    /\ audit' = [audit EXCEPT ![s] = [admin |-> grant[c].tok.sub, target |-> grant[c].target,
                                      ended |-> None]]
    /\ grant' = [grant EXCEPT ![c].session = s, ![c].step = "sign"]
    /\ UNCHANGED <<role, tokens, raised, roleChanges>>

ReadOnly(tier) == tier # "super_admin"

SignToken(c) ==
    /\ At(c, "sign")
    /\ tokens' = tokens \cup {SupportToken(grant[c].session, grant[c].tok.sub,
                                           grant[c].target, ReadOnly(grant[c].tier))}
    /\ GoesTo(c, "done")
    /\ UNCHANGED <<role, audit, raised, roleChanges>>

(* A bug: the row is found by its id alone. *)
Wrong_EndsAgain(s) == audit[s] # None

(* WHERE id = ... AND ended_at IS NULL *)
StillOpen(s) == audit[s] # None /\ audit[s].ended = None

(* POST /admin/impersonation/end: the decoded token is enough, read-only   *)
(* or not.  A login token is answered 400.                                 *)
EndSession(c, t) ==
    /\ t \in tokens /\ t.session # None
    /\ audit' = IF StillOpen(t.session) THEN [audit EXCEPT ![t.session].ended = c] ELSE audit
    /\ UNCHANGED <<role, tokens, grant, raised, roleChanges>>

-----------------------------------------------------------------------------
GrantSteps ==
    \E c \in Calls :
        \/ RequireAdmin(c) \/ ReadTier(c) \/ CheckTarget(c) \/ SignToken(c)
        \/ \E s \in SessionIds : WriteAudit(c, s)

SessionsOutside == \E u \in Users, r \in Roles : SetRole(u, r)

SessionsCalls ==
    \E c \in Calls, t \in tokens :
        \/ \E target \in Users \cup {None} : AskGrant(c, t, target)
        \/ EndSession(c, t)

SessionsNext == GrantSteps \/ SessionsOutside \/ SessionsCalls

SessionsSpec == SessionsInit /\ [][SessionsNext]_sessionsVars

-----------------------------------------------------------------------------
(* Each support token names an audited session, with the administrator and *)
(* the user the audit log has; whatever fails on the way, no token exists  *)
(* without its row (admin.py:104-122).                                     *)
TokensAreAudited ==
    \A t \in tokens :
        t.session # None =>
            /\ audit[t.session] # None
            /\ t.by = audit[t.session].admin /\ t.sub = audit[t.session].target

(* No chaining: an impersonation is granted to the bearer of a support     *)
(* token only when the impersonated user had been raised from "user" at    *)
(* some time (admin.py:96-101): before the session was granted, and put    *)
(* back for the check of its target's role, or after that check.           *)
ChainNeedsPromotion ==
    \A c \in Calls :
        (/\ grant[c] # None /\ grant[c].tok.by # None
         /\ grant[c].step \in {"tier", "target", "audit", "sign"})
            => grant[c].tok.sub \in raised

(* The end of a session is recorded once, whoever asks again and however   *)
(* late (impersonation_audit.py:23).                                       *)
EndsOnce ==
    [][\A s \in SessionIds :
          audit[s] # None =>
              /\ audit'[s] # None
              /\ audit[s].ended # None => audit'[s] = audit[s]]_sessionsVars
=============================================================================
