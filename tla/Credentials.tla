----------------------------- MODULE Credentials -----------------------------
(***************************************************************************)
(* One user's password: reset links (app/repositories/password_reset_      *)
(* tokens.py, POST /auth/password-reset and /confirm) and the change of a  *)
(* known password (update_user_password in app/repositories/users.py).     *)
(*                                                                         *)
(* Requesting and confirming a reset are READ COMMITTED transactions of    *)
(* two statements; what they write shows when they commit, and a row they  *)
(* wrote makes every other writer of it wait until they end.  A password   *)
(* change is two statements without a transaction.  A link is named by the *)
(* request that asked for it.                                              *)
(***************************************************************************)
EXTENDS Naturals, FiniteSets

CONSTANTS Resets,    \* requests for a link
          Confirms,  \* requests that use a link
          Changes,   \* requests that change the password
          Passwords, None,
          MaxFaults  \* bound: failed statements, lost replies, expired links

ASSUME ConstantsAssumption ==
    /\ Passwords # {} /\ None \notin Resets \cup Passwords
    /\ MaxFaults \in Nat

VARIABLES
    password,  \* users.password_hash, by the password it is the hash of
    token,     \* the committed row of each link in password_reset_tokens
    expired,   \* the links past expires_at
    rpc,       \* where each request for a link stands
    sees,      \* the unused links in the snapshot of its DELETE
    cpc,       \* where each confirmation stands
    link,      \* the link it was sent with
    new,       \* the new password of a confirmation or change
    wrote,     \* history: the confirmations that were committed
    hpc,       \* where each password change stands
    current,   \* the current_password of its request
    faults

resetVars   == <<rpc, sees>>
confirmVars == <<cpc, link, wrote>>
changeVars  == <<hpc, current>>
vars == <<password, token, expired, resetVars, confirmVars, changeVars, new, faults>>

RPc == {"idle", "delete", "wait", "insert", "commit", "sent", "failed"}
CPc == {"idle", "claim", "set", "commit", "done", "invalid", "failed"}
HPc == {"idle", "verify", "write", "done", "wrong", "failed"}

TypeOK ==
    /\ password \in Passwords
    /\ token \in [Resets -> {"none", "unused", "used", "deleted"}]
    /\ expired \subseteq Resets
    /\ rpc \in [Resets -> RPc]
    /\ sees \in [Resets -> SUBSET Resets]
    /\ cpc \in [Confirms -> CPc]
    /\ link \in [Confirms -> Resets \cup {None}]
    /\ \A c \in Confirms : cpc[c] # "idle" => link[c] \in Resets /\ new[c] \in Passwords
    /\ \A c \in Confirms : cpc[c] \in {"set", "commit"} => token[link[c]] = "unused"
    /\ new \in [Confirms \cup Changes -> Passwords \cup {None}]
    /\ wrote \subseteq Confirms
    /\ hpc \in [Changes -> HPc]
    /\ current \in [Changes -> Passwords \cup {None}]
    /\ \A h \in Changes : hpc[h] # "idle" => current[h] \in Passwords /\ new[h] \in Passwords
    /\ faults \in 0..MaxFaults

Init ==
    /\ password \in Passwords
    /\ token = [r \in Resets |-> "none"]
    /\ expired = {}
    /\ rpc = [r \in Resets |-> "idle"]
    /\ sees = [r \in Resets |-> {}]
    /\ cpc = [c \in Confirms |-> "idle"]
    /\ link = [c \in Confirms |-> None]
    /\ new = [x \in Confirms \cup Changes |-> None]
    /\ wrote = {}
    /\ hpc = [h \in Changes |-> "idle"]
    /\ current = [h \in Changes |-> None]
    /\ faults = 0

-----------------------------------------------------------------------------
(* Rows and locks. *)

Unused == {t \in Resets : token[t] = "unused"}

(* The links an open transaction has deleted or claimed.                   *)
Wrong_ExpiredOnly(r) == IF rpc[r] \in {"insert", "commit"} THEN sees[r] \cap expired ELSE {}
Doomed(r)  == IF rpc[r] \in {"insert", "commit"} THEN sees[r] \cap Unused ELSE {}
Wrong_LeftOpen(c) == IF cpc[c] \in {"set", "commit", "failed"} THEN {link[c]} ELSE {}
Claimed(c) == IF cpc[c] \in {"set", "commit"} THEN {link[c]} ELSE {}

Wrong_NotLocked(t) == FALSE
Locked(t) ==
    \/ \E r \in Resets : t \in Doomed(r)
    \/ \E c \in Confirms : t \in Claimed(c)

UserRowLocked == \E c \in Confirms : cpc[c] = "commit"

Fault == faults < MaxFaults /\ faults' = faults + 1

(* A transaction that does not commit leaves the rows as they were. *)
Wrong_NoTransaction(c) == [token EXCEPT ![link[c]] = IF cpc[c] = "claim" THEN @ ELSE "used"]
RolledBack(c)          == token

(* A link can be used while its row is unused and has not expired. *)
Usable(t) == token[t] = "unused" /\ t \notin expired

-----------------------------------------------------------------------------
(* POST /auth/password-reset for this user: BEGIN, DELETE, INSERT, COMMIT. *)

RequestReset(r) ==
    /\ rpc[r] = "idle"
    /\ rpc' = [rpc EXCEPT ![r] = "delete"]
    /\ UNCHANGED <<password, token, expired, sees, confirmVars, changeVars, new, faults>>

(* The DELETE takes its snapshot, then waits for the writers of the rows   *)
(* it found; one that is used or deleted by then is left out.              *)
TakeSnapshot(r) ==
    /\ rpc[r] = "delete"
    /\ sees' = [sees EXCEPT ![r] = Unused]
    /\ rpc' = [rpc EXCEPT ![r] = "wait"]
    /\ UNCHANGED <<password, token, expired, confirmVars, changeVars, new, faults>>

DeleteUnused(r) ==
    /\ rpc[r] = "wait"
    /\ \A t \in sees[r] : ~Locked(t)
    /\ rpc' = [rpc EXCEPT ![r] = "insert"]
    /\ UNCHANGED <<password, token, expired, sees, confirmVars, changeVars, new, faults>>

InsertToken(r) ==
    /\ rpc[r] = "insert"
    /\ rpc' = [rpc EXCEPT ![r] = "commit"]
    /\ UNCHANGED <<password, token, expired, sees, confirmVars, changeVars, new, faults>>

CommitReset(r) ==
    /\ rpc[r] = "commit"
    /\ token' = [t \in Resets |-> IF t = r THEN "unused"
                                  ELSE IF t \in Doomed(r) THEN "deleted" ELSE token[t]]
    /\ \/ rpc' = [rpc EXCEPT ![r] = "sent"] /\ UNCHANGED faults
       \/ rpc' = [rpc EXCEPT ![r] = "failed"] /\ Fault
    /\ UNCHANGED <<password, expired, sees, confirmVars, changeVars, new>>

ResetFails(r) ==
    /\ rpc[r] \in {"delete", "wait", "insert", "commit"}
    /\ rpc' = [rpc EXCEPT ![r] = "failed"]
    /\ Fault
    /\ UNCHANGED <<password, token, expired, sees, confirmVars, changeVars, new>>

(* An hour has passed. *)
Expire(r) ==
    /\ token[r] = "unused" /\ r \notin expired
    /\ expired' = expired \cup {r}
    /\ Fault
    /\ UNCHANGED <<password, token, resetVars, confirmVars, changeVars, new>>

-----------------------------------------------------------------------------
(* POST /auth/password-reset/confirm: BEGIN, UPDATE token, UPDATE user,    *)
(* COMMIT.                                                                 *)

Confirm(c, t, p) ==
    /\ cpc[c] = "idle"
    /\ token[t] # "none"
    /\ cpc' = [cpc EXCEPT ![c] = "claim"]
    /\ link' = [link EXCEPT ![c] = t]
    /\ new' = [new EXCEPT ![c] = p]
    /\ UNCHANGED <<password, token, expired, resetVars, wrote, changeVars, faults>>

ClaimToken(c) ==
    /\ cpc[c] = "claim"
    /\ ~Locked(link[c])
    /\ cpc' = [cpc EXCEPT ![c] = IF Usable(link[c]) THEN "set" ELSE "invalid"]
    /\ UNCHANGED <<password, token, expired, resetVars, link, wrote, changeVars, new, faults>>

SetPassword(c) ==
    /\ cpc[c] = "set"
    /\ ~UserRowLocked
    /\ cpc' = [cpc EXCEPT ![c] = "commit"]
    /\ UNCHANGED <<password, token, expired, resetVars, link, wrote, changeVars, new, faults>>

CommitConfirm(c) ==
    /\ cpc[c] = "commit"
    /\ token' = [token EXCEPT ![link[c]] = "used"]
    /\ password' = new[c]
    /\ wrote' = wrote \cup {c}
    /\ \/ cpc' = [cpc EXCEPT ![c] = "done"] /\ UNCHANGED faults
       \/ cpc' = [cpc EXCEPT ![c] = "failed"] /\ Fault
    /\ UNCHANGED <<expired, resetVars, link, changeVars, new>>

ConfirmFails(c) ==
    /\ cpc[c] \in {"claim", "set", "commit"}
    /\ cpc' = [cpc EXCEPT ![c] = "failed"]
    /\ token' = RolledBack(c)
    /\ Fault
    /\ UNCHANGED <<password, expired, resetVars, link, wrote, changeVars, new>>

-----------------------------------------------------------------------------
(* PATCH /users/me/password: SELECT and check, then UPDATE. *)

ChangePassword(h, cur, p) ==
    /\ hpc[h] = "idle"
    /\ hpc' = [hpc EXCEPT ![h] = "verify"]
    /\ current' = [current EXCEPT ![h] = cur]
    /\ new' = [new EXCEPT ![h] = p]
    /\ UNCHANGED <<password, token, expired, resetVars, confirmVars, faults>>

VerifyCurrent(h) ==
    /\ hpc[h] = "verify"
    /\ hpc' = [hpc EXCEPT ![h] = IF current[h] = password THEN "write" ELSE "wrong"]
    /\ UNCHANGED <<password, token, expired, resetVars, confirmVars, current, new, faults>>

WritePassword(h) ==
    /\ hpc[h] = "write"
    /\ ~UserRowLocked
    /\ password' = new[h]
    /\ \/ hpc' = [hpc EXCEPT ![h] = "done"] /\ UNCHANGED faults
       \/ hpc' = [hpc EXCEPT ![h] = "failed"] /\ Fault
    /\ UNCHANGED <<token, expired, resetVars, confirmVars, current, new>>

ChangeFails(h) ==
    /\ hpc[h] \in {"verify", "write"}
    /\ hpc' = [hpc EXCEPT ![h] = "failed"]
    /\ Fault
    /\ UNCHANGED <<password, token, expired, resetVars, confirmVars, current, new>>

-----------------------------------------------------------------------------
ResetStep(r)   == TakeSnapshot(r) \/ DeleteUnused(r) \/ InsertToken(r) \/ CommitReset(r)
ConfirmStep(c) == ClaimToken(c) \/ SetPassword(c) \/ CommitConfirm(c)
ChangeStep(h)  == VerifyCurrent(h) \/ WritePassword(h)

Next ==
    \/ \E r \in Resets : RequestReset(r) \/ ResetStep(r) \/ ResetFails(r) \/ Expire(r)
    \/ \E c \in Confirms :
          \/ ConfirmStep(c) \/ ConfirmFails(c)
          \/ \E t \in Resets, p \in Passwords : Confirm(c, t, p)
    \/ \E h \in Changes :
          \/ ChangeStep(h) \/ ChangeFails(h)
          \/ \E cur, p \in Passwords : ChangePassword(h, cur, p)

Spec == Init /\ [][Next]_vars

(* Statements end, one way or the other, once the rows they need are free. *)
Fairness ==
    /\ \A r \in Resets : WF_vars(ResetStep(r))
    /\ \A c \in Confirms : WF_vars(ConfirmStep(c))
    /\ \A h \in Changes : WF_vars(ChangeStep(h))

FairSpec == Spec /\ Fairness

-----------------------------------------------------------------------------
(* Properties. *)

(* "A token can never be consumed twice even under concurrent requests":   *)
(* at most one confirmation of a link is ever committed.                   *)
ConsumedOnce ==
    \A c, d \in wrote : link[c] = link[d] => c = d

(* "A failure partway through never leaves a used-but-ineffective token":  *)
(* a used link has set a password.                                         *)
UsedIsEffective ==
    \A t \in Resets : token[t] = "used" => \E c \in wrote : link[c] = t

(* The life of a link: it is issued once, and from then on it is used,     *)
(* superseded, or neither, for good.  In particular a link that a newer    *)
(* request has superseded is not used by a confirmation that was waiting.  *)
LinkLifeCycle ==
    [][\A t \in Resets : token'[t] # token[t] =>
          <<token[t], token'[t]>> \in {<<"none", "unused">>, <<"unused", "used">>,
                                       <<"unused", "deleted">>}]_vars

(* "Only the latest request is ever valid", but for races: two unused      *)
(* links at a time mean that neither was committed when the request for    *)
(* the other one looked for links to delete.                               *)
TwoLinksNeedRace ==
    \A r, s \in Unused : r # s => r \notin sees[s] /\ s \notin sees[r]

(* No request waits for ever for the rows of another: each one ends.       *)
RequestsEnd ==
    /\ \A r \in Resets : rpc[r] = "delete" ~> rpc[r] \in {"sent", "failed"}
    /\ \A c \in Confirms : cpc[c] = "claim" ~> cpc[c] \in {"done", "invalid", "failed"}
    /\ \A h \in Changes : hpc[h] = "verify" ~> hpc[h] \in {"done", "wrong", "failed"}
=============================================================================
