--------------------------------- MODULE Api ----------------------------------
(***************************************************************************)
(* The authenticated API as one system: sessions, accounts, money plans    *)
(* and the inbox, each request entering through the gate of AuthGate with  *)
(* a token that is good at that moment, and then running its component's   *)
(* handler call by call.  Requests of all kinds interleave.                *)
(***************************************************************************)
EXTENDS Sessions, Accounts, MoneyPlans, Inbox

CONSTANT Together   \* bound: the sets of components besides sessions in use at once

Components == {"accounts", "money_plans", "inbox"}

ASSUME TogetherAssumption == Together \subseteq SUBSET Components

VARIABLES
    bearer,   \* the token each request came with
    inUse     \* the components that are used in this behaviour

vars == <<sessionsVars, accountsVars, moneyPlansVars, inboxVars, bearer, inUse>>

(* What the requests of the components change besides their own progress. *)
tables == <<role, account, plan, arrived, read>>

TypeOK ==
    /\ SessionsTypeOK /\ AccountsTypeOK /\ MoneyPlansTypeOK /\ InboxTypeOK
    /\ bearer \in [Calls -> Token \cup {None}]
    /\ inUse \in Together

Init ==
    /\ SessionsInit /\ AccountsInit /\ MoneyPlansInit /\ InboxInit
    /\ bearer = [c \in Calls |-> None]
    /\ inUse \in Together

(* get_auth_context: a signed token opens a request. *)
Enters(c, t) ==
    /\ t \in tokens /\ bearer[c] = None
    /\ bearer' = [bearer EXCEPT ![c] = t]

-----------------------------------------------------------------------------
SessionsCall(c, t) ==
    /\ Enters(c, t)
    /\ \/ \E target \in Users \cup {None} : AskGrant(c, t, target)
       \/ EndSession(c, t)
    /\ UNCHANGED <<accountsVars, moneyPlansVars, inboxVars>>

AccountsCall(c, t) ==
    /\ "accounts" \in inUse /\ Enters(c, t)
    /\ \E a \in AccountIds :
          \/ LetsThrough(t, "POST") /\ \E p \in Openings : CreateAccount(t.sub, a, p)
          \/ LetsThrough(t, "PATCH") /\ \E ch \in Changes : AskEdit(c, t.sub, a, ch)
          \/ LetsThrough(t, "POST") /\ Deactivate(t.sub, a)
    /\ UNCHANGED <<sessionsVars, moneyPlansVars, inboxVars>>

MoneyPlansCall(c, t) ==
    /\ "money_plans" \in inUse /\ Enters(c, t)
    /\ \E p \in PlanIds :
          \/ LetsThrough(t, "POST") /\ CreatePlan(t.sub, p)
          \/ LetsThrough(t, "DELETE") /\ AskDelete(c, t.sub, p)
    /\ UNCHANGED <<sessionsVars, accountsVars, inboxVars>>

InboxCall(c, t) ==
    /\ "inbox" \in inUse /\ Enters(c, t) /\ t.sub = Reader
    /\ \/ LetsThrough(t, "PATCH") /\ \E n \in Notices : MarkRead(n)
       \/ LetsThrough(t, "GET") /\ \E f \in Filters, p \in 1..LastPage : FetchPage(c, f, p)
    /\ UNCHANGED <<sessionsVars, accountsVars, moneyPlansVars>>

Handlers ==
    \/ (GrantSteps \/ SessionsOutside) /\ UNCHANGED <<accountsVars, moneyPlansVars, inboxVars>>
    \/ AccountsSteps /\ UNCHANGED <<sessionsVars, moneyPlansVars, inboxVars>>
    \/ MoneyPlansSteps /\ UNCHANGED <<sessionsVars, accountsVars, inboxVars>>
    \/ "inbox" \in inUse /\ Arrive /\ UNCHANGED <<sessionsVars, accountsVars, moneyPlansVars>>

Next ==
    /\ \/ \E c \in Calls, t \in tokens :
             \/ SessionsCall(c, t) \/ AccountsCall(c, t)
             \/ MoneyPlansCall(c, t) \/ InboxCall(c, t)
       \/ Handlers /\ bearer' = bearer
    /\ inUse' = inUse

Spec == Init /\ [][Next]_vars

-----------------------------------------------------------------------------
(* The request a step belongs to: its token or its progress changes. *)
Moves(c) ==
    \/ bearer'[c] # bearer[c] \/ grant'[c] # grant[c] \/ edit'[c] # edit[c]
    \/ deletion'[c] # deletion[c] \/ page'[c] # page[c]

(* A read-only support session never changes anything of the user it looks *)
(* at, in whichever router and in whichever of its handler's steps         *)
(* (security.py:68-73), and opens no session of its own.                   *)
ReadOnlyChangesNothing ==
    [][\A c \in Calls :
          Moves(c) /\ bearer'[c] # None /\ bearer'[c].readOnly
              => UNCHANGED <<tables, tokens, grant>>]_vars
=============================================================================
