------------------------------- MODULE ApiProofs -------------------------------
(***************************************************************************)
(* Proofs about the API.  Each component has an inductive invariant that   *)
(* its own steps preserve; the API's steps are steps of each component or  *)
(* leave it alone, so that its specification implements theirs and their   *)
(* theorems hold of it.                                                    *)
(***************************************************************************)
EXTENDS Api, FiniteSetTheorems, TLAPS

-----------------------------------------------------------------------------
(* Money plans. *)

(* What the answers of DELETE rest on: a plan is a draft or kept, and a    *)
(* request found no plan of its own to delete only where there is none or  *)
(* one that is kept.                                                       *)
MoneyPlansInv ==
    /\ MoneyPlansTypeOK
    /\ \A p \in PlanIds : plan[p] # None => p \in made /\ (plan[p].status = "draft" \/ p \in kept)
    /\ \A c \in Calls : deletion[c] # None =>
          /\ deletion[c].id \in made
          /\ deletion[c].step = "exists" => deletion[c].id \in kept \/ ~Own(c)
    /\ DeletionsAreTrue

LEMMA MoneyPlansStart == MoneyPlansInit => MoneyPlansInv
BY DEF MoneyPlansInit, MoneyPlansInv, MoneyPlansTypeOK, DeletionsAreTrue

LEMMA MoneyPlansPreserved ==
    MoneyPlansInv /\ [MoneyPlansNext]_moneyPlansVars => MoneyPlansInv'
<1> SUFFICES ASSUME MoneyPlansInv, [MoneyPlansNext]_moneyPlansVars PROVE MoneyPlansInv'
  OBVIOUS
<1> USE MoneyPlansAssumption DEF MoneyPlansInv, MoneyPlansTypeOK, DeletionsAreTrue, Own
<1>1. ASSUME NEW u \in Users, NEW p \in PlanIds, CreatePlan(u, p) PROVE MoneyPlansInv'
  BY <1>1 DEF CreatePlan, MoneyPlan, Deletion
<1>2. ASSUME NEW u \in Users, NEW p \in PlanIds, NEW c \in Calls, AskDelete(c, u, p)
      PROVE MoneyPlansInv'
  BY <1>2 DEF AskDelete, Deletion
<1>3. ASSUME NEW p \in PlanIds, NEW s \in {"converted", "archived"}, Settle(p, s)
      PROVE MoneyPlansInv'
  BY <1>3 DEF Settle, MoneyPlan, Deletion
<1>4. ASSUME NEW c \in Calls, DeleteDraft(c) PROVE MoneyPlansInv'
  BY <1>4 DEF DeleteDraft, Deletable, InStep, MoneyPlan, Deletion
<1>5. ASSUME NEW c \in Calls, TellWhy(c) PROVE MoneyPlansInv'
  BY <1>5 DEF TellWhy, InStep, MoneyPlan, Deletion
<1>6. CASE UNCHANGED moneyPlansVars
  BY <1>6 DEF moneyPlansVars
<1> QED
  BY <1>1, <1>2, <1>3, <1>4, <1>5, <1>6 DEF MoneyPlansNext, MoneyPlansSteps, MoneyPlansCalls

(* A kept plan is never deleted, and every answer of DELETE is and stays   *)
(* true (repositories/money_plans.py:81-99).                               *)
THEOREM DeletionsTrue == MoneyPlansSpec => []DeletionsAreTrue
<1>1. MoneyPlansInv => DeletionsAreTrue
  BY DEF MoneyPlansInv
<1> QED
  BY MoneyPlansStart, MoneyPlansPreserved, <1>1, PTL DEF MoneyPlansSpec

-----------------------------------------------------------------------------
(* Accounts. *)

(* What an update will write fits the type it read or brings with it. *)
AccountsInv ==
    /\ AccountsTypeOK
    /\ \A c \in Calls : edit[c] # None =>
          LET e == edit[c]
          IN  /\ Acceptable(e.change)
              /\ e.step = "write" =>
                    /\ OwnAccount(e.user, e.id)
                    /\ e.seen \in Types
                    /\ Valid(e.change, IF e.change.type # None THEN e.change.type ELSE e.seen)
    /\ MisfitNeedsRace
    /\ NumbersAreUnique

LEMMA AccountsStart == AccountsInit => AccountsInv
BY DEF AccountsInit, AccountsInv, AccountsTypeOK, MisfitNeedsRace, NumbersAreUnique

(* The written account fits when the account read was of the same type and *)
(* fitted.                                                                 *)
LEMMA EditedFits ==
    ASSUME NEW acc \in Account, NEW ch \in Update, Acceptable(ch), Fits(acc),
           Valid(ch, IF ch.type # None THEN ch.type ELSE acc.type)
    PROVE  Edited(acc, ch) \in Account /\ Fits(Edited(acc, ch))
BY AccountsAssumption
   DEF Account, Update, Acceptable, Fits, Valid, Edited, Given, ProviderFits, NumberFits

LEMMA EditedIsAccount ==
    ASSUME NEW acc \in Account, NEW ch \in Update
    PROVE  /\ Edited(acc, ch) \in Account
           /\ Edited(acc, ch).owner = acc.owner
           /\ Edited(acc, ch).number = IF ch.number # None THEN ch.number ELSE acc.number
BY AccountsAssumption DEF Account, Update, Edited, Given

LEMMA AccountsPreserved ==
    AccountsInv /\ [AccountsNext]_accountsVars => AccountsInv'
<1> SUFFICES ASSUME AccountsInv, [AccountsNext]_accountsVars PROVE AccountsInv'
  OBVIOUS
<1> USE AccountsAssumption, AccountRowAssumption
    DEF AccountsInv, AccountsTypeOK, OwnAccount
<1>1. ASSUME NEW u \in Users, NEW a \in AccountIds, NEW p \in Openings, CreateAccount(u, a, p)
      PROVE AccountsInv'
  BY <1>1 DEF CreateAccount, Opening, Account, Edit, NumberTaken, NumbersAreUnique,
              MisfitNeedsRace, Fits
<1>2. ASSUME NEW u \in Users, NEW a \in AccountIds, NEW c \in Calls, NEW ch \in Changes,
             AskEdit(c, u, a, ch)
      PROVE AccountsInv'
  BY <1>2 DEF AskEdit, Edit, MisfitNeedsRace, NumbersAreUnique
<1>3. ASSUME NEW u \in Users, NEW a \in AccountIds, Deactivate(u, a) PROVE AccountsInv'
  <2>1. /\ account[a] \in Account /\ account'[a] \in Account
        /\ account' = [account EXCEPT ![a] = account'[a]]
        /\ \A f \in {"owner", "type", "provider", "number"} : account'[a][f] = account[a][f]
        /\ edit' = edit /\ crossed' = crossed
    BY <1>3 DEF Deactivate, Account
  <2>2. Fits(account'[a]) <=> Fits(account[a])
    BY <2>1 DEF Account, Fits
  <2>3. MisfitNeedsRace' /\ NumbersAreUnique'
    BY <2>1, <2>2 DEF MisfitNeedsRace, NumbersAreUnique
  <2>4. \A d \in Calls : edit[d] # None /\ edit[d].step = "write"
          => OwnAccount(edit[d].user, edit[d].id)'
    BY <2>1 DEF Edit, Account
  <2> QED
    BY <2>1, <2>3, <2>4
<1>4. ASSUME NEW c \in Calls, ReadAccount(c) PROVE AccountsInv'
  <2> DEFINE e == edit[c]
             type == IF e.change.type # None THEN e.change.type ELSE account[e.id].type
             ok == OwnAccount(e.user, e.id) /\ Valid(e.change, type)
  <2>1. /\ e \in Edit /\ UNCHANGED <<account, crossed>>
        /\ edit' = [edit EXCEPT ![c] = edit'[c]]
        /\ IF ok THEN edit'[c] = [e EXCEPT !.step = "write", !.seen = account[e.id].type]
                 ELSE edit'[c] = [e EXCEPT !.step = "done"]
    BY <1>4 DEF ReadAccount
  <2>2. /\ edit'[c] \in Edit /\ edit'[c].change = e.change
        /\ edit'[c].user = e.user /\ edit'[c].id = e.id
        /\ edit'[c].step = "write" => ok /\ edit'[c].seen = account[e.id].type
    <3>1. CASE ok
      <4>1. account[e.id] \in Account /\ account[e.id].type \in Types
        BY <2>1, <3>1 DEF Edit, Account
      <4> HIDE DEF ok
      <4> QED
        BY <2>1, <3>1, <4>1 DEF Edit
    <3>2. CASE ~ok
      <4> HIDE DEF ok
      <4> QED
        BY <2>1, <3>2 DEF Edit
    <3> QED
      BY <3>1, <3>2
  <2>3. Acceptable(edit'[c].change)
    BY <2>1, <2>2, <1>4 DEF ReadAccount
  <2>4. edit'[c].step = "write" =>
          /\ OwnAccount(edit'[c].user, edit'[c].id)
          /\ edit'[c].seen \in Types
          /\ Valid(edit'[c].change, IF edit'[c].change.type # None THEN edit'[c].change.type
                                                                   ELSE edit'[c].seen)
    BY <2>1, <2>2 DEF Edit, Account
  <2>5. MisfitNeedsRace' /\ NumbersAreUnique'
    BY <2>1 DEF MisfitNeedsRace, NumbersAreUnique
  <2>6. AccountsTypeOK'
    BY <2>1, <2>2
  <2>7. \A d \in Calls : d # c => edit'[d] = edit[d]
    BY <2>1
  <2> QED
    BY <2>1, <2>3, <2>4, <2>5, <2>6, <2>7
<1>5. ASSUME NEW c \in Calls, WriteAccount(c) PROVE AccountsInv'
  <2> DEFINE e == edit[c]
  <2>1. /\ e \in Edit /\ e.change \in Update /\ account[e.id] \in Account
        /\ e.id \in AccountIds
    BY <1>5 DEF WriteAccount, Edit
  <2>2. CASE account' = account
    BY <1>5, <2>2 DEF WriteAccount, Edit, MisfitNeedsRace, NumbersAreUnique
  <2>3. CASE account' # account
    <3>1. /\ account' = [account EXCEPT ![e.id] = Edited(@, e.change)]
          /\ e.change.number # None => ~NumberTaken(e.change.number, e.id)
          /\ account[e.id].type # e.seen => e.id \in crossed'
          /\ crossed \subseteq crossed' /\ crossed' \subseteq AccountIds
      BY <1>5, <2>1, <2>3 DEF WriteAccount
    <3>2. account'[e.id] = Edited(account[e.id], e.change)
      BY <2>1, <3>1
    <3>3. account'[e.id] \in Account /\ account'[e.id].owner = account[e.id].owner
      BY <2>1, <3>2, EditedIsAccount
    <3>4. AccountsTypeOK'
      BY <1>5, <2>1, <3>1, <3>3 DEF WriteAccount, Edit
    <3>5. MisfitNeedsRace'
      <4>1. CASE account[e.id].type = e.seen /\ Fits(account[e.id])
        BY <1>5, <2>1, <3>1, <3>2, <4>1, EditedFits DEF WriteAccount, MisfitNeedsRace
      <4>2. CASE ~(account[e.id].type = e.seen /\ Fits(account[e.id]))
        BY <2>1, <3>1, <4>2 DEF MisfitNeedsRace
      <4> QED
        BY <4>1, <4>2
    <3>6. NumbersAreUnique'
      BY <2>1, <3>1, <3>2, EditedIsAccount DEF NumbersAreUnique, NumberTaken
    <3>7. \A d \in Calls : edit'[d] # None =>
            /\ Acceptable(edit'[d].change)
            /\ edit'[d].step = "write" =>
                 /\ edit[d] # None /\ edit[d] = edit'[d]
      BY <1>5, <2>1 DEF WriteAccount, Edit
    <3>8. \A d \in Calls : edit[d] # None /\ edit[d].step = "write"
            => OwnAccount(edit[d].user, edit[d].id)'
      BY <1>5, <2>1, <3>1, <3>3 DEF Edit, WriteAccount
    <3> QED
      BY <3>4, <3>5, <3>6, <3>7, <3>8
  <2> QED
    BY <2>2, <2>3
<1>6. CASE UNCHANGED accountsVars
  BY <1>6 DEF accountsVars, MisfitNeedsRace, NumbersAreUnique
<1> QED
  BY <1>1, <1>2, <1>3, <1>4, <1>5, <1>6 DEF AccountsNext, AccountsSteps, AccountsCalls

(* An account that does not fit its type was written by two overlapping    *)
(* updates, for any number of accounts, types and requests                 *)
(* (api/accounts.py:291-311).                                              *)
THEOREM Misfits == AccountsSpec => []MisfitNeedsRace
<1>1. AccountsInv => MisfitNeedsRace
  BY DEF AccountsInv
<1> QED
  BY AccountsStart, AccountsPreserved, <1>1, PTL DEF AccountsSpec

-----------------------------------------------------------------------------
(* Sessions. *)

(* What each step of a grant rests on, and what a support token implies of *)
(* the user it opens.                                                      *)
SessionsInv ==
    /\ SessionsTypeOK
    /\ TokensAreAudited
    /\ ChainNeedsPromotion
    /\ \A t \in tokens : t.by # None => role[t.sub] = "user" \/ t.sub \in raised
    /\ \A c \in Calls : grant[c] # None =>
          LET g == grant[c]
          IN  /\ g.tok \in tokens
              /\ g.step \in {"audit", "sign"} =>
                    g.target \in Users /\ (role[g.target] = "user" \/ g.target \in raised)
              /\ g.step = "sign" =>
                    /\ g.session \in SessionIds /\ audit[g.session] # None
                    /\ audit[g.session].admin = g.tok.sub
                    /\ audit[g.session].target = g.target

LEMMA TokenKinds ==
    /\ \A u \in Users : /\ LoginToken(u) \in Token
                         /\ LoginToken(u).by = None /\ LoginToken(u).session = None
    /\ \A s \in SessionIds, a, u \in Users, r \in BOOLEAN :
          LET t == SupportToken(s, a, u, r)
          IN  t \in Token /\ t.session = s /\ t.by = a /\ t.sub = u
BY DEF LoginToken, SupportToken, Token

LEMMA SessionsStart == SessionsInit => SessionsInv
<1> SUFFICES ASSUME SessionsInit PROVE SessionsInv
  OBVIOUS
<1> USE GateAssumption, SessionsAssumption DEF SessionsInit
<1>1. \A t \in tokens : t \in Token /\ t.by = None /\ t.session = None
  BY TokenKinds
<1>2. SessionsTypeOK
  BY <1>1 DEF SessionsTypeOK
<1> QED
  BY <1>1, <1>2 DEF SessionsInv, TokensAreAudited, ChainNeedsPromotion

LEMMA SessionsPreserved ==
    SessionsInv /\ [SessionsNext]_sessionsVars => SessionsInv'
<1> SUFFICES ASSUME SessionsInv, [SessionsNext]_sessionsVars PROVE SessionsInv'
  OBVIOUS
<1> USE GateAssumption, SessionsAssumption, AuditAssumption
    DEF SessionsInv, SessionsTypeOK, TokensAreAudited, ChainNeedsPromotion
<1>1. ASSUME NEW u \in Users, NEW r \in Roles, SetRole(u, r) PROVE SessionsInv'
  BY <1>1 DEF SetRole, Token, Grant
<1>2. ASSUME NEW c \in Calls, NEW t \in tokens, NEW target \in Users \cup {None},
             AskGrant(c, t, target)
      PROVE SessionsInv'
  BY <1>2 DEF AskGrant, Grant, Roles
<1>3. ASSUME NEW c \in Calls, RequireAdmin(c) PROVE SessionsInv'
  BY <1>3 DEF RequireAdmin, At, GoesTo, Grant, Token, Roles, AdminRoles
<1>4. ASSUME NEW c \in Calls, ReadTier(c) PROVE SessionsInv'
  <2>1. /\ grant[c] \in Grant /\ grant[c].step = "tier" /\ grant[c].tok.sub \in Users
        /\ role[grant[c].tok.sub] \in Roles
    BY <1>4 DEF ReadTier, At, Grant, Token
  <2>2. /\ grant' = [grant EXCEPT ![c] = grant'[c]]
        /\ grant'[c] = [grant[c] EXCEPT !.tier = role[grant[c].tok.sub], !.step = "target"]
        /\ UNCHANGED <<role, tokens, audit, raised, roleChanges>>
    BY <1>4 DEF ReadTier
  <2>3. /\ grant'[c] \in Grant /\ grant'[c].step = "target" /\ grant'[c].tok = grant[c].tok
    BY <2>1, <2>2 DEF Grant
  <2>4. SessionsTypeOK'
    BY <2>2, <2>3
  <2>5. \A d \in Calls : grant'[d] # None =>
          /\ grant[d] # None /\ grant'[d].tok = grant[d].tok
          /\ grant'[d] = grant[d] \/ (grant'[d].step = "target" /\ grant[d].step = "tier")
    BY <1>4, <2>1, <2>2, <2>3 DEF ReadTier, At
  <2>6. TokensAreAudited'
    BY <2>2
  <2>7. ChainNeedsPromotion'
    BY <2>2, <2>5
  <2> QED
    BY <2>2, <2>4, <2>5, <2>6, <2>7
<1>5. ASSUME NEW c \in Calls, CheckTarget(c) PROVE SessionsInv'
  BY <1>5 DEF CheckTarget, MayBeImpersonated, At, GoesTo, Grant, Token, Roles
<1>6. ASSUME NEW c \in Calls, NEW s \in SessionIds, WriteAudit(c, s) PROVE SessionsInv'
  BY <1>6 DEF WriteAudit, At, Grant, Token, AuditRow
<1>7. ASSUME NEW c \in Calls, SignToken(c) PROVE SessionsInv'
  <2> DEFINE g == grant[c]
             new == SupportToken(g.session, g.tok.sub, g.target, ReadOnly(g.tier))
  <2>1. /\ g \in Grant /\ g.step = "sign" /\ g.tok.sub \in Users /\ g.target \in Users
        /\ g.session \in SessionIds /\ audit[g.session] # None
        /\ audit[g.session].admin = g.tok.sub /\ audit[g.session].target = g.target
        /\ role[g.target] = "user" \/ g.target \in raised
        /\ g.tok \in tokens
    BY <1>7 DEF SignToken, At, Grant, Token
  <2>2. /\ new \in Token /\ new.session = g.session /\ new.by = g.tok.sub
        /\ new.sub = g.target
    <3>1. ReadOnly(g.tier) \in BOOLEAN
      BY DEF ReadOnly
    <3> QED
      BY <2>1, <3>1, TokenKinds
  <2>3. /\ grant' = [grant EXCEPT ![c] = grant'[c]]
        /\ grant'[c] = [g EXCEPT !.step = "done"]
        /\ tokens' = tokens \cup {new}
        /\ UNCHANGED <<role, audit, raised, roleChanges>>
    BY <1>7 DEF SignToken, GoesTo
  <2>4. grant'[c] \in Grant /\ grant'[c].step = "done" /\ grant'[c].tok = g.tok
    BY <2>1, <2>3 DEF Grant
  <2> HIDE DEF new
  <2>5. SessionsTypeOK'
    BY <2>2, <2>3, <2>4
  <2>6. TokensAreAudited'
    <3>1. \A t \in tokens' : t \in tokens \/ t = new
      BY <2>3
    <3> QED
      BY <2>1, <2>2, <2>3, <3>1
  <2>7. \A t \in tokens' : t.by # None => role'[t.sub] = "user" \/ t.sub \in raised'
    BY <2>1, <2>2, <2>3
  <2>8. \A d \in Calls : grant'[d] # None =>
          /\ grant[d] # None /\ grant'[d].tok \in tokens'
          /\ grant'[d].step # "done" => grant'[d] = grant[d]
    BY <1>7, <2>1, <2>3, <2>4 DEF SignToken, At
  <2>9. ChainNeedsPromotion'
    BY <2>3, <2>8
  <2> QED
    BY <2>3, <2>5, <2>6, <2>7, <2>8, <2>9
<1>8. ASSUME NEW c \in Calls, NEW t \in tokens, EndSession(c, t) PROVE SessionsInv'
  BY <1>8 DEF EndSession, StillOpen, Grant, Token, AuditRow
<1>9. CASE UNCHANGED sessionsVars
  BY <1>9 DEF sessionsVars
<1> QED
  BY <1>1, <1>2, <1>3, <1>4, <1>5, <1>6, <1>7, <1>8, <1>9
     DEF SessionsNext, GrantSteps, SessionsOutside, SessionsCalls

(* An impersonation is granted to the bearer of a support token only when  *)
(* the impersonated user was made an administrator during the race, and    *)
(* no token exists without its audit row (api/admin.py:96-122).            *)
THEOREM Chains == SessionsSpec => [](TokensAreAudited /\ ChainNeedsPromotion)
<1>1. SessionsInv => TokensAreAudited /\ ChainNeedsPromotion
  BY DEF SessionsInv
<1> QED
  BY SessionsStart, SessionsPreserved, <1>1, PTL DEF SessionsSpec

(* An audit row is never removed, and its end is recorded once             *)
(* (repositories/impersonation_audit.py:23).                               *)
LEMMA EndingStep ==
    ASSUME SessionsInv, [SessionsNext]_sessionsVars,
           NEW s \in SessionIds, audit[s] # None
    PROVE  audit'[s] # None /\ (audit[s].ended # None => audit'[s] = audit[s])
<1> USE AuditAssumption DEF SessionsInv, SessionsTypeOK
<1>1. ASSUME NEW c \in Calls, NEW r \in SessionIds, WriteAudit(c, r) PROVE audit'[s] = audit[s]
  BY <1>1 DEF WriteAudit
<1>2. ASSUME NEW c \in Calls, NEW t \in tokens, EndSession(c, t)
      PROVE audit'[s] # None /\ (audit[s].ended # None => audit'[s] = audit[s])
  BY <1>2 DEF EndSession, StillOpen, AuditRow
<1>3. CASE audit' = audit
  BY <1>3
<1> QED
  BY <1>1, <1>2, <1>3
     DEF SessionsNext, GrantSteps, SessionsOutside, SessionsCalls, sessionsVars, SetRole,
         AskGrant, RequireAdmin, ReadTier, CheckTarget, SignToken

(* A session that has ended keeps its end.                                 *)
THEOREM EndsOnceHolds == SessionsSpec => EndsOnce
<1>1. SessionsInv /\ [SessionsNext]_sessionsVars =>
        [\A s \in SessionIds :
            audit[s] # None =>
                /\ audit'[s] # None
                /\ audit[s].ended # None => audit'[s] = audit[s]]_sessionsVars
  BY EndingStep
<1> QED
  BY SessionsStart, SessionsPreserved, <1>1, PTL DEF SessionsSpec, EndsOnce

-----------------------------------------------------------------------------
(* The inbox: its types, and that a walk through the pages skips nothing.  *)
LEMMA PagesAreNotices ==
    ASSUME InboxTypeOK, NEW f \in Filters, NEW p \in Nat
    PROVE  Selected(f) \subseteq Notices /\ PageOf(Selected(f), p) \subseteq Notices
<1>1. Selected(f) \subseteq Notices
  BY InboxAssumption DEF InboxTypeOK, Filters, Selected, Present, Unread, Notices
<1> QED
  BY <1>1 DEF PageOf

LEMMA InboxPreserved == InboxTypeOK /\ [InboxNext]_inboxVars => InboxTypeOK'
<1> SUFFICES ASSUME InboxTypeOK, [InboxNext]_inboxVars PROVE InboxTypeOK'
  OBVIOUS
<1> USE InboxAssumption DEF InboxTypeOK
<1>1. CASE Arrive
  BY <1>1 DEF Arrive
<1>2. ASSUME NEW n \in Notices, MarkRead(n) PROVE InboxTypeOK'
  BY <1>2 DEF MarkRead, Present
<1>3. ASSUME NEW c \in Calls, NEW f \in Filters, NEW p \in 1..LastPage, FetchPage(c, f, p)
      PROVE InboxTypeOK'
  <2>1. /\ Selected(f) \subseteq Notices /\ PageOf(Selected(f), p) \subseteq Notices
        /\ read \subseteq Notices
    BY PagesAreNotices DEF Notices
  <2> QED
    BY <1>3, <2>1 DEF FetchPage, Page
<1>4. CASE UNCHANGED inboxVars
  BY <1>4 DEF inboxVars
<1> QED
  BY <1>1, <1>2, <1>3, <1>4 DEF InboxNext

(* A notification's place in the listing: the newer one comes first, and   *)
(* whatever is added to the listing moves none of them forward.            *)
LEMMA NoticesFinite ==
    ASSUME NEW S \in SUBSET Notices
    PROVE  IsFiniteSet(S)
<1>1. IsFiniteSet(Notices)  BY InboxAssumption, FS_Interval DEF Notices
<1> QED  BY <1>1, FS_Subset

LEMMA PlaceFacts ==
    ASSUME NEW S \in SUBSET Notices
    PROVE  /\ Cardinality(S) \in Nat
           /\ \A n \in Notices : Place(n, S) \in 0..Cardinality(S)
           /\ \A n \in S : Place(n, S) >= 1
           /\ \A m, n \in S : m < n => Place(n, S) < Place(m, S)
<1> DEFINE From(n) == {m \in S : m >= n}
<1>1. IsFiniteSet(S)  BY NoticesFinite
<1>2. ASSUME NEW n \in Notices
      PROVE  IsFiniteSet(From(n)) /\ Place(n, S) = Cardinality(From(n)) /\ Place(n, S) \in Nat
             /\ Place(n, S) <= Cardinality(S) /\ Cardinality(S) \in Nat
  <2>1. From(n) \in SUBSET S  OBVIOUS
  <2>2. IsFiniteSet(From(n)) /\ Cardinality(From(n)) <= Cardinality(S)
    BY <1>1, <2>1, FS_Subset
  <2> QED  BY <1>1, <2>2, FS_CardinalityType DEF Place
<1>3. Cardinality(S) \in Nat  BY <1>1, FS_CardinalityType
<1>4. ASSUME NEW n \in S PROVE Place(n, S) >= 1
  <2>1. n \in Notices /\ n \in From(n)  BY DEF Notices
  <2> HIDE DEF From
  <2>2. Cardinality(From(n)) # 0  BY <1>2, <2>1, FS_EmptySet
  <2> QED  BY <1>2, <2>1, <2>2
<1>5. ASSUME NEW m \in S, NEW n \in S, m < n PROVE Place(n, S) < Place(m, S)
  <2>0. \A k \in S : k \in Int  BY DEF Notices
  <2>1. From(n) \in SUBSET From(m)
    <3>1. ASSUME NEW k \in S, k >= n PROVE k >= m  BY <1>5, <2>0, <3>1
    <3> QED  BY <3>1
  <2>2. m \in From(m) /\ m \notin From(n)  BY <1>5 DEF Notices
  <2>3. From(n) # From(m)  BY <2>2
  <2> HIDE DEF From
  <2>4. /\ Cardinality(From(n)) <= Cardinality(From(m))
        /\ Cardinality(From(n)) # Cardinality(From(m))
    <3>1. m \in Notices /\ IsFiniteSet(From(m))  BY <1>2
    <3> QED  BY <2>1, <2>3, <3>1, FS_Subset
  <2>5. m \in Notices /\ n \in Notices  OBVIOUS
  <2> QED  BY <1>2, <2>4, <2>5
<1>6. ASSUME NEW n \in Notices PROVE Place(n, S) \in 0..Cardinality(S)
  <2>1. Place(n, S) \in Nat /\ Place(n, S) <= Cardinality(S)  BY <1>2
  <2> QED  BY <1>3, <2>1
<1>7. \A m, n \in S : m < n => Place(n, S) < Place(m, S)  BY <1>5
<1> QED  BY <1>3, <1>4, <1>6, <1>7

LEMMA PlaceGrows ==
    ASSUME NEW T \in SUBSET Notices, NEW S \in SUBSET T, NEW n \in Notices
    PROVE  Place(n, S) <= Place(n, T)
<1> DEFINE U == {m \in T : m >= n}
<1>1. IsFiniteSet(U)  BY NoticesFinite
<1>2. {m \in S : m >= n} \in SUBSET U  OBVIOUS
<1> HIDE DEF U
<1>3. Cardinality({m \in S : m >= n}) <= Cardinality(U)  BY <1>1, <1>2, FS_Subset
<1> QED  BY <1>3 DEF Place, U

(* No place of the listing is empty: the places are as many as there are   *)
(* notifications, and no two share one.                                    *)
LEMMA PlaceTaken ==
    ASSUME NEW S \in SUBSET Notices, NEW q \in 1..Cardinality(S)
    PROVE  \E n \in S : Place(n, S) = q
<1> DEFINE Places == 1..Cardinality(S)
           f == [n \in S |-> Place(n, S)]
<1>1. Cardinality(S) \in Nat  BY PlaceFacts
<1>2. IsFiniteSet(Places) /\ Cardinality(Places) = Cardinality(S)
  BY <1>1, FS_Interval
<1>3. f \in [S -> Places]
  BY PlaceFacts
<1>4. \A m, n \in S : f[m] = f[n] => m = n
  <2> SUFFICES ASSUME NEW m \in S, NEW n \in S, f[m] = f[n], m # n PROVE FALSE
    OBVIOUS
  <2>1. m < n \/ n < m  BY DEF Notices
  <2>2. f[m] \in Places /\ f[n] \in Places  BY <1>3
  <2> QED  BY <1>1, <2>1, <2>2, PlaceFacts
<1> HIDE DEF f, Places
<1>5. f \in Injection(S, Places)
  BY <1>3, <1>4 DEF Injection, IsInjective
<1>6. f \in Surjection(S, Places)
  BY <1>2, <1>5, FS_Injection
<1>7. \E n \in S : f[n] = q
  BY <1>6 DEF Surjection, Places
<1> QED  BY <1>7 DEF f

(* A page of the listing is the part of its selection that it says it is.  *)
PagesHold ==
    \A c \in Calls : page[c] # None =>
        /\ page[c].number \in 1..LastPage
        /\ page[c].selected \subseteq Notices
        /\ page[c].items = PageOf(page[c].selected, page[c].number)

InboxInv == InboxTypeOK /\ PagesHold

LEMMA InboxStart == InboxInit => InboxInv
  BY InboxAssumption DEF InboxInit, InboxInv, InboxTypeOK, PagesHold

LEMMA PagesPreserved == InboxTypeOK /\ PagesHold /\ [InboxNext]_inboxVars => PagesHold'
<1> SUFFICES ASSUME InboxTypeOK, PagesHold, [InboxNext]_inboxVars PROVE PagesHold'
  OBVIOUS
<1>1. CASE UNCHANGED page
  BY <1>1 DEF PagesHold
<1>2. ASSUME NEW c \in Calls, NEW f \in Filters, NEW p \in 1..LastPage, FetchPage(c, f, p)
      PROVE PagesHold'
  <2>1. Selected(f) \subseteq Notices  BY PagesAreNotices DEF Notices
  <2> QED  BY <1>2, <2>1 DEF FetchPage, PagesHold, InboxTypeOK
<1> QED
  BY <1>1, <1>2 DEF InboxNext, Arrive, MarkRead, inboxVars

(* What the first of two pages in a row leaves over is on the second one,  *)
(* or before the first or after the second.                                *)
LEMMA NothingBetween ==
    ASSUME NEW T \in SUBSET Notices, NEW S \in SUBSET T, NEW p \in Nat \ {0},
           NEW n \in S, n \notin PageOf(S, p), n \notin PageOf(T, p + 1),
           PageOf(S, p) # {}
    PROVE  \/ p > 1 /\ \E m \in PageOf(S, p) : n > m
           \/ PageOf(T, p + 1) # {} /\ \A m \in PageOf(T, p + 1) : n < m
<1>1. PICK first \in Nat, last \in Nat, end \in Nat :
         /\ first = (p - 1) * PageSize + 1 /\ last = p * PageSize /\ end = (p + 1) * PageSize
         /\ first <= last /\ last < end /\ (p = 1 => first = 1) /\ p + 1 - 1 = p
  <2>1. /\ p = (p - 1) + 1 /\ p - 1 \in Nat /\ PageSize \in Nat \ {0} /\ p + 1 - 1 = p
    BY InboxAssumption
  <2>2. ASSUME NEW k \in Nat PROVE (k + 1) * PageSize = k * PageSize + PageSize /\ k * PageSize \in Nat
    BY <2>1
  <2>3. /\ p * PageSize = (p - 1) * PageSize + PageSize
        /\ (p + 1) * PageSize = p * PageSize + PageSize
        /\ (p - 1) * PageSize \in Nat /\ p * PageSize \in Nat /\ (p + 1) * PageSize \in Nat
    BY <2>1, <2>2
  <2>4. p = 1 => (p - 1) * PageSize = 0  BY <2>1
  <2> QED  BY <2>1, <2>3, <2>4
<1>2. /\ PageOf(S, p) = {m \in S : Place(m, S) \in first..last}
      /\ PageOf(T, p + 1) = {m \in T : Place(m, T) \in (last + 1)..end}
  BY <1>1 DEF PageOf
<1>3. /\ Cardinality(T) \in Nat
      /\ \A m \in S : Place(m, S) \in Nat /\ Place(m, S) >= 1
      /\ \A m \in T : Place(m, T) \in Nat /\ Place(m, T) <= Cardinality(T)
  BY PlaceFacts
<1>4. CASE Place(n, S) < first
  <2>1. PICK m \in S : Place(m, S) \in first..last  BY <1>2
  <2>2. p # 1  BY <1>1, <1>3, <1>4
  <2>3. n > m
    <3>1. m \in Notices /\ n \in Notices /\ Place(n, S) < Place(m, S)  BY <1>3, <1>4, <2>1
    <3>2. ~(n < m) /\ n # m  BY <1>3, <3>1, PlaceFacts
    <3> QED  BY <3>1, <3>2 DEF Notices
  <2> QED  BY <1>2, <2>1, <2>2, <2>3
<1>5. CASE Place(n, S) > last
  <2>1. Place(n, T) > last  BY <1>3, <1>5, PlaceGrows
  <2>2. Place(n, T) > end  BY <1>1, <1>2, <1>3, <2>1
  <2>3. ASSUME NEW m \in PageOf(T, p + 1) PROVE n < m
    <3>1. m \in T /\ Place(m, T) < Place(n, T) /\ m \in Notices /\ n \in Notices
      BY <1>2, <1>3, <2>2
    <3>2. ~(m < n) /\ n # m  BY <1>3, <3>1, PlaceFacts
    <3> QED  BY <3>1, <3>2 DEF Notices
  <2>4. PICK m \in T : Place(m, T) = end
    <3>1. end \in 1..Cardinality(T)  BY <1>1, <1>3, <2>2
    <3> QED  BY <3>1, PlaceTaken
  <2>5. m \in PageOf(T, p + 1)  BY <1>1, <1>2, <2>4
  <2> QED  BY <2>3, <2>5
<1>6. n \in S /\ Place(n, S) \notin first..last  BY <1>2
<1> QED  BY <1>1, <1>3, <1>4, <1>5, <1>6

LEMMA PagesSkipNothing == PagesHold => SkipNeedsReading
<1> SUFFICES ASSUME PagesHold, NEW c \in Calls, NEW d \in Calls, Fetched(c), Fetched(d),
                    page[d].number = page[c].number + 1, page[c].selected \subseteq page[d].selected,
                    NEW n \in page[c].selected \ (page[c].items \cup page[d].items),
                    page[c].items # {}
             PROVE  \/ page[c].number > 1 /\ \E m \in page[c].items : n > m
                    \/ page[d].items # {} /\ \A m \in page[d].items : n < m
  BY DEF SkipNeedsReading
<1>1. /\ page[c].number \in Nat \ {0}
      /\ page[d].selected \in SUBSET Notices
      /\ page[c].items = PageOf(page[c].selected, page[c].number)
      /\ page[d].items = PageOf(page[d].selected, page[c].number + 1)
  BY InboxAssumption DEF PagesHold, Fetched
<1> QED  BY <1>1, NothingBetween

(* Two pages in a row, of whichever filter, skip nothing although alerts   *)
(* arrive between them, as long as nothing is marked as read               *)
(* (notifications.py:193): for any page size and any number of pages.      *)
THEOREM PagesSkip == InboxSpec => []SkipNeedsReading
<1>1. InboxInv /\ [InboxNext]_inboxVars => InboxInv'
  BY InboxPreserved, PagesPreserved DEF InboxInv
<1>2. InboxInv => SkipNeedsReading  BY PagesSkipNothing DEF InboxInv
<1> QED  BY InboxStart, <1>1, <1>2, PTL DEF InboxSpec

-----------------------------------------------------------------------------
(* The composition.  A request that is more than an entry came through the *)
(* gate with a token that may change things.                               *)
Gated ==
    \A c \in Calls :
        (edit[c] # None \/ deletion[c] # None \/ grant[c] # None)
            => bearer[c] # None /\ ~bearer[c].readOnly

ApiInv ==
    /\ SessionsInv /\ AccountsInv /\ MoneyPlansInv /\ InboxTypeOK
    /\ bearer \in [Calls -> Token \cup {None}]
    /\ inUse \in Together
    /\ Gated

LEMMA ApiStart == Init => ApiInv
<1> SUFFICES ASSUME Init PROVE ApiInv
  OBVIOUS
<1>1. SessionsInv /\ AccountsInv /\ MoneyPlansInv
  BY SessionsStart, AccountsStart, MoneyPlansStart DEF Init
<1>2. InboxTypeOK
  BY InboxAssumption DEF Init, InboxInit, InboxTypeOK
<1>3. Gated
  BY DEF Init, Gated, SessionsInit, AccountsInit, MoneyPlansInit
<1> QED
  BY <1>1, <1>2, <1>3 DEF Init, ApiInv

LEMMA ApiTypes == ApiInv => TypeOK
BY DEF ApiInv, TypeOK, SessionsInv, AccountsInv, MoneyPlansInv

(* Every step of the API is a step of each component or leaves it alone.   *)
LEMMA ApiSteps ==
    ASSUME TypeOK, [Next]_vars
    PROVE  /\ [SessionsNext]_sessionsVars
           /\ [AccountsNext]_accountsVars
           /\ [MoneyPlansNext]_moneyPlansVars
           /\ [InboxNext]_inboxVars
<1>0. \A t \in tokens : t.sub \in Users
  BY DEF TypeOK, SessionsTypeOK, Token
<1>1. ASSUME NEW c \in Calls, NEW t \in tokens, SessionsCall(c, t)
      PROVE SessionsNext /\ UNCHANGED <<accountsVars, moneyPlansVars, inboxVars>>
  BY <1>1 DEF SessionsCall, SessionsNext, SessionsCalls
<1>2. ASSUME NEW c \in Calls, NEW t \in tokens, AccountsCall(c, t)
      PROVE AccountsNext /\ UNCHANGED <<sessionsVars, moneyPlansVars, inboxVars>>
  BY <1>0, <1>2 DEF AccountsCall, AccountsNext, AccountsCalls
<1>3. ASSUME NEW c \in Calls, NEW t \in tokens, MoneyPlansCall(c, t)
      PROVE MoneyPlansNext /\ UNCHANGED <<sessionsVars, accountsVars, inboxVars>>
  BY <1>0, <1>3 DEF MoneyPlansCall, MoneyPlansNext, MoneyPlansCalls
<1>4. ASSUME NEW c \in Calls, NEW t \in tokens, InboxCall(c, t)
      PROVE InboxNext /\ UNCHANGED <<sessionsVars, accountsVars, moneyPlansVars>>
  BY <1>4 DEF InboxCall, InboxNext
<1>5. CASE Handlers
  BY <1>5 DEF Handlers, SessionsNext, AccountsNext, MoneyPlansNext, InboxNext
<1>6. CASE UNCHANGED vars
  BY <1>6 DEF vars
<1> QED
  BY <1>1, <1>2, <1>3, <1>4, <1>5, <1>6 DEF Next

(* An entry: the request c opens with t, and unless t is read-only it may  *)
(* begin the work of one component; the other requests are untouched.      *)
LEMMA EntryStep ==
    ASSUME TypeOK, NEW c \in Calls, NEW t \in tokens,
           SessionsCall(c, t) \/ AccountsCall(c, t) \/ MoneyPlansCall(c, t) \/ InboxCall(c, t)
    PROVE  /\ bearer[c] = None /\ bearer' = [bearer EXCEPT ![c] = t]
           /\ \A d \in Calls \ {c} :
                 edit'[d] = edit[d] /\ deletion'[d] = deletion[d] /\ grant'[d] = grant[d]
                 /\ page'[d] = page[d]
           /\ t.readOnly => UNCHANGED <<tables, tokens, grant, edit, deletion>>
<1> USE DEF TypeOK, SessionsTypeOK, AccountsTypeOK, MoneyPlansTypeOK, InboxTypeOK,
            Enters, LetsThrough, SafeMethods, tables
<1>1. CASE SessionsCall(c, t)
  BY <1>1 DEF SessionsCall, AskGrant, EndSession, accountsVars, moneyPlansVars, inboxVars
<1>2. CASE AccountsCall(c, t)
  BY <1>2 DEF AccountsCall, CreateAccount, AskEdit, Deactivate, sessionsVars, moneyPlansVars,
              inboxVars
<1>3. CASE MoneyPlansCall(c, t)
  BY <1>3 DEF MoneyPlansCall, CreatePlan, AskDelete, sessionsVars, accountsVars, inboxVars
<1>4. CASE InboxCall(c, t)
  BY <1>4 DEF InboxCall, MarkRead, FetchPage, sessionsVars, accountsVars, moneyPlansVars
<1> QED
  BY <1>1, <1>2, <1>3, <1>4

(* A handler's step goes on with a request that has begun, or with none.   *)
LEMMA HandlerStep ==
    ASSUME TypeOK, Handlers
    PROVE  \A d \in Calls :
             /\ grant'[d] # grant[d] => grant[d] # None
             /\ edit'[d] # edit[d] => edit[d] # None
             /\ deletion'[d] # deletion[d] => deletion[d] # None
             /\ page'[d] = page[d]
<1> USE DEF TypeOK, SessionsTypeOK, AccountsTypeOK, MoneyPlansTypeOK
<1>1. CASE GrantSteps /\ UNCHANGED <<accountsVars, moneyPlansVars, inboxVars>>
  BY <1>1 DEF GrantSteps, RequireAdmin, ReadTier, CheckTarget, SignToken, WriteAudit, At, GoesTo,
              accountsVars, moneyPlansVars, inboxVars
<1>2. CASE SessionsOutside /\ UNCHANGED <<accountsVars, moneyPlansVars, inboxVars>>
  BY <1>2 DEF SessionsOutside, SetRole, accountsVars, moneyPlansVars, inboxVars
<1>3. CASE AccountsSteps /\ UNCHANGED <<sessionsVars, moneyPlansVars, inboxVars>>
  BY <1>3 DEF AccountsSteps, ReadAccount, WriteAccount, sessionsVars, moneyPlansVars, inboxVars
<1>4. CASE MoneyPlansSteps /\ UNCHANGED <<sessionsVars, accountsVars, inboxVars>>
  BY <1>4 DEF MoneyPlansSteps, DeleteDraft, TellWhy, Settle, InStep, sessionsVars, accountsVars,
              inboxVars
<1>5. CASE Arrive /\ UNCHANGED <<sessionsVars, accountsVars, moneyPlansVars>>
  BY <1>5 DEF Arrive, sessionsVars, accountsVars, moneyPlansVars
<1> QED
  BY <1>1, <1>2, <1>3, <1>4, <1>5 DEF Handlers

LEMMA GatedPreserved == TypeOK /\ Gated /\ [Next]_vars => Gated'
<1> SUFFICES ASSUME TypeOK, Gated, [Next]_vars PROVE Gated'
  OBVIOUS
<1>1. ASSUME NEW c \in Calls, NEW t \in tokens,
             SessionsCall(c, t) \/ AccountsCall(c, t) \/ MoneyPlansCall(c, t) \/ InboxCall(c, t)
      PROVE Gated'
  <2>1. /\ bearer[c] = None /\ t \in Token /\ t # None
        /\ \A d \in Calls \ {c} : bearer'[d] = bearer[d]
        /\ bearer'[c] = t
    BY <1>1, EntryStep, GateAssumption DEF TypeOK, SessionsTypeOK
  <2>2. edit[c] = None /\ deletion[c] = None /\ grant[c] = None
    BY <2>1 DEF Gated
  <2> QED
    BY <1>1, <2>1, <2>2, EntryStep DEF Gated
<1>2. CASE Handlers /\ bearer' = bearer
  BY <1>2, HandlerStep DEF Gated
<1>3. CASE UNCHANGED vars
  BY <1>3 DEF vars, sessionsVars, accountsVars, moneyPlansVars, Gated
<1> QED
  BY <1>1, <1>2, <1>3 DEF Next

LEMMA ApiPreserved == ApiInv /\ [Next]_vars => ApiInv'
<1> SUFFICES ASSUME ApiInv, [Next]_vars PROVE ApiInv'
  OBVIOUS
<1>1. TypeOK /\ Gated
  BY ApiTypes DEF ApiInv
<1>2. SessionsInv' /\ AccountsInv' /\ MoneyPlansInv' /\ InboxTypeOK'
  BY <1>1, ApiSteps, SessionsPreserved, AccountsPreserved, MoneyPlansPreserved, InboxPreserved
     DEF ApiInv
<1>3. Gated'
  BY <1>1, GatedPreserved
<1>4. bearer' \in [Calls -> Token \cup {None}]
  BY <1>1 DEF TypeOK, SessionsTypeOK, Next, SessionsCall, AccountsCall, MoneyPlansCall, InboxCall,
              Enters, vars
<1>5. inUse' \in Together
  BY <1>1 DEF TypeOK, Next, vars
<1> QED
  BY <1>2, <1>3, <1>4, <1>5 DEF ApiInv

(* Everything the API's state promises, whatever requests interleave: its  *)
(* types, DELETE answers that are true (money_plans.py), accounts that fit *)
(* their type unless two updates raced (accounts.py), unique numbers,      *)
(* audited tokens and no chain of impersonations (admin.py).               *)
THEOREM ApiInvariants ==
    Spec => [](/\ TypeOK
               /\ DeletionsAreTrue
               /\ MisfitNeedsRace
               /\ NumbersAreUnique
               /\ TokensAreAudited
               /\ ChainNeedsPromotion)
<1>1. ApiInv => /\ TypeOK /\ DeletionsAreTrue /\ MisfitNeedsRace /\ NumbersAreUnique
                /\ TokensAreAudited /\ ChainNeedsPromotion
  BY ApiTypes DEF ApiInv, SessionsInv, AccountsInv, MoneyPlansInv
<1> QED
  BY ApiStart, ApiPreserved, <1>1, PTL DEF Spec

(* The composition implements each of its components: what is proved of    *)
(* one alone holds of it inside the API.                                   *)
THEOREM ApiImplementsComponents ==
    Spec => SessionsSpec /\ AccountsSpec /\ MoneyPlansSpec /\ InboxSpec
<1>1. Init => SessionsInit /\ AccountsInit /\ MoneyPlansInit /\ InboxInit
  BY DEF Init
<1>2. ApiInv /\ [Next]_vars => /\ [SessionsNext]_sessionsVars /\ [AccountsNext]_accountsVars
                              /\ [MoneyPlansNext]_moneyPlansVars /\ [InboxNext]_inboxVars
  BY ApiTypes, ApiSteps
<1> QED
  BY ApiStart, ApiPreserved, <1>1, <1>2, PTL
     DEF Spec, SessionsSpec, AccountsSpec, MoneyPlansSpec, InboxSpec

(* The end of a session is recorded once in the API as a whole too.        *)
THEOREM ApiEndsOnce == Spec => EndsOnce
BY ApiImplementsComponents, EndsOnceHolds

(* In the API as a whole, the pages a user walks skip nothing either.      *)
THEOREM ApiPagesSkip == Spec => []SkipNeedsReading
BY ApiImplementsComponents, PagesSkip

LEMMA ReadOnlyStep ==
    ASSUME TypeOK, Gated, [Next]_vars, NEW c \in Calls,
           Moves(c), bearer'[c] # None, bearer'[c].readOnly
    PROVE  UNCHANGED <<tables, tokens, grant>>
<1>1. ASSUME NEW d \in Calls, NEW t \in tokens,
             SessionsCall(d, t) \/ AccountsCall(d, t) \/ MoneyPlansCall(d, t) \/ InboxCall(d, t)
      PROVE UNCHANGED <<tables, tokens, grant>>
  <2>1. d = c /\ bearer'[c] = t
    BY <1>1, EntryStep DEF Moves, TypeOK
  <2> QED
    BY <1>1, <2>1, EntryStep
<1>2. CASE Handlers /\ bearer' = bearer
  <2>1. grant[c] = None /\ edit[c] = None /\ deletion[c] = None
    BY <1>2 DEF Gated
  <2> QED
    BY <1>2, <2>1, HandlerStep DEF Moves
<1>3. CASE UNCHANGED vars
  BY <1>3 DEF vars, sessionsVars, accountsVars, moneyPlansVars, inboxVars, Moves
<1> QED
  BY <1>1, <1>2, <1>3 DEF Next

(* A read-only support session changes nothing, in any step of any handler *)
(* of the API (security.py:68-73).                                         *)
THEOREM ReadOnlyHolds == Spec => ReadOnlyChangesNothing
<1>1. ApiInv /\ [Next]_vars =>
        [\A c \in Calls :
            Moves(c) /\ bearer'[c] # None /\ bearer'[c].readOnly
                => UNCHANGED <<tables, tokens, grant>>]_vars
  BY ApiTypes, ReadOnlyStep DEF ApiInv
<1> QED
  BY ApiStart, ApiPreserved, <1>1, PTL DEF Spec, ReadOnlyChangesNothing
================================================================================
