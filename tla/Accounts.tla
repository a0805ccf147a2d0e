------------------------------- MODULE Accounts -------------------------------
(***************************************************************************)
(* The accounts themselves (api/accounts.py, repositories/accounts.py):    *)
(* creation, the partial update, deactivation.  A provider belongs to one  *)
(* type of account and a number is short or long enough for some types     *)
(* only.  The update validates the fields it is given against the account  *)
(* it read, and then writes just those fields; nothing locks the row in    *)
(* between.  Nickname and currency take no part and are left out.          *)
(***************************************************************************)
EXTENDS AuthGate, Naturals

CONSTANTS AccountIds, Types, MobileMoney, Providers,
          ProvidersByType,    \* the providers of each type
          Numbers,
          Digits,             \* the digits of a number; 0 is not all digits
          Changes,            \* bound: the payloads of updates that are tried
          Openings            \* bound: the payloads of creations

MobileNumberLength == 9
MaxNumberLength    == 20

Update  == [type : Types \cup {None}, provider : Providers \cup {None},
            number : Numbers \cup {None}]
Opening == [type : Types, provider : Providers, number : Numbers]

ASSUME AccountsAssumption ==
    /\ None \notin Types /\ None \notin Providers /\ None \notin Numbers
    /\ MobileMoney \in Types
    /\ ProvidersByType \in [Types -> SUBSET Providers]
    /\ Digits \in [Numbers -> Nat]
    /\ Changes \subseteq Update /\ Openings \subseteq Opening

VARIABLES
    account,   \* the accounts, None before they are created
    edit,      \* the updates under way, with the type they read
    crossed    \* history: written after another update had changed the type

accountsVars == <<account, edit, crossed>>

Account == [owner : Users, type : Types, provider : Providers, number : Numbers,
            active : BOOLEAN]
Edit    == [user : Users, id : AccountIds, change : Update, seen : Types \cup {None},
            step : {"read", "write", "done"}]

ASSUME AccountRowAssumption == None \notin Account

AccountsTypeOK ==
    /\ account \in [AccountIds -> Account \cup {None}]
    /\ edit \in [Calls -> Edit \cup {None}]
    /\ crossed \subseteq AccountIds

AccountsInit ==
    /\ account = [a \in AccountIds |-> None]
    /\ edit = [c \in Calls |-> None]
    /\ crossed = {}

-----------------------------------------------------------------------------
(* _validate_provider and _validate_account_number. *)

ProviderFits(type, provider) == provider \in ProvidersByType[type]

NumberFits(type, number) ==
    /\ Digits[number] > 0
    /\ IF type = MobileMoney THEN Digits[number] = MobileNumberLength
                             ELSE Digits[number] <= MaxNumberLength

(* The unique index of the table (UniqueViolationError): "An account with  *)
(* that number already exists".                                            *)
NumberTaken(number, a) ==
    \E b \in AccountIds \ {a} : account[b] # None /\ account[b].number = number

CreateAccount(u, a, p) ==
    /\ ProviderFits(p.type, p.provider) /\ NumberFits(p.type, p.number)
    /\ account[a] = None /\ ~NumberTaken(p.number, a)
    /\ account' = [account EXCEPT ![a] = [owner |-> u, type |-> p.type, provider |-> p.provider,
                                          number |-> p.number, active |-> TRUE]]
    /\ UNCHANGED <<edit, crossed>>

-----------------------------------------------------------------------------
(* PATCH /accounts/{id} *)

OwnAccount(u, a) == account[a] # None /\ account[a].owner = u

(* The payload alone: a new type comes with a provider and a number. *)
Acceptable(ch) == ch.type # None => ch.provider # None /\ ch.number # None

AskEdit(c, u, a, ch) ==
    /\ edit[c] = None /\ Acceptable(ch)
    /\ edit' = [edit EXCEPT ![c] = [user |-> u, id |-> a, change |-> ch, seen |-> None,
                                    step |-> "read"]]
    /\ UNCHANGED <<account, crossed>>

(* A bug: fields are validated only when the type comes with them. *)
Wrong_TypeChangesOnly(ch, type) ==
    ch.type # None => ProviderFits(type, ch.provider) /\ NumberFits(type, ch.number)

Valid(ch, type) ==
    /\ ch.provider # None => ProviderFits(type, ch.provider)
    /\ ch.number # None => NumberFits(type, ch.number)

(* get_account, and validation against the type the account will have: 404 *)
(* or 422 end the request.                                                 *)
ReadAccount(c) ==
    /\ edit[c] # None /\ edit[c].step = "read"
    /\ LET e == edit[c]
           type == IF e.change.type # None THEN e.change.type ELSE account[e.id].type
           ok == OwnAccount(e.user, e.id) /\ Valid(e.change, type)
       IN  edit' = IF ok THEN [edit EXCEPT ![c].step = "write", ![c].seen = account[e.id].type]
                         ELSE [edit EXCEPT ![c].step = "done"]
    /\ UNCHANGED <<account, crossed>>

Given(new, old) == IF new # None THEN new ELSE old

Edited(acc, ch) ==
    [acc EXCEPT !.type = Given(ch.type, @), !.provider = Given(ch.provider, @),
                !.number = Given(ch.number, @)]

(* update_account: the given fields, or 409 when the number is taken. *)
WriteAccount(c) ==
    /\ edit[c] # None /\ edit[c].step = "write"
    /\ LET e == edit[c]
           refused == e.change.number # None /\ NumberTaken(e.change.number, e.id)
       IN  /\ account' = IF refused THEN account
                         ELSE [account EXCEPT ![e.id] = Edited(@, e.change)]
           /\ crossed' = IF ~refused /\ account[e.id].type # e.seen
                         THEN crossed \cup {e.id} ELSE crossed
    /\ edit' = [edit EXCEPT ![c].step = "done"]

(* deactivate_account: idempotent, and nothing activates an account again. *)
Deactivate(u, a) ==
    /\ OwnAccount(u, a)
    /\ account' = [account EXCEPT ![a].active = FALSE]
    /\ UNCHANGED <<edit, crossed>>

-----------------------------------------------------------------------------
AccountsSteps == \E c \in Calls : ReadAccount(c) \/ WriteAccount(c)

AccountsCalls ==
    \E u \in Users, a \in AccountIds :
        \/ \E p \in Openings : CreateAccount(u, a, p)
        \/ \E c \in Calls, ch \in Changes : AskEdit(c, u, a, ch)
        \/ Deactivate(u, a)

AccountsNext == AccountsSteps \/ AccountsCalls

AccountsSpec == AccountsInit /\ [][AccountsNext]_accountsVars

-----------------------------------------------------------------------------
Fits(acc) == ProviderFits(acc.type, acc.provider) /\ NumberFits(acc.type, acc.number)

(* An account whose provider or number does not fit its type, which would  *)
(* have its statements read by another institution's parser, comes from    *)
(* two updates that overlapped, one of them changing the type between the  *)
(* other's read and write (api/accounts.py:291-311); from no sequence of   *)
(* partial updates, however long.                                          *)
MisfitNeedsRace ==
    \A a \in AccountIds :
        account[a] # None /\ ~Fits(account[a]) => a \in crossed

(* No two accounts have one number, updates under way included. *)
NumbersAreUnique ==
    \A a, b \in AccountIds :
        a # b /\ account[a] # None /\ account[b] # None
            => account[a].number # account[b].number
=============================================================================
