-------------------------------- MODULE MCApi ---------------------------------
(* Two types of account: a mobile number is short, a bank's may be longer. *)
(* An administrator of the highest tier and a user, or two administrators. *)
EXTENDS Api, TLC

CONSTANT Admin

MCFirstRoles == {[u \in Users |-> IF u = Admin THEN "super_admin" ELSE "user"],
                 [u \in Users |-> "admin"]}

MCTypes           == {"bank", "mobile_money"}
MCProvidersByType == [t \in MCTypes |-> IF t = "bank" THEN {"Equity Bank"} ELSE {"M-Pesa"}]
MCDigits          == ("short" :> 9) @@ ("long" :> 10) @@ ("letters" :> 0)

MCOpenings == {[type |-> "bank", provider |-> "Equity Bank", number |-> "long"],
               [type |-> "mobile_money", provider |-> "M-Pesa", number |-> "short"]}

MCChanges == {[type |-> "mobile_money", provider |-> "M-Pesa", number |-> "short"],
              [type |-> None, provider |-> "Equity Bank", number |-> None],
              [type |-> None, provider |-> None, number |-> "long"],
              [type |-> None, provider |-> None, number |-> "letters"]}

MCTogether == {{"accounts"}, {"money_plans"}, {"inbox"}}

Symmetric == Permutations(Calls)
=============================================================================
