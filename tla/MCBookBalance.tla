---------------------------- MODULE MCBookBalance ----------------------------
(* Values for BookBalance: a flat account with two movements on one day,   *)
(* and a Sacco account.  Its loans come under one heading, the new one     *)
(* first, although the old one has the older rows.                         *)
EXTENDS BookBalance, TLC

Move(s, d, x) == [seq |-> s, day |-> d, delta |-> x]

MCProviders == {"NCBA Bank", "Mentor Sacco"}
MCFlat   == <<Move("main", 1, 2), Move("main", 1, -1), Move("main", 2, 4)>>
MCLedger ==
    [p \in MCProviders |->
        IF p = "NCBA Bank" THEN MCFlat
        ELSE <<Move("deposit", 1, 2), Move("new loan", 2, 8)>>]
MCTwoLoans ==
    [p \in MCProviders |->
        IF p = "NCBA Bank" THEN MCFlat
        ELSE <<Move("old loan", 1, -1), Move("new loan", 2, 8)>>]

MCSections ==
    [p \in MCProviders |->
        IF p = "NCBA Bank" THEN <<"main">> ELSE <<"deposit", "new loan">>]
MCTwoLoanSections ==
    [p \in MCProviders |->
        IF p = "NCBA Bank" THEN <<"main">> ELSE <<"deposit", "new loan", "old loan">>]

MCSequences == {"main", "deposit", "new loan", "old loan"}
MCStart  == [s \in MCSequences |-> IF s = "new loan" THEN 0 ELSE 16]

CONSTANTS l1, l2
MCBookOf == [s \in MCSequences |-> CASE s = "main" -> None [] s = "deposit" -> l1 [] OTHER -> l2]
MCAtFirst ==
    {[l \in SubLedgers |-> None],
     [l \in SubLedgers |-> IF l = l1 THEN "addition" ELSE "deduction"]}

ImportSymmetry == Permutations(Imports)
=============================================================================
