-------------------------- MODULE MCImportPipeline --------------------------
(* Values for ImportPipeline: statements of a flat provider (two whose     *)
(* rows overlap, one its parser rejects, one that makes it raise), of      *)
(* Mentor Sacco (two sections, or one), and a provider without parser.     *)
EXTENDS ImportPipeline

MCProviders == {"NCBA Bank", "Mentor Sacco", "Airtel Money"}
MCPARSERS   == {"NCBA Bank"}

MCFlatRows ==
    [pf \in MCPARSERS \X Files |->
        CASE pf[2] = "march" -> {"h1", "h2"} [] pf[2] = "april" -> {"h2", "h3"} [] OTHER -> {}]

MCHeadings ==
    [f \in Files |-> CASE f = "sacco" -> {"Deposit", "Shares"}
                       [] f = "deposit" -> {"Deposit"} [] OTHER -> {}]

MCSectionRows ==
    [fn \in Files \X Names |->
        IF fn[2] \notin MCHeadings[fn[1]] THEN {}
        ELSE IF fn[2] = "Deposit" THEN {"h1", "h2"} ELSE {"h3"}]

(* The Mentor parser finds no section in another bank's file and does not  *)
(* complain; the flat parser misses its opening balance.                   *)
MCParseOutcome ==
    [pf \in (MCPARSERS \cup {"Mentor Sacco"}) \X Files |->
        CASE pf[2] = "scan" -> "error"
          [] pf[1] = "NCBA Bank" -> IF pf[2] \in {"march", "april"} THEN "ok" ELSE "rejected"
          [] OTHER -> "ok"]
=============================================================================
