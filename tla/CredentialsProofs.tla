-------------------------- MODULE CredentialsProofs --------------------------
(***************************************************************************)
(* Theorems about Credentials, for any number of requests of each kind and *)
(* any number of faults: what the row locks and the transactions give.     *)
(***************************************************************************)
EXTENDS Credentials, TLAPS

Holding == {"set", "commit"}

(* The locks: a link is claimed by one confirmation or deleted by one      *)
(* request, and never both.                                                *)
Exclusive ==
    /\ \A c, d \in Confirms :
          cpc[c] \in Holding /\ cpc[d] \in Holding /\ link[c] = link[d] => c = d
    /\ \A r \in Resets, c \in Confirms : cpc[c] \in Holding => link[c] \notin Doomed(r)
    /\ \A r, s \in Resets : \A t \in Doomed(r) \cap Doomed(s) : r = s

(* A link is issued when its request commits, after those it saw.          *)
Issued ==
    /\ \A r \in Resets : rpc[r] \notin {"sent", "failed"} => token[r] = "none"
    /\ \A s \in Resets : \A t \in sees[s] : token[t] # "none"
    /\ \A s \in Resets : token[s] # "none" => \A t \in sees[s] : token[t] \in {"used", "deleted"}

(* Used links and committed confirmations correspond.                      *)
Consumed ==
    /\ \A c \in wrote : cpc[c] \in {"done", "failed"} /\ token[link[c]] = "used"
    /\ ConsumedOnce
    /\ UsedIsEffective

IInv == TypeOK /\ Exclusive /\ Issued /\ Consumed

-----------------------------------------------------------------------------
LEMMA InitHolds == Init => IInv
PROOF BY ConstantsAssumption DEF Init, IInv, TypeOK, RPc, CPc, HPc, Exclusive, Holding, Doomed, Unused,
         Issued, Consumed, ConsumedOnce, UsedIsEffective

(* Steps that commit nothing and take no lock. *)
LEMMA QuietSteps ==
    ASSUME IInv, TypeOK',
           UNCHANGED <<token, sees, link, wrote>>,
           \A c \in Confirms : cpc'[c] \in Holding => cpc[c] \in Holding,
           \A c \in wrote : cpc'[c] = cpc[c],
           \A r \in Resets : rpc'[r] \in {"insert", "commit"} => rpc[r] \in {"insert", "commit"},
           \A r \in Resets : rpc'[r] \notin {"sent", "failed"} => rpc[r] \notin {"sent", "failed"}
    PROVE  IInv'
PROOF
<1>1. \A r \in Resets : Doomed(r)' \subseteq Doomed(r)
  BY DEF Doomed, Unused
<1>2. Exclusive'
  BY <1>1 DEF IInv, Exclusive
<1>3. Issued'
  BY DEF IInv, Issued
<1>4. Consumed'
  BY DEF IInv, Consumed, ConsumedOnce, UsedIsEffective
<1> QED
  BY <1>2, <1>3, <1>4 DEF IInv

LEMMA RequestStep ==
    ASSUME IInv, NEW r \in Resets, RequestReset(r) \/ InsertToken(r) \/ ResetFails(r)
    PROVE  IInv'
PROOF
<1>1. TypeOK'
  <2>1. rpc' \in [Resets -> RPc] /\ faults' \in 0..MaxFaults
    BY ConstantsAssumption DEF IInv, TypeOK, RPc, RequestReset, InsertToken, ResetFails, Fault
  <2>2. UNCHANGED <<password, token, expired, sees, confirmVars, changeVars, new>>
    BY DEF RequestReset, InsertToken, ResetFails
  <2> QED
    BY <2>1, <2>2 DEF IInv, TypeOK, confirmVars, changeVars
<1>2. \A s \in Resets : /\ rpc'[s] \in {"insert", "commit"} => rpc[s] \in {"insert", "commit"}
                        /\ rpc'[s] \notin {"sent", "failed"} => rpc[s] \notin {"sent", "failed"}
  BY DEF IInv, TypeOK, RequestReset, InsertToken, ResetFails
<1> QED
  BY <1>1, <1>2, QuietSteps DEF RequestReset, InsertToken, ResetFails, confirmVars, changeVars

(* The snapshot holds issued links; its own request has none yet. *)
LEMMA SnapshotStep ==
    ASSUME IInv, NEW r \in Resets, TakeSnapshot(r)
    PROVE  IInv'
PROOF
<1> USE DEF TakeSnapshot, confirmVars, changeVars
<1>1. TypeOK'
  BY DEF IInv, TypeOK, RPc, Unused
<1>2. \A s \in Resets : Doomed(s)' = Doomed(s)
  BY DEF IInv, TypeOK, Doomed, Unused
<1>3. Exclusive'
  BY <1>2 DEF IInv, Exclusive
<1>4. sees' = [sees EXCEPT ![r] = Unused] /\ token' = token /\ token[r] = "none"
  BY DEF IInv, TypeOK, Issued
<1>5. Issued'
  BY <1>4 DEF IInv, TypeOK, Issued, Unused
<1>6. Consumed'
  BY DEF IInv, Consumed, ConsumedOnce, UsedIsEffective
<1> QED
  BY <1>1, <1>3, <1>5, <1>6 DEF IInv

(* The DELETE has waited for whoever held its rows. *)
LEMMA DeleteStep ==
    ASSUME IInv, NEW r \in Resets, DeleteUnused(r)
    PROVE  IInv'
PROOF
<1> USE DEF DeleteUnused, confirmVars, changeVars
<1>1. TypeOK'
  BY DEF IInv, TypeOK, RPc
<1>2. \A s \in Resets \ {r} : Doomed(s)' = Doomed(s)
  BY DEF IInv, TypeOK, Doomed, Unused
<1>3. Doomed(r)' \subseteq sees[r]
  BY DEF IInv, TypeOK, Doomed
<1>4. \A t \in sees[r] : /\ \A s \in Resets : t \notin Doomed(s)
                         /\ \A c \in Confirms : cpc[c] \in Holding => link[c] # t
  BY DEF Locked, Claimed, Holding
<1>5. Exclusive'
  BY <1>2, <1>3, <1>4 DEF IInv, Exclusive
<1>6. Issued'
  BY DEF IInv, TypeOK, Issued
<1>7. Consumed'
  BY DEF IInv, Consumed, ConsumedOnce, UsedIsEffective
<1> QED
  BY <1>1, <1>5, <1>6, <1>7 DEF IInv

(* Nobody holds the rows that this commit deletes, and its own link is new. *)
LEMMA CommitResetStep ==
    ASSUME IInv, NEW r \in Resets, CommitReset(r)
    PROVE  /\ IInv'
           /\ \A t \in Resets : token'[t] # token[t] =>
                 <<token[t], token'[t]>> \in {<<"none", "unused">>, <<"unused", "deleted">>}
PROOF
<1>1. token[r] = "none" /\ rpc[r] = "commit"
  BY DEF IInv, Issued, CommitReset
<1>2. \A t \in Resets : token'[t] = IF t = r THEN "unused" ELSE IF t \in Doomed(r) THEN "deleted" ELSE token[t]
  BY DEF CommitReset
<1>3. Doomed(r) = sees[r] \cap Unused
  BY <1>1 DEF Doomed
<1>4. \A t \in Doomed(r) : token[t] = "unused"
  BY <1>3 DEF Unused
<1>5. \A c \in Confirms : cpc[c] \in Holding => token'[link[c]] = "unused"
  <2> SUFFICES ASSUME NEW c \in Confirms, cpc[c] \in Holding
               PROVE  token'[link[c]] = "unused"
    OBVIOUS
  <2>1. link[c] \in Resets /\ token[link[c]] = "unused" /\ link[c] \notin Doomed(r)
    BY DEF IInv, TypeOK, Exclusive, Holding
  <2> QED
    BY <1>1, <1>2, <2>1
<1>6. TypeOK'
  <2>1. token' \in [Resets -> {"none", "unused", "used", "deleted"}]
    BY DEF IInv, TypeOK, CommitReset
  <2>2. rpc' \in [Resets -> RPc] /\ faults' \in 0..MaxFaults
    BY ConstantsAssumption DEF IInv, TypeOK, RPc, CommitReset, Fault
  <2>3. UNCHANGED <<password, expired, sees, confirmVars, changeVars, new>>
    BY DEF CommitReset
  <2>4. \A c \in Confirms : cpc[c] \in {"set", "commit"} => token'[link[c]] = "unused"
    BY <1>5 DEF Holding
  <2> QED
    BY <2>1, <2>2, <2>3, <2>4 DEF IInv, TypeOK, confirmVars, changeVars
<1>7. rpc'[r] \in {"sent", "failed"} /\ \A s \in Resets \ {r} : rpc'[s] = rpc[s]
  BY DEF IInv, TypeOK, CommitReset
<1>8. UNCHANGED <<sees, link, wrote, cpc>>
  BY DEF CommitReset, confirmVars
<1>9. \A s \in Resets : Doomed(s)' \subseteq Doomed(s)
  <2> SUFFICES ASSUME NEW s \in Resets, NEW t \in Doomed(s)' PROVE t \in Doomed(s)
    OBVIOUS
  <2>1. s # r /\ rpc[s] \in {"insert", "commit"} /\ t \in sees[s] /\ t \in Resets /\ token'[t] = "unused"
    BY <1>7, <1>8 DEF Doomed, Unused
  <2>2. token[t] # "none"
    BY <2>1 DEF IInv, Issued
  <2>3. token[t] = "unused"
    BY <1>1, <1>2, <2>1, <2>2
  <2> QED
    BY <2>1, <2>3 DEF Doomed, Unused
<1>10. Exclusive'
  BY <1>8, <1>9 DEF IInv, Exclusive
<1>11. \A s \in Resets : \A t \in sees[s] : t \in Resets /\ token[t] # "none" /\ t # r
  BY <1>1 DEF IInv, TypeOK, Issued
<1>12. Issued'
  <2>1. \A s \in Resets : rpc'[s] \notin {"sent", "failed"} => token'[s] = "none"
    BY <1>2, <1>4, <1>7 DEF IInv, Issued
  <2>2. \A s \in Resets : \A t \in sees[s] : token'[t] # "none"
    BY <1>2, <1>11
  <2>3. ASSUME NEW s \in Resets, token'[s] # "none", NEW t \in sees[s]
        PROVE  token'[t] \in {"used", "deleted"}
    <3>1. CASE s = r
      <4>1. token[t] \in {"unused", "used", "deleted"}
        BY <1>11 DEF IInv, TypeOK
      <4>2. token[t] = "unused" => t \in Doomed(r)
        BY <1>3, <1>11, <3>1, <2>3 DEF Unused
      <4> QED
        BY <1>2, <1>11, <4>1, <4>2
    <3>2. CASE s # r
      <4>1. token[s] # "none"
        BY <1>2, <1>4, <2>3, <3>2
      <4>2. token[t] \in {"used", "deleted"}
        BY <4>1, <2>3 DEF IInv, Issued
      <4> QED
        BY <1>2, <1>11, <4>2, <2>3
    <3> QED
      BY <3>1, <3>2
  <2> QED
    BY <1>8, <2>1, <2>2, <2>3 DEF Issued
<1>13. \A t \in Resets : (token'[t] = "used") <=> (token[t] = "used")
  BY <1>1, <1>2, <1>4
<1>14. \A c \in wrote : link[c] \in Resets /\ c \in Confirms
  BY DEF IInv, TypeOK, Consumed
<1>15. Consumed'
  BY <1>8, <1>13, <1>14 DEF IInv, Consumed, ConsumedOnce, UsedIsEffective
<1>16. \A t \in Resets : token'[t] # token[t] =>
          <<token[t], token'[t]>> \in {<<"none", "unused">>, <<"unused", "deleted">>}
  BY <1>1, <1>2, <1>4
<1> QED
  BY <1>6, <1>10, <1>12, <1>15, <1>16 DEF IInv

-----------------------------------------------------------------------------
LEMMA ConfirmStart ==
    ASSUME IInv, NEW c \in Confirms, NEW t \in Resets, NEW p \in Passwords, Confirm(c, t, p)
    PROVE  IInv'
PROOF
<1> USE DEF Confirm, resetVars, changeVars
<1>1. TypeOK'
  BY DEF IInv, TypeOK, CPc
<1>2. \A d \in Confirms : cpc'[d] \in Holding => cpc[d] \in Holding /\ link'[d] = link[d]
  BY DEF IInv, TypeOK, Holding
<1>3. \A s \in Resets : Doomed(s)' = Doomed(s)
  BY DEF Doomed, Unused
<1>4. Exclusive'
  BY <1>2, <1>3 DEF IInv, Exclusive
<1>5. Issued'
  BY DEF IInv, Issued
<1>6. c \notin wrote /\ \A d \in wrote : d \in Confirms /\ cpc'[d] = cpc[d] /\ link'[d] = link[d]
  BY DEF IInv, TypeOK, Consumed
<1>7. Consumed'
  BY <1>6 DEF IInv, Consumed, ConsumedOnce, UsedIsEffective
<1> QED
  BY <1>1, <1>4, <1>5, <1>7 DEF IInv

(* A link is claimed once nobody holds it, and only while it is unused. *)
LEMMA ClaimStep ==
    ASSUME IInv, NEW c \in Confirms, ClaimToken(c)
    PROVE  IInv'
PROOF
<1> USE DEF ClaimToken, resetVars, changeVars
<1>1. TypeOK'
  BY DEF IInv, TypeOK, CPc, Usable
<1>2. /\ \A r \in Resets : link[c] \notin Doomed(r)
      /\ \A d \in Confirms : cpc[d] \in Holding => link[d] # link[c]
  BY DEF Locked, Claimed, Holding
<1>3. \A d \in Confirms : d # c => cpc'[d] = cpc[d]
  BY DEF IInv, TypeOK
<1>4. \A s \in Resets : Doomed(s)' = Doomed(s)
  BY DEF Doomed, Unused
<1>5. Exclusive'
  BY <1>2, <1>3, <1>4 DEF IInv, Exclusive
<1>6. Issued'
  BY DEF IInv, Issued
<1>7. c \notin wrote
  BY DEF IInv, Consumed
<1>8. Consumed'
  BY <1>3, <1>7 DEF IInv, TypeOK, Consumed, ConsumedOnce, UsedIsEffective
<1> QED
  BY <1>1, <1>5, <1>6, <1>8 DEF IInv

LEMMA PasswordSteps ==
    ASSUME IInv, NEW c \in Confirms, SetPassword(c) \/ ConfirmFails(c)
    PROVE  IInv'
PROOF
<1>1. UNCHANGED <<password, token, expired, sees, rpc, link, wrote, new, hpc, current>>
  BY DEF SetPassword, ConfirmFails, RolledBack, resetVars, changeVars
<1>2. cpc' \in [Confirms -> CPc] /\ faults' \in 0..MaxFaults
  BY ConstantsAssumption DEF IInv, TypeOK, CPc, SetPassword, ConfirmFails, Fault
<1>3. \A d \in Confirms : /\ cpc'[d] \in Holding => cpc[d] \in Holding
                          /\ cpc'[d] # "idle" => cpc[d] # "idle"
  BY DEF IInv, TypeOK, Holding, SetPassword, ConfirmFails
<1>4. TypeOK'
  BY <1>1, <1>2, <1>3 DEF IInv, TypeOK, Holding
<1>5. ASSUME c \in wrote
      PROVE  ConfirmFails(c) /\ FALSE
  BY <1>5 DEF IInv, Consumed, SetPassword, ConfirmFails
<1>6. \A d \in wrote : cpc'[d] = cpc[d]
  BY <1>5 DEF IInv, TypeOK, SetPassword, ConfirmFails
<1> QED
  BY <1>1, <1>3, <1>4, <1>6, QuietSteps

(* The commit of the one confirmation that holds the link. *)
LEMMA CommitConfirmStep ==
    ASSUME IInv, NEW c \in Confirms, CommitConfirm(c)
    PROVE  /\ IInv'
           /\ \A t \in Resets : token'[t] # token[t] =>
                 <<token[t], token'[t]>> = <<"unused", "used">>
PROOF
<1>1. cpc[c] = "commit" /\ link[c] \in Resets /\ new[c] \in Passwords /\ token[link[c]] = "unused"
  BY DEF IInv, TypeOK, CommitConfirm
<1>2. \A t \in Resets : token'[t] = IF t = link[c] THEN "used" ELSE token[t]
  BY <1>1 DEF IInv, TypeOK, CommitConfirm
<1>3. UNCHANGED <<rpc, sees, link>> /\ wrote' = wrote \cup {c}
  BY DEF CommitConfirm, resetVars
<1>4. cpc'[c] \in {"done", "failed"} /\ \A d \in Confirms : d # c => cpc'[d] = cpc[d]
  BY DEF IInv, TypeOK, CommitConfirm
<1>5. \A d \in Confirms : cpc'[d] \in Holding => cpc[d] \in Holding /\ link[d] # link[c] /\ link[d] \in Resets
  BY <1>1, <1>4 DEF IInv, TypeOK, Exclusive, Holding
<1>6. TypeOK'
  <2>1. token' \in [Resets -> {"none", "unused", "used", "deleted"}] /\ password' \in Passwords
    BY <1>1 DEF IInv, TypeOK, CommitConfirm
  <2>2. cpc' \in [Confirms -> CPc] /\ faults' \in 0..MaxFaults
    BY ConstantsAssumption DEF IInv, TypeOK, CPc, CommitConfirm, Fault
  <2>3. \A d \in Confirms : cpc'[d] \in {"set", "commit"} => token'[link[d]] = "unused"
    BY <1>2, <1>5 DEF IInv, TypeOK, Holding
  <2>4. \A d \in Confirms : (link[d] \in Resets /\ new[d] \in Passwords) \/ cpc'[d] = "idle"
    BY <1>1, <1>4 DEF IInv, TypeOK
  <2>5. UNCHANGED <<expired, changeVars, new>>
    BY DEF CommitConfirm
  <2> QED
    BY <1>3, <2>1, <2>2, <2>3, <2>4, <2>5 DEF IInv, TypeOK, changeVars
<1>7. \A s \in Resets : Doomed(s)' \subseteq Doomed(s)
  BY <1>2, <1>3 DEF Doomed, Unused
<1>8. Exclusive'
  BY <1>3, <1>5, <1>7 DEF IInv, Exclusive
<1>9. Issued'
  <2>1. \A s \in Resets : token'[s] = "none" <=> token[s] = "none"
    BY <1>1, <1>2
  <2>2. \A s \in Resets : \A t \in sees[s] : t \in Resets
    BY DEF IInv, TypeOK
  <2> QED
    BY <1>2, <1>3, <2>1, <2>2 DEF IInv, Issued
<1>10. \A d \in wrote : /\ d \in Confirms /\ d # c /\ link[d] # link[c]
                        /\ token[link[d]] = "used" /\ cpc[d] \in {"done", "failed"}
  BY <1>1 DEF IInv, TypeOK, Consumed
<1>11. \A d \in wrote : token'[link[d]] = "used"
  BY <1>10 DEF CommitConfirm, IInv, TypeOK
<1>12. Consumed'
  <2>1. \A d \in wrote' : cpc'[d] \in {"done", "failed"} /\ token'[link'[d]] = "used"
    BY <1>1, <1>2, <1>3, <1>4, <1>10, <1>11
  <2>2. ConsumedOnce'
    BY <1>3, <1>10 DEF IInv, Consumed, ConsumedOnce
  <2>3. UsedIsEffective'
    BY <1>2, <1>3 DEF IInv, Consumed, UsedIsEffective
  <2> QED
    BY <2>1, <2>2, <2>3 DEF Consumed
<1> QED
  BY <1>1, <1>2, <1>6, <1>8, <1>9, <1>12 DEF IInv

-----------------------------------------------------------------------------
LEMMA OtherSteps ==
    ASSUME IInv,
           \/ \E h \in Changes : \/ ChangeStep(h) \/ ChangeFails(h)
                                \/ \E cur, p \in Passwords : ChangePassword(h, cur, p)
           \/ \E r \in Resets : Expire(r)
           \/ UNCHANGED vars
    PROVE  IInv' /\ UNCHANGED token
PROOF
<1>1. UNCHANGED <<token, resetVars, confirmVars>>
  BY DEF ChangeStep, VerifyCurrent, WritePassword, ChangeFails, ChangePassword, Expire, vars
<1>2. TypeOK'
  <2>1. ASSUME NEW h \in Changes, NEW cur \in Passwords, NEW p \in Passwords, ChangePassword(h, cur, p)
        PROVE  TypeOK'
    <3>1. /\ hpc' \in [Changes -> HPc] /\ current' \in [Changes -> Passwords \cup {None}]
          /\ new' \in [Confirms \cup Changes -> Passwords \cup {None}]
      BY <2>1 DEF IInv, TypeOK, HPc, ChangePassword
    <3>2. \A c \in Confirms : cpc[c] # "idle" => new'[c] \in Passwords
      BY <2>1 DEF IInv, TypeOK, ChangePassword
    <3>3. \A g \in Changes : hpc'[g] # "idle" => current'[g] \in Passwords /\ new'[g] \in Passwords
      BY <2>1 DEF IInv, TypeOK, ChangePassword
    <3> QED
      BY <1>1, <2>1, <3>1, <3>2, <3>3 DEF IInv, TypeOK, ChangePassword, resetVars, confirmVars
  <2>2. ASSUME NEW h \in Changes, ChangeStep(h) \/ ChangeFails(h)
        PROVE  TypeOK'
    <3>1. hpc' \in [Changes -> HPc] /\ faults' \in 0..MaxFaults /\ password' \in Passwords
      BY <2>2, ConstantsAssumption DEF IInv, TypeOK, HPc, ChangeStep, VerifyCurrent, WritePassword, ChangeFails, Fault
    <3>2. \A g \in Changes : hpc'[g] # "idle" => hpc[g] # "idle"
      BY <2>2 DEF IInv, TypeOK, ChangeStep, VerifyCurrent, WritePassword, ChangeFails
    <3>3. UNCHANGED <<expired, current, new>>
      BY <2>2 DEF ChangeStep, VerifyCurrent, WritePassword, ChangeFails
    <3> QED
      BY <1>1, <3>1, <3>2, <3>3 DEF IInv, TypeOK, resetVars, confirmVars
  <2>3. ASSUME NEW r \in Resets, Expire(r)
        PROVE  TypeOK'
    BY <2>3, ConstantsAssumption DEF IInv, TypeOK, Expire, Fault, resetVars, confirmVars, changeVars
  <2>4. CASE UNCHANGED vars
    BY <2>4 DEF IInv, TypeOK, vars, resetVars, confirmVars, changeVars
  <2> QED
    BY <2>1, <2>2, <2>3, <2>4
<1> QED
  BY <1>1, <1>2, QuietSteps DEF resetVars, confirmVars

LinkStep ==
    \A t \in Resets : token'[t] # token[t] =>
        <<token[t], token'[t]>> \in {<<"none", "unused">>, <<"unused", "used">>, <<"unused", "deleted">>}

LEMMA Inductive == IInv /\ [Next]_vars => IInv' /\ LinkStep
PROOF
<1> SUFFICES ASSUME IInv, [Next]_vars PROVE IInv' /\ LinkStep
  OBVIOUS
<1>1. ASSUME NEW r \in Resets, RequestReset(r) \/ ResetStep(r) \/ ResetFails(r)
      PROVE  IInv' /\ LinkStep
  <2>1. CASE RequestReset(r) \/ InsertToken(r) \/ ResetFails(r)
    BY <2>1, RequestStep DEF LinkStep, RequestReset, InsertToken, ResetFails
  <2>2. CASE TakeSnapshot(r)
    BY <2>2, SnapshotStep DEF LinkStep, TakeSnapshot
  <2>3. CASE DeleteUnused(r)
    BY <2>3, DeleteStep DEF LinkStep, DeleteUnused
  <2>4. CASE CommitReset(r)
    BY <2>4, CommitResetStep DEF LinkStep
  <2> QED
    BY <1>1, <2>1, <2>2, <2>3, <2>4 DEF ResetStep
<1>2. ASSUME NEW c \in Confirms, ConfirmStep(c) \/ ConfirmFails(c)
      PROVE  IInv' /\ LinkStep
  <2>1. CASE ClaimToken(c)
    BY <2>1, ClaimStep DEF LinkStep, ClaimToken
  <2>2. CASE SetPassword(c) \/ ConfirmFails(c)
    BY <2>2, PasswordSteps DEF LinkStep, SetPassword, ConfirmFails, RolledBack
  <2>3. CASE CommitConfirm(c)
    BY <2>3, CommitConfirmStep DEF LinkStep
  <2> QED
    BY <1>2, <2>1, <2>2, <2>3 DEF ConfirmStep
<1>3. ASSUME NEW c \in Confirms, NEW t \in Resets, NEW p \in Passwords, Confirm(c, t, p)
      PROVE  IInv' /\ LinkStep
  BY <1>3, ConfirmStart DEF LinkStep, Confirm
<1>4. CASE \/ \E h \in Changes : \/ ChangeStep(h) \/ ChangeFails(h)
                                \/ \E cur, p \in Passwords : ChangePassword(h, cur, p)
           \/ \E r \in Resets : Expire(r)
           \/ UNCHANGED vars
  BY <1>4, OtherSteps DEF LinkStep
<1> QED
  BY <1>1, <1>2, <1>3, <1>4 DEF Next

LEMMA InvariantHolds == Spec => []IInv
PROOF
<1>1. IInv /\ [Next]_vars => IInv'
  BY Inductive
<1> QED
  BY InitHolds, <1>1, PTL DEF Spec

(* The types, and that a link someone has claimed is still unused. *)
THEOREM TypeCorrect == Spec => []TypeOK
PROOF BY InvariantHolds, PTL DEF IInv

(* Each link is consumed by one confirmation at most, however many are     *)
(* sent at once, and a used one has set a password, whatever fails.        *)
THEOREM LinksWorkOnce == Spec => [](ConsumedOnce /\ UsedIsEffective)
PROOF
<1>1. IInv => ConsumedOnce /\ UsedIsEffective
  BY DEF IInv, Consumed
<1> QED
  BY InvariantHolds, <1>1, PTL

(* Two valid links are due to a race of their requests: a request deletes  *)
(* every unused link that it saw, or finds it used or deleted.             *)
THEOREM OnlyRacesLeaveTwo == Spec => []TwoLinksNeedRace
PROOF
<1>1. IInv => TwoLinksNeedRace
  BY DEF IInv, Issued, TwoLinksNeedRace, Unused
<1> QED
  BY InvariantHolds, <1>1, PTL

(* No way back in the life of a link. *)
THEOREM LinksEnd == Spec => LinkLifeCycle
PROOF
<1>1. IInv /\ [Next]_vars => [LinkStep]_vars
  BY Inductive
<1>2. Spec => [][LinkStep]_vars
  BY InvariantHolds, <1>1, PTL DEF Spec
<1> QED
  BY <1>2 DEF LinkLifeCycle, LinkStep
=============================================================================
