-------------------------- MODULE ImportLifecycle ---------------------------
(***************************************************************************)
(* What the statement-import pipeline promises to the owner of an account: *)
(* the life of each import and what it may do to the account's book.       *)
(*                                                                         *)
(*   - an import posts rows only while it is pending, all on one account;  *)
(*   - a row already on the account, from whichever import, is not posted  *)
(*     a second time and never changes hands;                              *)
(*   - an import rejected for a stated reason has posted nothing;          *)
(*   - an unexpected failure is the last word, and may come after rows     *)
(*     were posted, even after the import was reported as parsed.          *)
(***************************************************************************)
CONSTANTS Imports, Accounts, Hashes

VARIABLES
    state,  \* "absent", "pending", "parsed", "rejected" or "failed"
    book    \* the rows on the accounts, each with the import that posted it

vars == <<state, book>>

Row == [account : Accounts, hash : Hashes, import : Imports]

Init ==
    /\ state = [i \in Imports |-> "absent"]
    /\ book = {}

PostedBy(i) == {r \in book : r.import = i}

Move(i, from, to) ==
    /\ state[i] \in from
    /\ state' = [state EXCEPT ![i] = to]
    /\ UNCHANGED book

Submit(i) == Move(i, {"absent"}, "pending")
Settle(i) == Move(i, {"pending"}, "parsed")
Reject(i) == PostedBy(i) = {} /\ Move(i, {"pending"}, "rejected")
Fail(i)   == Move(i, {"pending", "parsed", "rejected"}, "failed")

Post(i, a) ==
    /\ state[i] = "pending"
    /\ \A r \in PostedBy(i) : r.account = a
    /\ \E H \in SUBSET Hashes :
          /\ \A r \in book : r.account = a => r.hash \notin H
          /\ book' = book \cup {[account |-> a, hash |-> h, import |-> i] : h \in H}
    /\ UNCHANGED state

(* An account is deleted with its imports and their rows. *)
Remove(a, I) ==
    /\ \A r \in book : r.account = a <=> r.import \in I
    /\ state' = [i \in Imports |-> IF i \in I THEN "absent" ELSE state[i]]
    /\ book' = {r \in book : r.account # a}

Next ==
    \/ \E i \in Imports :
          \/ Submit(i) \/ Settle(i) \/ Reject(i) \/ Fail(i)
          \/ \E a \in Accounts : Post(i, a)
    \/ \E a \in Accounts, I \in SUBSET Imports : Remove(a, I)

Spec == Init /\ [][Next]_vars
=============================================================================
