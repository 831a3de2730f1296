------------------------------- MODULE Ledger -------------------------------
(***************************************************************************)
(* What a search and rescue task promises about the persons of an episode: *)
(* each is found at most once, and a finding is settled once and for all,  *)
(* paid by the first reward that reads it or lost to the finding after it. *)
(* What was credited for it never changes again.                           *)
(***************************************************************************)
EXTENDS Naturals

CONSTANT People  \* the persons there may be

VARIABLES
    fate,   \* of every person, in this episode
    credit  \* what rewards have paid for each

ledgerVars == <<fate, credit>>

LedgerInit == /\ fate \in [People -> {"absent", "hidden"}]
              /\ credit = [p \in People |-> 0]

\* Another episode, with other persons.
Opens == LedgerInit'

\* The persons in S are found; findings nobody has read are lost.
Finds(S) ==
    /\ \A p \in S : fate[p] = "hidden"
    /\ fate' = [p \in People |-> IF p \in S THEN "unread"
                                 ELSE IF fate[p] = "unread" THEN "lost" ELSE fate[p]]
    /\ UNCHANGED credit

\* A reward pays for all findings there are to read, and for no other.
Pays ==
    /\ fate' = [p \in People |-> IF fate[p] = "unread" THEN "paid" ELSE fate[p]]
    /\ credit' \in [People -> Nat]
    /\ \A p \in People : IF fate[p] = "unread" THEN credit'[p] > 0
                         ELSE credit'[p] = credit[p]

LedgerNext == Opens \/ (\E S \in SUBSET People : Finds(S)) \/ Pays

LedgerSpec == LedgerInit /\ [][LedgerNext]_ledgerVars
=============================================================================
