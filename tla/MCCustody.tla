---------- MODULE MCCustody ----------
(* What is held for the user: the paper account, credentials, backups, the ledger check.
   They share no state here: a behaviour is one of the component that focus
   names, and the others stay in one initial state. *)
EXTENDS PaperTrading, Credentials, Backups, LedgerVerifier, TLC

MCResults == {-9, 12}
MCMarks   == {0, 24}

MCScopes == {Chains, {CHOOSE x \in Chains : TRUE}}

\* The callers of every component are the same two: one symmetry serves all.
MCSymmetry == Permutations(Desks \cup Clients \cup Savers \cup Verifiers)

VARIABLE focus   \* the component that moves

MCVars == <<focus, paperVars, credentialVars, backupVars, verifierVars>>

MCInit ==
    /\ focus \in {"paper", "credentials", "backups", "verifier"}
    /\ PaperInit /\ CredentialInit /\ BackupsInit /\ VerifierInit
    /\ focus # "credentials" => ~ legacy

MCNext ==
    /\ UNCHANGED focus
    /\ \/ focus = "paper" /\ PaperNext /\ UNCHANGED <<credentialVars, backupVars, verifierVars>>
       \/ focus = "credentials" /\ CredentialNext /\ UNCHANGED <<paperVars, backupVars, verifierVars>>
       \/ focus = "backups" /\ BackupsNext /\ UNCHANGED <<paperVars, credentialVars, verifierVars>>
       \/ focus = "verifier" /\ VerifierNext /\ UNCHANGED <<paperVars, credentialVars, backupVars>>

MCSpec == MCInit /\ [][MCNext]_MCVars
============================================================
