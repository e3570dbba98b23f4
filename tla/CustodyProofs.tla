---------------------------- MODULE CustodyProofs ----------------------------
(***************************************************************************)
(* Proofs about what the program keeps for its user: the credentials of an  *)
(* exchange, the backups of the database, the verification of the hash      *)
(* chains, the orders of a paper account and the evidence root of the depth *)
(* observations.  The five arguments are independent of each other.         *)
(***************************************************************************)
EXTENDS Credentials, Backups, LedgerVerifier, PaperTrading, DepthEvidence, FiniteSetTheorems, SequenceTheorems,
        WellFoundedInduction, TLAPS

------------------------------------------------------------------------------
(***************************************************************************)
(* Proofs about the credentials of an exchange, for any calls at once and   *)
(* any credentials.                                                         *)
(*                                                                          *)
(* A call that is alone shares the keychain with no call that writes        *)
(* (AloneInv), so that what it has written, dropped or read so far is still *)
(* what the keychain holds (Kept).  What the calls that ended alone have    *)
(* left is in the row and the keychain as long as nobody writes (StoreInv). *)
(***************************************************************************)

Writers == {"write", "commit", "undo", "drop", "forget", "purge"}

\* What a call is, whatever the others do.
IsCall(e) ==
    /\ {"at", "cred", "done", "alone", "failed", "got"} \subseteq DOMAIN e
    /\ e.at \in {"write", "commit"} => e.cred \in Creds /\ e.done \subseteq FieldsOf(e.cred)
    /\ e.at = "write" => e.done # FieldsOf(e.cred)
    /\ e.at = "commit" => e.done = FieldsOf(e.cred)
    /\ e.at = "drop" => e.done \subseteq Fields

\* What a reader was given so far, when it may still be promised anything.
ReadSoFar(e, left) ==
    /\ left = e.cred
    /\ e.cred = NoCred => e.at = "given" /\ e.got = {}
    /\ e.cred # NoCred =>
          /\ e.done \subseteq FieldsOf(e.cred)
          /\ e.got = {<<f, e.cred>> : f \in FieldsOf(e.cred) \ e.done}
          /\ e.at = "given" => e.done = {}

\* What a call that is alone has done is still there.
Kept(e, entries, row, left) ==
    e.alone =>
        /\ e.at \in {"write", "commit"} => \A f \in e.done : entries[f] = e.cred
        /\ e.at = "drop" => \A f \in row \ e.done : entries[f] = NoCred
        /\ e.at = "forget" => \A f \in row : entries[f] = NoCred
        /\ e.at \in {"read", "given"} /\ ~ e.failed /\ e.cred # Unsettled => ReadSoFar(e, left)

Left(entries, row, left) ==
    /\ left = NoCred => row = {}
    /\ left # NoCred => left \in Creds /\ row = FieldsOf(left) /\ \A f \in row : entries[f] = left

StoreInv ==
    /\ DOMAIN keychain = Fields /\ refs \subseteq Fields
    /\ ~ (legacy /\ refs # {})
    /\ settled # Unsettled => Left(keychain, refs, settled) /\ \A c \in Clients : client[c].at \notin Writers

AloneInv ==
    \A c \in Clients : client[c].alone /\ client[c].at # "idle" =>
        \A d \in Clients \ {c} : client[d].at \notin Writers

CallInv ==
    /\ DOMAIN client = Clients
    /\ \A c \in Clients : IsCall(client[c]) /\ Kept(client[c], keychain, refs, settled)

CredentialInv == StoreInv /\ AloneInv /\ CallInv

-----------------------------------------------------------------------------
LEMMA RestingFacts ==
    /\ IsCall(Resting) /\ Resting.at = "idle" /\ Resting.cred = NoCred /\ Resting.done = {}
    /\ Resting.got = {} /\ ~ Resting.failed
    /\ \A entries, row, left : Kept(Resting, entries, row, left)
BY DEF Resting, IsCall, Kept

LEMMA CredentialStarts == CredentialInit => CredentialInv
<1> SUFFICES ASSUME CredentialInit PROVE CredentialInv
  OBVIOUS
<1>1. DOMAIN keychain = Fields /\ refs = {} /\ settled = NoCred
      /\ DOMAIN client = Clients /\ \A c \in Clients : client[c] = Resting
  BY DEF CredentialInit
<1>2. StoreInv
  BY <1>1, RestingFacts DEF StoreInv, Left, Writers
<1>3. AloneInv
  BY <1>1, RestingFacts DEF AloneInv
<1>4. CallInv
  BY <1>1, RestingFacts DEF CallInv
<1> QED
  BY <1>2, <1>3, <1>4 DEF CredentialInv

\* The field that is due is one that was not written.
LEMMA DueIsLeft ==
    ASSUME NEW c \in Clients, FieldsOf(client[c].cred) \ client[c].done # {}
    PROVE  Due(c) \in FieldsOf(client[c].cred) \ client[c].done
<1> DEFINE S == FieldsOf(client[c].cred) \ client[c].done
<1>1. S \subseteq {"api_key", "api_secret", "passphrase"}
  BY DEF FieldsOf
<1>2. Order("api_key") = 1 /\ Order("api_secret") = 2 /\ Order("passphrase") = 3
  BY DEF Order
<1>3. \E f \in S : \A g \in S : Order(f) <= Order(g)
  <2>1. CASE "api_key" \in S
    BY <1>1, <1>2, <2>1
  <2>2. CASE "api_key" \notin S /\ "api_secret" \in S
    BY <1>1, <1>2, <2>2
  <2>3. CASE "api_key" \notin S /\ "api_secret" \notin S
    BY <1>1, <1>2, <2>3
  <2> QED
    BY <2>1, <2>2, <2>3
<1> QED
  BY <1>3 DEF Due

-----------------------------------------------------------------------------
\* A call that writes moves: no other is alone, so nothing was promised to it.
LEMMA WriterStep ==
    ASSUME CredentialInv, NEW c \in Clients, client[c].at \in Writers,
           DOMAIN client' = Clients, \A d \in Clients \ {c} : client'[d] = client[d],
           IsCall(client'[c]), Kept(client'[c], keychain', refs', settled'),
           client'[c].alone /\ client'[c].at # "idle" => client[c].alone,
           DOMAIN keychain' = Fields, refs' \subseteq Fields, ~ (legacy' /\ refs' # {}),
           settled' # Unsettled => /\ client[c].alone /\ client'[c].at = "idle"
                                   /\ Left(keychain', refs', settled')
    PROVE  CredentialInv'
<1> USE DEF CredentialInv
<1>1. \A d \in Clients \ {c} : ~ (client[d].alone /\ client[d].at # "idle")
  BY DEF AloneInv
<1>2. \A d \in Clients \ {c} : Kept(client'[d], keychain', refs', settled')
  BY <1>1 DEF Kept
<1>3. CallInv'
  BY <1>2 DEF CallInv
<1>4. AloneInv'
  <2>1. ASSUME NEW b \in Clients, client'[b].alone /\ client'[b].at # "idle", NEW d \in Clients \ {b}
        PROVE  client'[d].at \notin Writers
    <3>1. b = c
      BY <1>1, <2>1
    <3>2. client[c].alone /\ client[c].at # "idle"
      BY <2>1, <3>1 DEF Writers
    <3> QED
      BY <2>1, <3>1, <3>2 DEF AloneInv
  <2> QED
    BY <2>1 DEF AloneInv
<1>5. ASSUME settled' # Unsettled, NEW d \in Clients PROVE client'[d].at \notin Writers
  <2>1. CASE d = c
    BY <1>5, <2>1 DEF Writers
  <2>2. CASE d # c
    <3>1. client[c].alone /\ client[c].at # "idle"
      BY <1>5 DEF Writers
    <3> QED
      BY <2>2, <3>1 DEF AloneInv
  <2> QED
    BY <2>1, <2>2
<1>6. StoreInv'
  BY <1>5 DEF StoreInv
<1> QED
  BY <1>3, <1>4, <1>6

\* A call that reads moves: nothing it shares with the others changes.
LEMMA ReaderStep ==
    ASSUME CredentialInv, NEW c \in Clients,
           DOMAIN client' = Clients, \A d \in Clients \ {c} : client'[d] = client[d],
           client'[c].at \notin Writers,
           IsCall(client'[c]), Kept(client'[c], keychain, refs, settled),
           client'[c].alone /\ client'[c].at # "idle" => \A d \in Clients \ {c} : client[d].at \notin Writers,
           UNCHANGED <<keychain, refs, legacy, settled>>
    PROVE  CredentialInv'
<1> USE DEF CredentialInv
<1>1. CallInv'
  BY DEF CallInv
<1>2. AloneInv'
  BY DEF AloneInv
<1>3. StoreInv'
  BY DEF StoreInv
<1> QED
  BY <1>1, <1>2, <1>3

\* A call that will write begins: it alone may claim to be alone.
LEMMA BeginStep ==
    ASSUME CredentialInv, NEW c \in Clients, NEW entry, client' = Disturbed(c, entry),
           settled' = Unsettled, UNCHANGED <<keychain, refs, legacy>>,
           IsCall(entry), \A left : Kept([entry EXCEPT !.alone = IsAlone(c)], keychain, refs, left)
    PROVE  CredentialInv'
<1> USE DEF CredentialInv
<1>1. /\ DOMAIN client' = Clients
      /\ client'[c] = [entry EXCEPT !.alone = IsAlone(c)]
      /\ \A d \in Clients \ {c} : client'[d] = [client[d] EXCEPT !.alone = FALSE]
  BY DEF Disturbed
<1>2. \A d \in Clients \ {c} : IsCall(client'[d]) /\ client'[d].alone = FALSE /\ client'[d].at = client[d].at
  BY <1>1 DEF IsCall, CallInv
<1>3. IsCall(client'[c]) /\ client'[c].alone = IsAlone(c)
  BY <1>1 DEF IsCall
<1>4. \A d \in Clients : Kept(client'[d], keychain', refs', settled')
  <2>1. Kept(client'[c], keychain', refs', settled')
    BY <1>1
  <2>2. \A d \in Clients \ {c} : Kept(client'[d], keychain', refs', settled')
    BY <1>2 DEF Kept
  <2> QED
    BY <2>1, <2>2
<1>5. CallInv'
  BY <1>1, <1>2, <1>3, <1>4 DEF CallInv
<1>6. client'[c].alone => \A d \in Clients \ {c} : client[d].at \notin Writers
  BY <1>3 DEF IsAlone, Writing, Writers
<1>7. AloneInv'
  BY <1>2, <1>6 DEF AloneInv
<1>8. StoreInv'
  BY DEF StoreInv
<1> QED
  BY <1>5, <1>7, <1>8

-----------------------------------------------------------------------------
LEMMA StoreSteps ==
    ASSUME CredentialInv, NEW c \in Clients,
           \/ \E cred \in Creds : BeginStore(c, cred)
           \/ WriteSecret(c) \/ CommitRow(c) \/ FailSave(c) \/ RaiseSave(c)
           \/ \E f \in Fields : UndoSecret(c, f)
    PROVE  CredentialInv'
<1> USE DEF CredentialInv
<1>0. /\ DOMAIN client = Clients /\ IsCall(client[c]) /\ Kept(client[c], keychain, refs, settled)
      /\ DOMAIN keychain = Fields /\ refs \subseteq Fields /\ ~ (legacy /\ refs # {})
      /\ client[c].at \in Writers => settled = Unsettled
  BY DEF CallInv, StoreInv
<1>1. ASSUME NEW cred \in Creds, BeginStore(c, cred) PROVE CredentialInv'
  <2>1. PICK entry : entry = [Resting EXCEPT !.at = "write", !.cred = cred]
    OBVIOUS
  <2>2. IsCall(entry)
    BY <2>1 DEF Resting, IsCall, FieldsOf
  <2>3. \A left : Kept([entry EXCEPT !.alone = IsAlone(c)], keychain, refs, left)
    BY <2>1 DEF Resting, Kept
  <2> QED
    BY <1>1, <2>1, <2>2, <2>3, BeginStep DEF BeginStore
<1>2. CASE WriteSecret(c)
  <2> DEFINE f == Due(c)
  <2>1. f \in FieldsOf(client[c].cred) /\ f \in Fields /\ client[c].cred \in Creds /\ client[c].at = "write"
        /\ client[c].done \subseteq FieldsOf(client[c].cred)
    BY <1>0, <1>2, DueIsLeft DEF WriteSecret, IsCall, FieldsOf, Fields
  <2> HIDE DEF f
  <2>2. /\ DOMAIN client' = Clients /\ \A d \in Clients \ {c} : client'[d] = client[d]
        /\ client'[c] = [client[c] EXCEPT !.done = client[c].done \cup {f},
                            !.at = IF client[c].done \cup {f} = FieldsOf(client[c].cred) THEN "commit" ELSE "write"]
    BY <1>0, <1>2 DEF WriteSecret, f
  <2>3. /\ {"at", "cred", "done", "alone", "failed", "got"} \subseteq DOMAIN client'[c]
        /\ client'[c].done = client[c].done \cup {f} /\ client'[c].cred = client[c].cred
        /\ client'[c].alone = client[c].alone
        /\ client'[c].at = IF client'[c].done = FieldsOf(client'[c].cred) THEN "commit" ELSE "write"
    BY <1>0, <2>2 DEF IsCall
  <2>4. /\ DOMAIN keychain' = Fields /\ keychain'[f] = client[c].cred
        /\ \A g \in Fields \ {f} : keychain'[g] = keychain[g]
    BY <1>0, <1>2, <2>1 DEF WriteSecret, f
  <2>5. IsCall(client'[c])
    BY <2>1, <2>3 DEF IsCall
  <2>6. client[c].alone => \A g \in client[c].done : keychain[g] = client[c].cred
    BY <1>0, <2>1 DEF Kept
  <2>7. client[c].done \subseteq Fields
    BY <2>1 DEF FieldsOf, Fields
  <2>8. Kept(client'[c], keychain', refs', settled')
    BY <2>3, <2>4, <2>6, <2>7 DEF Kept
  <2> QED
    BY <1>0, <1>2, <2>1, <2>2, <2>3, <2>4, <2>5, <2>8, WriterStep DEF WriteSecret, Writers
<1>3. CASE CommitRow(c)
  <2>1. /\ client[c].at = "commit" /\ refs' = FieldsOf(client[c].cred) /\ legacy' = FALSE /\ UNCHANGED keychain
        /\ client[c].cred \in Creds /\ client[c].done = FieldsOf(client[c].cred)
    BY <1>0, <1>3 DEF CommitRow, References, IsCall
  <2>2. /\ DOMAIN client' = Clients /\ \A d \in Clients \ {c} : client'[d] = client[d]
        /\ client'[c] = Resting
    BY <1>0, <1>3 DEF CommitRow, End
  <2>3. settled' # Unsettled => client[c].alone /\ settled' = client[c].cred
    BY <1>3 DEF CommitRow, Settle
  <2>4. client[c].alone => \A f \in refs' : keychain'[f] = client[c].cred
    BY <1>0, <2>1 DEF Kept
  <2>5. settled' # Unsettled => Left(keychain', refs', settled')
    BY CredentialAssumption, <2>1, <2>3, <2>4 DEF Left
  <2>6. refs' \subseteq Fields
    BY <2>1 DEF FieldsOf, Fields
  <2> QED
    BY <1>0, <2>1, <2>2, <2>3, <2>5, <2>6, RestingFacts, WriterStep DEF Writers
<1>4. CASE FailSave(c)
  <2>1. /\ client[c].at \in {"write", "commit"} /\ UNCHANGED <<keychain, refs, legacy, settled>>
        /\ DOMAIN client' = Clients /\ \A d \in Clients \ {c} : client'[d] = client[d]
        /\ client'[c] = [client[c] EXCEPT !.at = "undo"]
    BY <1>0, <1>4 DEF FailSave, GoOn
  <2>2. client'[c].at = "undo" /\ client'[c].alone = client[c].alone
        /\ {"at", "cred", "done", "alone", "failed", "got"} \subseteq DOMAIN client'[c]
    BY <1>0, <2>1 DEF IsCall
  <2>3. IsCall(client'[c]) /\ Kept(client'[c], keychain', refs', settled')
    BY <2>2 DEF IsCall, Kept
  <2> QED
    BY <1>0, <2>1, <2>2, <2>3, WriterStep DEF Writers
<1>5. CASE RaiseSave(c)
  <2>1. /\ client[c].at = "undo" /\ UNCHANGED <<keychain, refs, legacy, settled>>
        /\ DOMAIN client' = Clients /\ \A d \in Clients \ {c} : client'[d] = client[d]
        /\ client'[c] = Resting
    BY <1>0, <1>5 DEF RaiseSave, End
  <2> QED
    BY <1>0, <2>1, RestingFacts, WriterStep DEF Writers
<1>6. ASSUME NEW f \in Fields, UndoSecret(c, f) PROVE CredentialInv'
  <2>1. /\ client[c].at = "undo" /\ UNCHANGED <<refs, legacy, settled>> /\ DOMAIN keychain' = Fields
        /\ DOMAIN client' = Clients /\ \A d \in Clients \ {c} : client'[d] = client[d]
        /\ client'[c] = [client[c] EXCEPT !.done = client[c].done \ {f}]
    BY <1>0, <1>6 DEF UndoSecret
  <2>2. client'[c].at = "undo" /\ client'[c].alone = client[c].alone
        /\ {"at", "cred", "done", "alone", "failed", "got"} \subseteq DOMAIN client'[c]
    BY <1>0, <2>1 DEF IsCall
  <2>3. IsCall(client'[c]) /\ Kept(client'[c], keychain', refs', settled')
    BY <2>2 DEF IsCall, Kept
  <2> QED
    BY <1>0, <2>1, <2>2, <2>3, WriterStep DEF Writers
<1> QED
  BY <1>1, <1>2, <1>3, <1>4, <1>5, <1>6

LEMMA DeleteSteps ==
    ASSUME CredentialInv, NEW c \in Clients,
           \/ BeginDelete(c) \/ FailDelete(c) \/ ForgetRow(c) \/ PurgeLegacy(c)
           \/ \E f \in Fields : DropSecret(c, f)
    PROVE  CredentialInv'
<1> USE DEF CredentialInv
<1>0. /\ DOMAIN client = Clients /\ IsCall(client[c]) /\ Kept(client[c], keychain, refs, settled)
      /\ DOMAIN keychain = Fields /\ refs \subseteq Fields /\ ~ (legacy /\ refs # {})
      /\ client[c].at \in Writers => settled = Unsettled
  BY DEF CallInv, StoreInv
<1>1. CASE BeginDelete(c)
  <2>1. PICK entry : entry = [Resting EXCEPT !.done = refs,
                    !.at = IF refs = {} /\ legacy THEN "purge" ELSE IF refs = {} THEN "forget" ELSE "drop"]
    OBVIOUS
  <2>2. IsCall(entry)
    BY <1>0, <2>1 DEF Resting, IsCall
  <2>3. \A left : Kept([entry EXCEPT !.alone = IsAlone(c)], keychain, refs, left)
    BY <2>1 DEF Resting, Kept
  <2> QED
    BY <1>1, <2>1, <2>2, <2>3, BeginStep DEF BeginDelete
<1>2. ASSUME NEW f \in Fields, DropSecret(c, f) PROVE CredentialInv'
  <2>1. /\ client[c].at = "drop" /\ f \in client[c].done /\ UNCHANGED <<refs, legacy, settled>>
        /\ DOMAIN client' = Clients /\ \A d \in Clients \ {c} : client'[d] = client[d]
        /\ client'[c] = [client[c] EXCEPT !.done = client[c].done \ {f},
                             !.at = IF client[c].done = {f} THEN "forget" ELSE "drop"]
    BY <1>0, <1>2 DEF DropSecret
  <2>2. /\ client'[c].at = IF client[c].done = {f} THEN "forget" ELSE "drop"
        /\ client'[c].alone = client[c].alone /\ client'[c].done = client[c].done \ {f}
        /\ {"at", "cred", "done", "alone", "failed", "got"} \subseteq DOMAIN client'[c]
    BY <1>0, <2>1 DEF IsCall
  <2>3. /\ DOMAIN keychain' = Fields /\ keychain'[f] = NoCred
        /\ \A g \in Fields \ {f} : keychain'[g] = keychain[g]
    BY <1>0, <1>2 DEF DropSecret
  <2>4. IsCall(client'[c])
    BY <1>0, <2>1, <2>2 DEF IsCall
  <2>5. client[c].alone => \A g \in refs \ client[c].done : keychain[g] = NoCred
    BY <1>0, <2>1 DEF Kept
  <2>6. client[c].alone => \A g \in refs \ client'[c].done : keychain'[g] = NoCred
    BY <1>0, <2>2, <2>3, <2>5
  <2>7. Kept(client'[c], keychain', refs', settled')
    BY <2>1, <2>2, <2>6 DEF Kept
  <2> QED
    BY <1>0, <2>1, <2>2, <2>3, <2>4, <2>7, WriterStep DEF Writers
<1>3. CASE FailDelete(c)
  <2>1. /\ client[c].at = "drop" /\ UNCHANGED <<keychain, refs, legacy, settled>>
        /\ DOMAIN client' = Clients /\ \A d \in Clients \ {c} : client'[d] = client[d]
        /\ client'[c] = Resting
    BY <1>0, <1>3 DEF FailDelete, End
  <2> QED
    BY <1>0, <2>1, RestingFacts, WriterStep DEF Writers
<1>4. CASE ForgetRow(c)
  <2>1. /\ client[c].at = "forget" /\ UNCHANGED keychain /\ refs' = {}
        /\ DOMAIN client' = Clients /\ \A d \in Clients \ {c} : client'[d] = client[d]
        /\ client'[c] = Resting
    BY <1>0, <1>4 DEF ForgetRow, End
  <2>2. settled' # Unsettled => client[c].alone /\ settled' = NoCred
    BY <1>4 DEF ForgetRow, Settle
  <2>3. settled' # Unsettled => Left(keychain', refs', settled')
    BY <2>1, <2>2 DEF Left
  <2> QED
    BY <1>0, <2>1, <2>2, <2>3, RestingFacts, WriterStep DEF Writers
<1>5. CASE PurgeLegacy(c)
  <2>1. /\ client[c].at = "purge" /\ UNCHANGED <<keychain, refs>> /\ legacy' = FALSE
        /\ DOMAIN client' = Clients /\ \A d \in Clients \ {c} : client'[d] = client[d]
        /\ client'[c] = Resting
    BY <1>0, <1>5 DEF PurgeLegacy, End
  <2>2. settled' # Unsettled => client[c].alone /\ settled' = NoCred /\ refs = {}
    BY <1>5 DEF PurgeLegacy, Settle
  <2>3. settled' # Unsettled => Left(keychain', refs', settled')
    BY <2>1, <2>2 DEF Left
  <2> QED
    BY <1>0, <2>1, <2>2, <2>3, RestingFacts, WriterStep DEF Writers
<1> QED
  BY <1>1, <1>2, <1>3, <1>4, <1>5

LEMMA ReadSteps ==
    ASSUME CredentialInv, NEW c \in Clients,
           BeginRead(c) \/ EndRead(c) \/ \E f \in Fields : ReadSecret(c, f)
    PROVE  CredentialInv'
<1> USE DEF CredentialInv
<1>0. /\ DOMAIN client = Clients /\ IsCall(client[c]) /\ Kept(client[c], keychain, refs, settled)
      /\ settled # Unsettled => Left(keychain, refs, settled)
      /\ client[c].alone /\ client[c].at # "idle" => \A d \in Clients \ {c} : client[d].at \notin Writers
  BY DEF CallInv, StoreInv, AloneInv
<1>1. CASE BeginRead(c)
  <2>1. /\ DOMAIN client' = Clients /\ \A d \in Clients \ {c} : client'[d] = client[d]
        /\ UNCHANGED <<keychain, refs, legacy, settled>>
        /\ client'[c] = [Resting EXCEPT !.at = IF refs = {} THEN "given" ELSE "read",
                             !.done = refs, !.cred = settled, !.alone = IsAlone(c)]
    BY <1>0, <1>1 DEF BeginRead
  <2>2. /\ client'[c].at = IF refs = {} THEN "given" ELSE "read"
        /\ client'[c].done = refs /\ client'[c].cred = settled /\ client'[c].got = {}
        /\ client'[c].alone = IsAlone(c)
        /\ {"at", "cred", "done", "alone", "failed", "got"} \subseteq DOMAIN client'[c]
    BY <2>1 DEF Resting
  <2>3. IsCall(client'[c])
    BY <2>2 DEF IsCall
  <2>4. settled # Unsettled => ReadSoFar(client'[c], settled)
    BY <1>0, <2>2 DEF ReadSoFar, Left, FieldsOf
  <2>5. Kept(client'[c], keychain, refs, settled)
    BY <2>2, <2>4 DEF Kept
  <2>6. client'[c].alone => \A d \in Clients \ {c} : client[d].at \notin Writers
    BY <2>2 DEF IsAlone, Writing, Writers
  <2> QED
    BY <2>1, <2>2, <2>3, <2>5, <2>6, ReaderStep DEF Writers
<1>2. ASSUME NEW f \in Fields, ReadSecret(c, f) PROVE CredentialInv'
  <2>0. /\ client[c].at = "read" /\ f \in client[c].done /\ UNCHANGED <<keychain, refs, legacy, settled>>
        /\ DOMAIN client' = Clients /\ \A d \in Clients \ {c} : client'[d] = client[d]
    BY <1>0, <1>2 DEF ReadSecret
  <2>1. CASE client' = [client EXCEPT ![c].done = @ \ {f}, ![c].got = @ \cup {<<f, keychain[f]>>},
                            ![c].at = IF client[c].done = {f} THEN "given" ELSE "read"]
    <3>1. client'[c] = [client[c] EXCEPT !.done = client[c].done \ {f}, !.got = client[c].got \cup {<<f, keychain[f]>>},
                            !.at = IF client[c].done = {f} THEN "given" ELSE "read"]
      BY <1>0, <2>1
    <3>2. /\ client'[c].at = IF client[c].done = {f} THEN "given" ELSE "read"
          /\ client'[c].done = client[c].done \ {f} /\ client'[c].got = client[c].got \cup {<<f, keychain[f]>>}
          /\ client'[c].cred = client[c].cred /\ client'[c].alone = client[c].alone
          /\ client'[c].failed = client[c].failed
          /\ {"at", "cred", "done", "alone", "failed", "got"} \subseteq DOMAIN client'[c]
      BY <1>0, <3>1 DEF IsCall
    <3>3. IsCall(client'[c])
      BY <3>2 DEF IsCall
    <3>4. ASSUME ReadSoFar(client[c], settled), settled # Unsettled PROVE ReadSoFar(client'[c], settled)
      <4>1. client[c].cred # NoCred /\ settled = client[c].cred
        BY <2>0, <3>4 DEF ReadSoFar
      <4>2. f \in FieldsOf(client[c].cred) /\ keychain[f] = client[c].cred
        BY <1>0, <2>0, <3>4, <4>1 DEF ReadSoFar, Left
      <4>3. {<<g, client[c].cred>> : g \in FieldsOf(client[c].cred) \ client[c].done} \cup {<<f, client[c].cred>>}
            = {<<g, client[c].cred>> : g \in FieldsOf(client[c].cred) \ (client[c].done \ {f})}
        BY <2>0, <4>2
      <4>4. client'[c].got = {<<g, client'[c].cred>> : g \in FieldsOf(client'[c].cred) \ client'[c].done}
        BY <3>2, <3>4, <4>1, <4>2, <4>3 DEF ReadSoFar
      <4>5. client'[c].done \subseteq FieldsOf(client'[c].cred) /\ (client'[c].at = "given" => client'[c].done = {})
        BY <3>2, <3>4, <4>1 DEF ReadSoFar
      <4> QED
        BY <3>2, <4>1, <4>4, <4>5 DEF ReadSoFar
    <3>5. Kept(client'[c], keychain, refs, settled)
      <4> SUFFICES ASSUME client'[c].alone, ~ client'[c].failed, client'[c].cred # Unsettled
                   PROVE  ReadSoFar(client'[c], settled)
        BY <3>2 DEF Kept
      <4>1. ReadSoFar(client[c], settled)
        BY <1>0, <2>0, <3>2 DEF Kept
      <4> QED
        BY <3>2, <3>4, <4>1 DEF ReadSoFar
    <3> QED
      BY <1>0, <2>0, <3>2, <3>3, <3>5, ReaderStep DEF Writers
  <2>2. CASE client' = [client EXCEPT ![c].at = "given", ![c].failed = TRUE]
    <3>1. client'[c] = [client[c] EXCEPT !.at = "given", !.failed = TRUE]
      BY <1>0, <2>2
    <3>2. /\ client'[c].at = "given" /\ client'[c].failed = TRUE /\ client'[c].alone = client[c].alone
          /\ {"at", "cred", "done", "alone", "failed", "got"} \subseteq DOMAIN client'[c]
      BY <1>0, <3>1 DEF IsCall
    <3>3. IsCall(client'[c]) /\ Kept(client'[c], keychain, refs, settled)
      BY <3>2 DEF IsCall, Kept
    <3> QED
      BY <1>0, <2>0, <3>2, <3>3, ReaderStep DEF Writers
  <2> QED
    BY <1>2, <2>1, <2>2 DEF ReadSecret
<1>3. CASE EndRead(c)
  <2>1. /\ UNCHANGED <<keychain, refs, legacy, settled>>
        /\ DOMAIN client' = Clients /\ \A d \in Clients \ {c} : client'[d] = client[d]
        /\ client'[c] = Resting
    BY <1>0, <1>3 DEF EndRead, End
  <2> QED
    BY <2>1, RestingFacts, ReaderStep DEF Writers
<1> QED
  BY <1>1, <1>2, <1>3

-----------------------------------------------------------------------------
\* What a call that is alone has done is still there, and what the last of them
\* left is what the row and the keychain hold (save_credentials,
\* delete_credentials, get_decrypted_credentials, credentials_manager.py).
THEOREM CredentialInvariant == CredentialSpec => []CredentialInv
<1>1. CredentialInv /\ [CredentialNext]_credentialVars => CredentialInv'
  <2> SUFFICES ASSUME CredentialInv, [CredentialNext]_credentialVars PROVE CredentialInv'
    OBVIOUS
  <2>1. ASSUME NEW c \in Clients, CredentialStep(c) PROVE CredentialInv'
    BY <2>1, StoreSteps, DeleteSteps, ReadSteps DEF CredentialStep
  <2>2. CASE UNCHANGED <<keychain, refs, legacy, client, settled>>
    BY <2>2 DEF CredentialInv, StoreInv, AloneInv, CallInv
  <2>3. CASE EndProcess
    <3>1. /\ UNCHANGED <<keychain, refs, legacy, settled>>
          /\ DOMAIN client' = Clients /\ \A c \in Clients : client'[c] = Resting
      BY <2>3 DEF EndProcess
    <3>2. StoreInv'
      BY <3>1, RestingFacts DEF CredentialInv, StoreInv, Writers
    <3>3. AloneInv' /\ CallInv'
      BY <3>1, RestingFacts DEF AloneInv, CallInv
    <3> QED
      BY <3>2, <3>3 DEF CredentialInv
  <2> QED
    BY <2>1, <2>2, <2>3 DEF CredentialNext, credentialVars, BeginOnboarding, StoreSetting, StoreKey
<1> QED
  BY CredentialStarts, <1>1, PTL DEF CredentialSpec

\* Credentials are read as they were saved, or not at all; a deletion that runs
\* alone leaves no secret the row refers to (credentials_manager.py).
THEOREM CredentialsAreKept == CredentialSpec => []KeptOrGone
<1>1. CredentialInv => KeptOrGone
  <2> SUFFICES ASSUME CredentialInv PROVE KeptOrGone
    OBVIOUS
  <2>1. DeletedIsGone
    BY DEF CredentialInv, StoreInv, CallInv, Kept, DeletedIsGone
  <2>2. ASSUME NEW c \in Clients, client[c].at = "given", ~ client[c].failed, client[c].alone,
               client[c].cred # Unsettled
        PROVE  Given(c) = IF client[c].cred = NoCred THEN {}
                          ELSE {<<f, client[c].cred>> : f \in FieldsOf(client[c].cred)}
    <3>1. ReadSoFar(client[c], settled)
      BY <2>2 DEF CredentialInv, CallInv, Kept
    <3>2. CASE client[c].cred = NoCred
      BY <3>1, <3>2 DEF ReadSoFar, Given
    <3>3. CASE client[c].cred # NoCred
      <4>1. client[c].got = {<<f, client[c].cred>> : f \in FieldsOf(client[c].cred)}
        BY <2>2, <3>1, <3>3 DEF ReadSoFar
      <4>2. {pair \in client[c].got : pair[2] # NoCred} = client[c].got
        BY <3>3, <4>1
      <4>3. <<"api_key", client[c].cred>> \in client[c].got /\ <<"api_secret", client[c].cred>> \in client[c].got
        BY <4>1 DEF FieldsOf
      <4>4. {"api_key", "api_secret"} \subseteq {pair[1] : pair \in client[c].got}
        BY <4>3
      <4> QED
        BY <2>2, <3>3, <4>1, <4>2, <4>4 DEF Given
    <3> QED
      BY <3>2, <3>3
  <2>3. ReadIsSaved
    BY <2>2 DEF ReadIsSaved
  <2> QED
    BY <2>1, <2>3 DEF KeptOrGone
<1> QED
  BY <1>1, CredentialInvariant, PTL

------------------------------------------------------------------------------
(***************************************************************************)
(* Proofs about backups, for any callers, trades, paths and bounds.         *)
(*                                                                          *)
(* The copy an export holds was a state of the database from the moment it  *)
(* was taken (SaverInv), so a bundle holds one whenever it is published,    *)
(* and the exporter's last answer is about the bundle that is there         *)
(* (BundleInv).  The restore needs more than its first verification: the    *)
(* bundle at the path may have been replaced by then, so that all that is   *)
(* known of it is that it is some published bundle (RestoreInv).            *)
(***************************************************************************)

Copies == [trades : SUBSET KeptTrades, covered : SUBSET KeptTrades, secrets : BOOLEAN]

\* An entry is a record with the fields an export has.
IsSaver(r) ==
    r = [pc |-> r.pc, path |-> r.path, mode |-> r.mode, copy |-> r.copy, cold |-> r.cold, left |-> r.left]

DbInv ==
    /\ db \in Copies
    /\ Sanitized(db) \in past

SaverInv ==
    /\ DOMAIN saver = Savers
    /\ saver = [s \in Savers |-> saver[s]]
    /\ \A s \in Savers : saver[s] # Absent =>
          /\ IsSaver(saver[s])
          /\ saver[s].path \in Paths
          /\ saver[s].pc \in {"cold", "publish"} => saver[s].copy \in past

\* What is true of every published bundle.
Honest(bundle) ==
    /\ bundle.copy \in past
    /\ bundle.desktop => ReadyCopy(bundle.copy)

BundleInv ==
    /\ bundleFiles = [p \in Paths |-> bundleFiles[p]]
    /\ kept = bundleFiles
    /\ \A p \in Paths : bundleFiles[p] = Absent \/ Honest(bundleFiles[p])

RestoreInv ==
    /\ restore # Absent => restore \in Paths /\ Honest(bundleFiles[restore])
    /\ profile # Absent =>
          /\ profile = [copy |-> profile.copy, olap |-> profile.olap]
          /\ profile.copy \in past /\ ReadyCopy(profile.copy)
          /\ profile.olap \in {{}, profile.copy.trades}

BackupsInv == DbInv /\ SaverInv /\ BundleInv /\ RestoreInv

-----------------------------------------------------------------------------
LEMMA BackupsStart == BackupsInit => BackupsInv
<1> SUFFICES ASSUME BackupsInit PROVE BackupsInv
  OBVIOUS
<1>1. DbInv
  <2>0. db = [trades |-> {}, covered |-> {}, secrets |-> FALSE] /\ past = {db}
    BY DEF BackupsInit
  <2>2. db \in Copies
    BY <2>0 DEF Copies
  <2>1. Sanitized(db) = db
    <3>1. db.secrets = FALSE
      BY <2>0
    <3> QED
      BY <2>2, <3>1 DEF Sanitized, Copies
  <2> QED
    BY <2>0, <2>1, <2>2 DEF DbInv
<1>2. SaverInv
  BY DEF BackupsInit, SaverInv
<1>3. BundleInv
  BY DEF BackupsInit, BundleInv
<1>4. RestoreInv
  BY DEF BackupsInit, RestoreInv
<1> QED
  BY <1>1, <1>2, <1>3, <1>4 DEF BackupsInv

\* The database only ever adds to the states it was in.
LEMMA PastGrows == [BackupsNext]_backupVars => past \subseteq past'
BY DEF BackupsNext, backupVars, SaveTrade, StoreSecret, StoreCandle, Second, BeginSave, TakeSnapshot,
       CopyCold, Publish, Cancel, VerifyBundle, RestoreBundle, RebuildOlap, ShadowBackup,
       CountOld, ExportOld, DeleteOld

LEMMA DbStep == DbInv /\ [BackupsNext]_backupVars => DbInv'
<1> SUFFICES ASSUME DbInv, [BackupsNext]_backupVars PROVE DbInv'
  OBVIOUS
<1> USE DEF DbInv
<1>1. CASE SaveTrade
  <2>1. PICK t \in KeptTrades \ db.trades, evidenced \in BOOLEAN :
           db' = [db EXCEPT !.trades = @ \cup {t}, !.covered = IF evidenced THEN @ \cup {t} ELSE @]
    BY <1>1 DEF SaveTrade
  <2>2. db' \in Copies
    BY <2>1 DEF Copies
  <2>3. Sanitized(db') \in past'
    BY <1>1 DEF SaveTrade, Sanitized
  <2> QED
    BY <2>2, <2>3 DEF Sanitized
<1>2. CASE StoreSecret
  <2>1. db' = [db EXCEPT !.secrets = TRUE] /\ past' = past
    BY <1>2 DEF StoreSecret
  <2>2. db' \in Copies /\ [db' EXCEPT !.secrets = FALSE] = [db EXCEPT !.secrets = FALSE]
    BY <2>1 DEF Copies
  <2> QED
    BY <2>1, <2>2 DEF Sanitized
<1>3. ASSUME UNCHANGED <<db, past>> PROVE DbInv'
  BY <1>3 DEF Sanitized
<1>4. CASE StoreCandle \/ Second \/ VerifyBundle \/ RestoreBundle \/ RebuildOlap \/ ShadowBackup
  BY <1>3, <1>4 DEF StoreCandle, Second, VerifyBundle, RestoreBundle, RebuildOlap, ShadowBackup
<1>5. ASSUME NEW s \in Savers, BeginSave(s) \/ TakeSnapshot(s) \/ CopyCold(s) \/ Publish(s) \/ Cancel(s)
      PROVE  DbInv'
  BY <1>3, <1>5 DEF BeginSave, TakeSnapshot, CopyCold, Publish, Cancel
<1>6. ASSUME NEW a \in Archivers, CountOld(a) \/ ExportOld(a) \/ DeleteOld(a) PROVE DbInv'
  BY <1>3, <1>6 DEF CountOld, ExportOld, DeleteOld
<1>7. CASE UNCHANGED backupVars
  BY <1>3, <1>7 DEF backupVars
<1> QED
  BY <1>1, <1>2, <1>4, <1>5, <1>6, <1>7 DEF BackupsNext

LEMMA SaverStep == DbInv /\ SaverInv /\ [BackupsNext]_backupVars => SaverInv'
<1> SUFFICES ASSUME DbInv, SaverInv, [BackupsNext]_backupVars PROVE SaverInv'
  OBVIOUS
<1>0. past \subseteq past'
  BY PastGrows
<1> USE DEF SaverInv
<1>1. ASSUME NEW s \in Savers, BeginSave(s) PROVE SaverInv'
  <2>1. PICK p \in Paths, mode \in Modes :
           saver' = [saver EXCEPT ![s] = [pc |-> "snapshot", path |-> p, mode |-> mode, copy |-> Absent,
                                          cold |-> <<>>, left |-> {}]]
    BY <1>1 DEF BeginSave
  <2> QED
    BY <1>0, <2>1 DEF IsSaver
<1>2. ASSUME NEW s \in Savers, TakeSnapshot(s) PROVE SaverInv'
  <2>1. saver[s] # Absent /\ IsSaver(saver[s]) /\ saver[s].path \in Paths
    BY <1>2 DEF TakeSnapshot, Saving
  <2>2. saver' = [saver EXCEPT ![s] = [saver[s] EXCEPT !.pc = "cold", !.copy = Sanitized(db),
                                                        !.left = DOMAIN cold]]
    BY <1>2 DEF TakeSnapshot
  <2>3. saver'[s] = [pc |-> "cold", path |-> saver[s].path, mode |-> saver[s].mode,
                     copy |-> Sanitized(db), cold |-> saver[s].cold, left |-> DOMAIN cold]
    BY <2>1, <2>2 DEF IsSaver
  <2>4. \A t \in Savers \ {s} : saver'[t] = saver[t]
    BY <2>2
  <2>5. DOMAIN saver' = Savers /\ saver' = [t \in Savers |-> saver'[t]]
    BY <2>2
  <2>6. Sanitized(db) \in past'
    BY <1>0 DEF DbInv
  <2> QED
    BY <1>0, <2>1, <2>3, <2>4, <2>5, <2>6 DEF IsSaver
<1>3. ASSUME NEW s \in Savers, CopyCold(s) PROVE SaverInv'
  <2>1. saver[s] # Absent /\ IsSaver(saver[s]) /\ saver[s].path \in Paths /\ saver[s].copy \in past
    BY <1>3 DEF CopyCold, Saving
  <2>2. PICK pc, c, left : saver'[s] = [pc |-> pc, path |-> saver[s].path, mode |-> saver[s].mode,
                                        copy |-> saver[s].copy, cold |-> c, left |-> left]
    <3>1. CASE saver[s].left = {}
      BY <1>3, <2>1, <3>1 DEF CopyCold, IsSaver
    <3>2. CASE saver[s].left # {}
      <4> DEFINE more(f) == [g \in DOMAIN saver[s].cold \cup {f} |->
                                IF g = f THEN cold[f] ELSE saver[s].cold[g]]
      <4>1. PICK f \in saver[s].left :
               saver' = [saver EXCEPT ![s].left = saver[s].left \ {f}, ![s].cold = more(f)]
        BY <1>3, <3>2 DEF CopyCold
      <4> HIDE DEF more
      <4>2. saver'[s] = [pc |-> saver[s].pc, path |-> saver[s].path, mode |-> saver[s].mode,
                         copy |-> saver[s].copy, cold |-> more(f), left |-> saver[s].left \ {f}]
        <5>1. saver'[s] = [saver[s] EXCEPT !.left = saver[s].left \ {f}, !.cold = more(f)]
          BY <4>1
        <5> QED
          BY <2>1, <5>1 DEF IsSaver
      <4> QED
        BY <4>2
    <3> QED
      BY <3>1, <3>2
  <2>3. \A t \in Savers \ {s} : saver'[t] = saver[t]
    BY <1>3 DEF CopyCold
  <2>4. DOMAIN saver' = Savers /\ saver' = [t \in Savers |-> saver'[t]]
    BY <1>3 DEF CopyCold
  <2> QED
    BY <1>0, <2>1, <2>2, <2>3, <2>4 DEF IsSaver
<1>4. ASSUME NEW s \in Savers, Publish(s) \/ Cancel(s) PROVE SaverInv'
  <2>1. saver' = [saver EXCEPT ![s] = Absent]
    BY <1>4 DEF Publish, Cancel, Stop
  <2> QED
    BY <1>0, <2>1
<1>5. ASSUME UNCHANGED saver PROVE SaverInv'
  BY <1>0, <1>5
<1>6. CASE SaveTrade \/ StoreSecret \/ StoreCandle \/ Second \/ VerifyBundle \/ RestoreBundle
           \/ RebuildOlap \/ ShadowBackup
  BY <1>5, <1>6 DEF SaveTrade, StoreSecret, StoreCandle, Second, VerifyBundle, RestoreBundle,
                    RebuildOlap, ShadowBackup
<1>7. ASSUME NEW a \in Archivers, CountOld(a) \/ ExportOld(a) \/ DeleteOld(a) PROVE SaverInv'
  BY <1>5, <1>7 DEF CountOld, ExportOld, DeleteOld
<1>8. CASE UNCHANGED backupVars
  BY <1>5, <1>8 DEF backupVars
<1> QED
  BY <1>1, <1>2, <1>3, <1>4, <1>6, <1>7, <1>8 DEF BackupsNext

\* A publication puts an honest bundle at its path, and nowhere else.
LEMMA PublishIsHonest ==
    ASSUME SaverInv, BundleInv, NEW s \in Savers, Publish(s)
    PROVE  /\ BundleInv'
           /\ \A p \in Paths : Honest(bundleFiles[p]) => Honest(bundleFiles[p])'
<1> DEFINE new == [copy |-> saver[s].copy, cold |-> saver[s].cold, desktop |-> saver[s].mode.desktop]
           path == saver[s].path
<1>1. path \in Paths /\ new.copy \in past
  BY DEF SaverInv, Publish, Saving
<1>2. past' = past
  BY DEF Publish
<1>3. CASE MayPublish(s) /\ (saver[s].mode.desktop => ReadyCopy(new.copy))
  <2>1. /\ bundleFiles' = [bundleFiles EXCEPT ![path] = new]
        /\ kept' = IF saver[s].mode.force THEN [kept EXCEPT ![path] = new]
                   ELSE [kept EXCEPT ![path] = IF @ = Absent THEN new ELSE @]
    BY <1>3 DEF Publish
  <2>2. ~ saver[s].mode.force => kept[path] = Absent
    BY <1>3 DEF MayPublish, BundleInv
  <2>3. kept' = bundleFiles'
    BY <1>1, <2>1, <2>2 DEF BundleInv
  <2>4. /\ bundleFiles' = [p \in Paths |-> bundleFiles'[p]]
        /\ bundleFiles'[path] = new
        /\ \A p \in Paths \ {path} : bundleFiles'[p] = bundleFiles[p]
    BY <1>1, <2>1 DEF BundleInv
  <2>5. new.copy \in past' /\ (new.desktop => ReadyCopy(new.copy))
    BY <1>1, <1>2, <1>3
  <2> HIDE DEF new
  <2>6. \A p \in Paths : Honest(bundleFiles[p]) => Honest(bundleFiles[p])'
    BY <1>2, <2>4, <2>5 DEF Honest
  <2>7. \A p \in Paths : bundleFiles'[p] = Absent \/ Honest(bundleFiles[p])'
    BY <1>2, <2>4, <2>5 DEF Honest, BundleInv
  <2> QED
    BY <2>3, <2>4, <2>6, <2>7 DEF BundleInv
<1>4. CASE ~ (MayPublish(s) /\ (saver[s].mode.desktop => ReadyCopy(new.copy)))
  <2>1. UNCHANGED <<bundleFiles, kept, past>>
    BY <1>4 DEF Publish
  <2> QED
    BY <2>1 DEF BundleInv, Honest
<1> QED
  BY <1>3, <1>4

LEMMA BundleStep ==
    SaverInv /\ BundleInv /\ [BackupsNext]_backupVars =>
        /\ BundleInv'
        /\ \A p \in Paths : Honest(bundleFiles[p]) => Honest(bundleFiles[p])'
<1> SUFFICES ASSUME SaverInv, BundleInv, [BackupsNext]_backupVars
             PROVE  /\ BundleInv'
                    /\ \A p \in Paths : Honest(bundleFiles[p]) => Honest(bundleFiles[p])'
  OBVIOUS
<1>1. past \subseteq past'
  BY PastGrows
<1>2. CASE \E s \in Savers : Publish(s)
  BY <1>2, PublishIsHonest
<1>3. CASE UNCHANGED <<bundleFiles, kept>>
  BY <1>1, <1>3 DEF BundleInv, Honest
<1> QED
  BY <1>2, <1>3 DEF BackupsNext, backupVars, SaveTrade, StoreSecret, StoreCandle, Second, BeginSave,
       TakeSnapshot, CopyCold, Cancel, VerifyBundle, RestoreBundle, RebuildOlap, ShadowBackup,
       CountOld, ExportOld, DeleteOld

LEMMA RestoreStep ==
    SaverInv /\ BundleInv /\ RestoreInv /\ [BackupsNext]_backupVars => RestoreInv'
<1> SUFFICES ASSUME SaverInv, BundleInv, RestoreInv, [BackupsNext]_backupVars PROVE RestoreInv'
  OBVIOUS
<1>1. /\ past \subseteq past'
      /\ \A p \in Paths : Honest(bundleFiles[p]) => Honest(bundleFiles[p])'
  BY PastGrows, BundleStep
<1>2. CASE VerifyBundle
  <2>1. PICK p \in Paths : bundleFiles[p] # Absent /\ restore' = p
    BY <1>2 DEF VerifyBundle
  <2>2. Honest(bundleFiles[p])' /\ UNCHANGED <<profile, past, bundleFiles>>
    BY <1>1, <1>2, <2>1 DEF VerifyBundle, BundleInv
  <2> QED
    BY <2>1, <2>2 DEF RestoreInv, Honest
<1>3. CASE RestoreBundle
  <2>1. /\ restore # Absent /\ restore' = Absent /\ past' = past
        /\ profile' = IF StagedIsReady(restore)
                      THEN [copy |-> bundleFiles[restore].copy, olap |-> {}] ELSE profile
    BY <1>3 DEF RestoreBundle
  <2>2. CASE StagedIsReady(restore)
    <3>1. profile' = [copy |-> bundleFiles[restore].copy, olap |-> {}]
      BY <2>1, <2>2
    <3>2. bundleFiles[restore].copy \in past /\ ReadyCopy(bundleFiles[restore].copy)
      BY <2>1, <2>2 DEF RestoreInv, Honest, StagedIsReady
    <3> QED
      BY <2>1, <3>1, <3>2 DEF RestoreInv
  <2>3. CASE ~ StagedIsReady(restore)
    BY <2>1, <2>3 DEF RestoreInv
  <2> QED
    BY <2>2, <2>3
<1>4. CASE RebuildOlap
  <2>1. profile # Absent /\ UNCHANGED <<restore, bundleFiles, past>>
        /\ profile' = [profile EXCEPT !.olap = profile.copy.trades]
    BY <1>4 DEF RebuildOlap, Hydrated
  <2>2. profile' = [copy |-> profile.copy, olap |-> profile.copy.trades]
    BY <2>1 DEF RestoreInv
  <2> QED
    BY <2>1, <2>2 DEF RestoreInv, Honest
<1>5. CASE UNCHANGED <<restore, profile>>
  BY <1>1, <1>5 DEF RestoreInv
<1> QED
  BY <1>2, <1>3, <1>4, <1>5 DEF BackupsNext, backupVars, SaveTrade, StoreSecret, StoreCandle, Second,
       BeginSave, TakeSnapshot, CopyCold, Publish, Cancel, ShadowBackup, CountOld, ExportOld, DeleteOld

-----------------------------------------------------------------------------
\* Every copy an export holds, a bundle carries or a restore left was once the
\* state of the database.
THEOREM BackupsInvariant == BackupsSpec => []BackupsInv
<1>1. BackupsInv /\ [BackupsNext]_backupVars => BackupsInv'
  BY DbStep, SaverStep, BundleStep, RestoreStep DEF BackupsInv
<1> QED
  BY BackupsStart, <1>1, PTL DEF BackupsSpec

\* What exports published and what a restore left are states the database was
\* really in, and what an export answered as saved is there.
THEOREM BackupsAreHonest == BackupsSpec => []BackupHonest
<1>1. BackupsInv => BackupHonest
  BY DEF BackupsInv, BundleInv, RestoreInv, Honest, BackupHonest
<1> QED
  BY BackupsInvariant, <1>1, PTL

------------------------------------------------------------------------------
(***************************************************************************)
(* Proofs about the verification of the hash chains, for any threads,       *)
(* chains and rows.                                                         *)
(*                                                                          *)
(* A fingerprint is settled when every row it counts was read and found     *)
(* sound.  The three cache fields may come from three different threads;    *)
(* what keeps the answers true is that each of them, taken alone, is        *)
(* settled (CacheInv), that ranges only leave out rows that a settled state *)
(* counts (SkipsProven), and that no chain gets shorter.                    *)
(***************************************************************************)

\* Every row the fingerprint counts is among those read and found sound.
Settled(prints, rows) == \A x \in DOMAIN prints : \A n \in 1 .. prints[x] : <<x, n>> \in rows

IsCheck(c) == {"at", "scope", "prints", "fits", "ranges", "state", "answer"} \subseteq DOMAIN c

\* A fingerprint of rows that are (still) there.
IsPrint(scope, prints) ==
    /\ scope \subseteq Chains
    /\ prints = [x \in DOMAIN prints |-> prints[x]]
    /\ DOMAIN prints \subseteq scope
    /\ \A x \in DOMAIN prints : prints[x] \in Nat /\ prints[x] <= Len(chain[x])

ChainInv ==
    /\ chain \in [Chains -> Seq(BOOLEAN)]
    /\ call = [t \in Verifiers |-> call[t]]
    /\ \A t \in Verifiers : IsCheck(call[t]) /\ IsPrint(call[t].scope, call[t].prints)

\* A row that is left out was counted by a settled state.
SkipsProven(c, rows) ==
    c.ranges # NoCache =>
        \A x \in DOMAIN c.prints : \A n \in 1 .. c.prints[x] :
            <<x, n>> \in rows \/ (x \in DOMAIN c.ranges /\ c.ranges[x] \in Nat /\ n > c.ranges[x])

CacheInv ==
    /\ cache = [key |-> cache.key, result |-> cache.result, state |-> cache.state]
    /\ cache.key # NoCache => Settled(cache.key[2], proven)
    /\ cache.state # NoCache =>
          /\ Settled(cache.state, proven)
          /\ \A x \in DOMAIN cache.state : cache.state[x] \in Nat

\* What a thread relies on where it is.
CallOk(c, rows) ==
    /\ c.at \in {"matched", "cached", "key", "result", "state"} => Settled(c.prints, rows)
    /\ c.at \in {"ranged", "reading", "unprinted"} => SkipsProven(c, rows)
    /\ c.at = "read" => (c.answer.valid => Settled(c.prints, rows))
    /\ c.at = "answered" => (c.answer # NoCache /\ c.answer.valid => Settled(c.prints, rows))

ChecksInv == \A t \in Verifiers : CallOk(call[t], proven)

VerifierInv == ChainInv /\ CacheInv /\ ChecksInv

-----------------------------------------------------------------------------
LEMMA VerifierStarts == VerifierInit => VerifierInv
<1> SUFFICES ASSUME VerifierInit PROVE VerifierInv
  OBVIOUS
<1>1. ChainInv
  BY DEF VerifierInit, ChainInv, NoCheck, IsCheck, IsPrint
<1>2. CacheInv
  BY DEF VerifierInit, CacheInv, NoCheck
<1>3. ChecksInv
  BY DEF VerifierInit, ChecksInv, CallOk, NoCheck
<1> QED
  BY <1>1, <1>2, <1>3 DEF VerifierInv

\* Only a thread that reads moves proven, only a writer the chains.
LEMMA ProvenGrows == [VerifierNext]_verifierVars => proven \subseteq proven'
BY DEF VerifierNext, verifierVars, AppendRow, AlterRow, Begin, CompareKey, SeeResult, AnswerCached, LookUp,
       FindRanges, ReadState, ReadRows, Finish, StoreResult, Return, Fail, Close

\* A fingerprint stays one, whatever is appended or altered.
LEMMA ChainsGrow ==
    ChainInv /\ [VerifierNext]_verifierVars =>
        /\ chain' \in [Chains -> Seq(BOOLEAN)]
        /\ \A x \in Chains : Len(chain[x]) \in Nat /\ Len(chain'[x]) \in Nat /\ Len(chain[x]) <= Len(chain'[x])
<1> SUFFICES ASSUME ChainInv, [VerifierNext]_verifierVars
             PROVE  /\ chain' \in [Chains -> Seq(BOOLEAN)]
                    /\ \A x \in Chains : /\ Len(chain[x]) \in Nat /\ Len(chain'[x]) \in Nat
                                         /\ Len(chain[x]) <= Len(chain'[x])
  OBVIOUS
<1> USE DEF ChainInv
<1>1. CASE AppendRow
  <2>1. PICK x \in Chains : chain' = [chain EXCEPT ![x] = Append(chain[x], TRUE)]
    BY <1>1 DEF AppendRow
  <2>2. Append(chain[x], TRUE) \in Seq(BOOLEAN) /\ Len(Append(chain[x], TRUE)) = Len(chain[x]) + 1
    OBVIOUS
  <2> QED
    BY <2>1, <2>2
<1>2. CASE AlterRow
  <2>1. PICK x \in Chains : \E n \in DOMAIN chain[x] : chain' = [chain EXCEPT ![x][n] = FALSE]
    BY <1>2 DEF AlterRow
  <2>3. PICK n \in DOMAIN chain[x] : chain' = [chain EXCEPT ![x][n] = FALSE]
    BY <2>1
  <2>2. [chain[x] EXCEPT ![n] = FALSE] \in Seq(BOOLEAN)
        /\ Len([chain[x] EXCEPT ![n] = FALSE]) = Len(chain[x])
    OBVIOUS
  <2> QED
    BY <2>2, <2>3
<1>3. CASE UNCHANGED chain
  BY <1>3
<1> QED
  BY <1>1, <1>2, <1>3 DEF VerifierNext, verifierVars, Begin, CompareKey, SeeResult, AnswerCached, LookUp,
     FindRanges, ReadState, ReadRows, Finish, StoreResult, Return, Fail, Close

\* The ranges a thread finds leave out only what a settled state counts.
LEMMA RangesSkipProven ==
    ASSUME NEW c, NEW state, IsPrint(c.scope, c.prints),
           state # NoCache => Settled(state, proven) /\ \A x \in DOMAIN state : state[x] \in Nat,
           Ranges(c, state) # NoCache
    PROVE  \A x \in DOMAIN c.prints : \A n \in 1 .. c.prints[x] :
               \/ <<x, n>> \in proven
               \/ /\ x \in DOMAIN Ranges(c, state)
                  /\ Ranges(c, state)[x] \in Nat /\ n > Ranges(c, state)[x]
<1>1. /\ state # NoCache
      /\ \A x \in DOMAIN state : x \in DOMAIN c.prints /\ ~ c.prints[x] < state[x]
      /\ Ranges(c, state) = [x \in {y \in DOMAIN c.prints : y \notin DOMAIN state \/ c.prints[y] > state[y]} |->
                                IF x \in DOMAIN state THEN state[x] ELSE 0]
  BY DEF Ranges
<1> TAKE x \in DOMAIN c.prints
<1> TAKE n \in 1 .. c.prints[x]
<1>2. c.prints[x] \in Nat /\ n \in Nat
  BY DEF IsPrint
<1>3. CASE x \notin DOMAIN state
  BY <1>1, <1>2, <1>3
<1>4. CASE x \in DOMAIN state
  <2>1. state[x] \in Nat
    BY <1>1, <1>4
  <2>2. n <= state[x] => <<x, n>> \in proven
    BY <1>1, <1>2, <1>4, <2>1 DEF Settled
  <2>3. n > state[x] => x \in DOMAIN Ranges(c, state) /\ Ranges(c, state)[x] = state[x]
    BY <1>1, <1>2, <1>4, <2>1
  <2> QED
    BY <1>2, <2>1, <2>2, <2>3
<1> QED
  BY <1>3, <1>4

\* A valid reading settles the fingerprint: what is counted was proven before or
\* is among the rows that were read now.
LEMMA ReadingSettles ==
    ASSUME NEW c, IsPrint(c.scope, c.prints), SkipsProven(c, proven), Valid(c),
           chain \in [Chains -> Seq(BOOLEAN)],
           NEW x \in DOMAIN c.prints, NEW n \in 1 .. c.prints[x]
    PROVE  <<x, n>> \in proven \cup {r \in RowsRead(c) : chain[r[1]][r[2]]}
<1>1. c.prints[x] \in Nat /\ c.prints[x] <= Len(chain[x]) /\ x \in c.scope /\ Len(chain[x]) \in Nat
  BY DEF IsPrint
<1>2. n \in 1 .. Len(chain[x])
  BY <1>1
<1>3. CASE c.ranges = NoCache
  <2>1. After(c, x) = 0
    BY <1>3 DEF After
  <2>2. <<x, n>> \in RowsRead(c)
    BY <1>1, <1>2, <1>3, <2>1 DEF RowsRead
  <2> QED
    BY <2>2 DEF Valid
<1>4. CASE c.ranges # NoCache /\ <<x, n>> \notin proven
  <2>1. x \in DOMAIN c.ranges /\ c.ranges[x] \in Nat /\ n > c.ranges[x]
    BY <1>4 DEF SkipsProven
  <2>2. n \in After(c, x) + 1 .. Len(chain[x])
    BY <1>2, <1>4, <2>1 DEF After
  <2>3. <<x, n>> \in RowsRead(c)
    BY <1>4, <2>1, <2>2 DEF RowsRead
  <2> QED
    BY <2>3 DEF Valid
<1> QED
  BY <1>3, <1>4

-----------------------------------------------------------------------------
\* What a thread's step does to its own record.
LEMMA AskedFacts ==
    ASSUME NEW c, NEW at
    PROVE  /\ IsCheck(Asked(c, at))
           /\ Asked(c, at).at = at /\ Asked(c, at).scope = c.scope /\ Asked(c, at).prints = c.prints
           /\ Asked(c, at).ranges = NoCache
BY DEF Asked, NoCheck, IsCheck

LEMMA ChainStep == ChainInv /\ [VerifierNext]_verifierVars => ChainInv'
<1> SUFFICES ASSUME ChainInv, [VerifierNext]_verifierVars PROVE ChainInv'
  OBVIOUS
<1>1. /\ chain' \in [Chains -> Seq(BOOLEAN)]
      /\ \A x \in Chains : Len(chain[x]) \in Nat /\ Len(chain'[x]) \in Nat /\ Len(chain[x]) <= Len(chain'[x])
  BY ChainsGrow
<1>2. \A scope, prints : IsPrint(scope, prints) => IsPrint(scope, prints)'
  BY <1>1 DEF IsPrint
<1>3. CASE UNCHANGED call
  BY <1>1, <1>2, <1>3 DEF ChainInv
<1>4. ASSUME NEW t \in Verifiers, NEW c, call' = [call EXCEPT ![t] = c],
             IsCheck(c), IsPrint(c.scope, c.prints)
      PROVE  ChainInv'
  BY <1>1, <1>2, <1>4 DEF ChainInv
<1>5. ASSUME NEW t \in Verifiers, Begin(t) PROVE ChainInv'
  <2>1. PICK scope \in Scopes, at \in {"begun", "unprinted"} :
           call' = [call EXCEPT ![t] = [NoCheck EXCEPT !.at = at, !.scope = scope, !.prints = Prints(scope)]]
    BY <1>5 DEF Begin, Advance
  <2> DEFINE c == [NoCheck EXCEPT !.at = at, !.scope = scope, !.prints = Prints(scope)]
  <2>2. IsCheck(c) /\ c.scope = scope /\ c.prints = Prints(scope)
    BY DEF IsCheck, NoCheck
  <2>3. IsPrint(scope, Prints(scope))
    BY VerifierAssumption, <1>1 DEF IsPrint, Prints, ChainInv
  <2> HIDE DEF c
  <2> QED
    BY <2>1, <2>2, <2>3, <1>4 DEF c
<1>6. ASSUME NEW t \in Verifiers, NEW c, call' = [call EXCEPT ![t] = c],
             IsCheck(c), c.scope = call[t].scope, c.prints = call[t].prints
      PROVE  ChainInv'
  BY <1>4, <1>6 DEF ChainInv
<1>7. ASSUME NEW t \in Verifiers, CompareKey(t) \/ SeeResult(t) PROVE ChainInv'
  <2>1. PICK at : call' = [call EXCEPT ![t] = Asked(call[t], at)]
    BY <1>7 DEF CompareKey, SeeResult, Advance
  <2> QED
    BY <1>6, <2>1, AskedFacts
<1>8. ASSUME NEW t \in Verifiers, AnswerCached(t) PROVE ChainInv'
  <2>1. PICK c : c = [Asked(call[t], "answered") EXCEPT !.answer = cache.result]
    OBVIOUS
  <2>2. IsCheck(c) /\ c.scope = call[t].scope /\ c.prints = call[t].prints
    BY <2>1 DEF IsCheck, Asked, NoCheck
  <2> QED
    BY <1>6, <1>8, <2>1, <2>2 DEF AnswerCached, Advance
<1>9. ASSUME NEW t \in Verifiers, LookUp(t) PROVE ChainInv'
  <2>1. PICK at, fits : call' = [call EXCEPT ![t] = [Asked(call[t], at) EXCEPT !.fits = fits]]
    BY <1>9 DEF LookUp, Advance
  <2>2. PICK c : c = [Asked(call[t], at) EXCEPT !.fits = fits]
    OBVIOUS
  <2>3. IsCheck(c) /\ c.scope = call[t].scope /\ c.prints = call[t].prints
    BY <2>2 DEF IsCheck, Asked, NoCheck
  <2> QED
    BY <1>6, <2>1, <2>2, <2>3
<1>10. ASSUME NEW t \in Verifiers, FindRanges(t) PROVE ChainInv'
  <2>1. PICK c : c = [Asked(call[t], "ranged") EXCEPT !.ranges = Ranges(call[t], cache.state)]
    OBVIOUS
  <2>2. IsCheck(c) /\ c.scope = call[t].scope /\ c.prints = call[t].prints
    BY <2>1 DEF IsCheck, Asked, NoCheck
  <2> QED
    BY <1>6, <1>10, <2>1, <2>2 DEF FindRanges, Advance
<1>11. ASSUME NEW t \in Verifiers, ReadRows(t) PROVE ChainInv'
  <2>1. PICK at, a : call' = [call EXCEPT ![t] = [Asked(call[t], at) EXCEPT !.answer = a]]
    BY <1>11 DEF ReadRows, Advance
  <2>2. PICK c : c = [Asked(call[t], at) EXCEPT !.answer = a]
    OBVIOUS
  <2>3. IsCheck(c) /\ c.scope = call[t].scope /\ c.prints = call[t].prints
    BY <2>2 DEF IsCheck, Asked, NoCheck
  <2> QED
    BY <1>6, <2>1, <2>2, <2>3
<1>12. ASSUME NEW t \in Verifiers, Finish(t) \/ StoreResult(t) PROVE ChainInv'
  <2>1. PICK at : call' = [call EXCEPT ![t] = [call[t] EXCEPT !.at = at]]
    BY <1>12 DEF Finish, StoreResult, Advance
  <2>2. PICK c : c = [call[t] EXCEPT !.at = at]
    OBVIOUS
  <2>3. IsCheck(c) /\ c.scope = call[t].scope /\ c.prints = call[t].prints
    BY <2>2 DEF ChainInv, IsCheck
  <2> QED
    BY <1>6, <2>1, <2>2, <2>3
<1>13. ASSUME NEW t \in Verifiers, ReadState(t) PROVE ChainInv'
  <2>1. PICK state : call' = [call EXCEPT ![t] = [call[t] EXCEPT !.at = "reading", !.state = state]]
    BY <1>13 DEF ReadState, Advance
  <2>2. PICK c : c = [call[t] EXCEPT !.at = "reading", !.state = state]
    OBVIOUS
  <2>3. IsCheck(c) /\ c.scope = call[t].scope /\ c.prints = call[t].prints
    BY <2>2 DEF ChainInv, IsCheck
  <2> QED
    BY <1>6, <2>1, <2>2, <2>3
<1>14. \A at : IsCheck([NoCheck EXCEPT !.at = at]) /\ IsPrint([NoCheck EXCEPT !.at = at].scope, [NoCheck EXCEPT !.at = at].prints)
  BY DEF IsCheck, IsPrint, NoCheck
<1>15. ASSUME NEW t \in Verifiers, Close(t) \/ Return(t) \/ Fail(t) PROVE ChainInv'
  <2>1. \/ \E at : call' = [call EXCEPT ![t] = [NoCheck EXCEPT !.at = at]]
        \/ call' = [call EXCEPT ![t] = NoCheck]
    BY <1>15 DEF Close, Return, Fail, Advance
  <2>2. IsCheck(NoCheck) /\ IsPrint(NoCheck.scope, NoCheck.prints)
    BY DEF IsCheck, IsPrint, NoCheck
  <2> QED
    BY <1>4, <1>14, <2>1, <2>2
<1> QED
  BY <1>3, <1>5, <1>7, <1>8, <1>9, <1>10, <1>11, <1>12, <1>13, <1>15 DEF VerifierNext, verifierVars, AppendRow, AlterRow

\* What is settled stays so.
LEMMA OkGrows ==
    ASSUME NEW rows, NEW more, rows \subseteq more
    PROVE  /\ \A prints : Settled(prints, rows) => Settled(prints, more)
           /\ \A c : CallOk(c, rows) => CallOk(c, more)
BY DEF Settled, SkipsProven, CallOk

\* A thread's step keeps the fields of the cache settled.
LEMMA CacheStep == VerifierInv /\ [VerifierNext]_verifierVars => CacheInv'
<1> SUFFICES ASSUME VerifierInv, [VerifierNext]_verifierVars PROVE CacheInv'
  OBVIOUS
<1> USE DEF VerifierInv
<1>1. \A prints : Settled(prints, proven) => Settled(prints, proven')
  BY ProvenGrows, OkGrows
<1>2. \A t \in Verifiers : IsCheck(call[t])
  BY DEF ChainInv
<1>3. CASE UNCHANGED cache
  BY <1>1, <1>3 DEF CacheInv
<1>4. ASSUME NEW key, NEW result, NEW state, cache' = [key |-> key, result |-> result, state |-> state],
             key # NoCache => Settled(key[2], proven'),
             state # NoCache => Settled(state, proven') /\ \A x \in DOMAIN state : state[x] \in Nat
      PROVE  CacheInv'
  BY <1>4 DEF CacheInv
<1>5. /\ cache.key # NoCache => Settled(cache.key[2], proven')
      /\ cache.state # NoCache => Settled(cache.state, proven') /\ \A x \in DOMAIN cache.state : cache.state[x] \in Nat
      /\ cache = [key |-> cache.key, result |-> cache.result, state |-> cache.state]
  BY <1>1 DEF CacheInv
<1>6. /\ \A x : [cache EXCEPT !.key = x] = [key |-> x, result |-> cache.result, state |-> cache.state]
      /\ \A x : [cache EXCEPT !.result = x] = [key |-> cache.key, result |-> x, state |-> cache.state]
      /\ \A x : [cache EXCEPT !.state = x] = [key |-> cache.key, result |-> cache.result, state |-> x]
  BY <1>5
<1>8. ASSUME NEW t \in Verifiers, StoreResult(t) PROVE CacheInv'
  <2> USE DEF Remembered
  <2>1. Settled(call[t].prints, proven') /\ \A x \in DOMAIN call[t].prints : call[t].prints[x] \in Nat
    BY <1>1, <1>8 DEF StoreResult, ChecksInv, CallOk, ChainInv, IsPrint
  <2>2. CASE cache' = [cache EXCEPT !.key = <<call[t].scope, call[t].prints>>]
    <3>0. \A a, b : <<a, b>>[2] = b
      OBVIOUS
    <3> DEFINE key == <<call[t].scope, call[t].prints>>
    <3>1. key[2] = call[t].prints /\ cache' = [cache EXCEPT !.key = key]
      BY <2>2, <3>0
    <3> HIDE DEF key
    <3>2. cache' = [key |-> key, result |-> cache.result, state |-> cache.state]
      BY <1>6, <3>1
    <3>3. key # NoCache => Settled(key[2], proven')
      BY <2>1, <3>1
    <3> QED
      BY <1>4, <1>5, <3>2, <3>3
  <2>3. CASE cache' = [cache EXCEPT !.result = call[t].answer]
    BY <1>4, <1>5, <1>6, <2>3
  <2>4. CASE cache' = [cache EXCEPT !.state = call[t].prints]
    BY <1>4, <1>5, <1>6, <2>1, <2>4
  <2> QED
    BY <1>8, <2>2, <2>3, <2>4 DEF StoreResult
<1>9. ASSUME NEW t \in Verifiers, Close(t) PROVE CacheInv'
  BY <1>4, <1>5, <1>6, <1>9 DEF Close
<1> QED
  BY <1>3, <1>8, <1>9 DEF VerifierNext, verifierVars, AppendRow, AlterRow, Begin, CompareKey, SeeResult,
     AnswerCached, LookUp, FindRanges, ReadState, ReadRows, Finish, Return, Fail

\* What a thread relies on when it has moved.
LEMMA CallStep == VerifierInv /\ [VerifierNext]_verifierVars => ChecksInv'
<1> SUFFICES ASSUME VerifierInv, [VerifierNext]_verifierVars PROVE ChecksInv'
  OBVIOUS
<1> USE DEF VerifierInv
<1>1. /\ \A prints : Settled(prints, proven) => Settled(prints, proven')
      /\ \A c : CallOk(c, proven) => CallOk(c, proven')
  BY ProvenGrows, OkGrows
<1>2. CASE UNCHANGED call
  BY <1>1, <1>2 DEF ChecksInv
<1>3. ASSUME NEW t \in Verifiers, NEW c, call' = [call EXCEPT ![t] = c], CallOk(c, proven')
      PROVE  ChecksInv'
  BY <1>1, <1>3 DEF ChecksInv, ChainInv
<1>4. \A t \in Verifiers : IsCheck(call[t]) /\ CallOk(call[t], proven) /\ IsPrint(call[t].scope, call[t].prints)
  BY DEF ChainInv, ChecksInv
<1>5. ASSUME NEW t \in Verifiers, Begin(t) PROVE ChecksInv'
  <2>1. PICK scope \in Scopes, at \in {"begun", "unprinted"} :
           call' = [call EXCEPT ![t] = [NoCheck EXCEPT !.at = at, !.scope = scope, !.prints = Prints(scope)]]
    BY <1>5 DEF Begin, Advance
  <2>2. PICK c : c = [NoCheck EXCEPT !.at = at, !.scope = scope, !.prints = Prints(scope)]
    OBVIOUS
  <2>3. c.at = at /\ c.ranges = NoCache
    BY <2>2 DEF NoCheck
  <2> QED
    BY <1>3, <2>1, <2>2, <2>3 DEF CallOk, SkipsProven
<1>6. ASSUME NEW t \in Verifiers, CompareKey(t) \/ SeeResult(t) \/ LookUp(t) PROVE ChecksInv'
  <2>1. CASE CompareKey(t)
    <3>1. PICK at \in {"matched", "missed"} :
             /\ call' = [call EXCEPT ![t] = Asked(call[t], at)]
             /\ at = "matched" => cache.key # NoCache /\ cache.key = <<call[t].scope, call[t].prints>>
      BY <2>1 DEF CompareKey, Advance, KeyOf
    <3>2. at = "matched" => Settled(call[t].prints, proven')
      BY <1>1, <3>1 DEF CacheInv
    <3>3. CallOk(Asked(call[t], at), proven')
      BY <3>1, <3>2, AskedFacts DEF CallOk
    <3> QED
      BY <1>3, <3>1, <3>3
  <2>2. CASE SeeResult(t)
    <3>1. PICK at \in {"cached", "missed"} : call' = [call EXCEPT ![t] = Asked(call[t], at)]
      BY <2>2 DEF SeeResult, Advance
    <3>2. Settled(call[t].prints, proven')
      BY <1>1, <1>4, <2>2 DEF SeeResult, CallOk
    <3>3. CallOk(Asked(call[t], at), proven')
      BY <3>1, <3>2, AskedFacts DEF CallOk
    <3> QED
      BY <1>3, <3>1, <3>3
  <2>3. CASE LookUp(t)
    <3>1. PICK at \in {"keyed", "looked"} :
             \E fits : call' = [call EXCEPT ![t] = [Asked(call[t], at) EXCEPT !.fits = fits]]
      BY <2>3 DEF LookUp, Advance
    <3>4. PICK fits : call' = [call EXCEPT ![t] = [Asked(call[t], at) EXCEPT !.fits = fits]]
      BY <3>1
    <3>2. PICK c : c = [Asked(call[t], at) EXCEPT !.fits = fits]
      OBVIOUS
    <3>3. c.at = at
      BY <3>2 DEF Asked, NoCheck
    <3> QED
      BY <1>3, <3>1, <3>2, <3>3, <3>4 DEF CallOk
  <2> QED
    BY <1>6, <2>1, <2>2, <2>3
<1>7. ASSUME NEW t \in Verifiers, AnswerCached(t) PROVE ChecksInv'
  <2>1. PICK c : c = [Asked(call[t], "answered") EXCEPT !.answer = cache.result]
    OBVIOUS
  <2>2. call' = [call EXCEPT ![t] = c] /\ c.at = "answered" /\ c.prints = call[t].prints
    BY <1>7, <2>1 DEF AnswerCached, Advance, Asked, NoCheck
  <2>3. Settled(c.prints, proven')
    BY <1>1, <1>4, <1>7, <2>2 DEF AnswerCached, CallOk
  <2> QED
    BY <1>3, <2>2, <2>3 DEF CallOk
<1>8. ASSUME NEW t \in Verifiers, FindRanges(t) PROVE ChecksInv'
  <2>1. PICK c : c = [Asked(call[t], "ranged") EXCEPT !.ranges = Ranges(call[t], cache.state)]
    OBVIOUS
  <2>2. /\ call' = [call EXCEPT ![t] = c] /\ c.at = "ranged" /\ c.prints = call[t].prints
        /\ c.ranges = Ranges(call[t], cache.state)
    BY <1>8, <2>1 DEF FindRanges, Advance, Asked, NoCheck
  <2>3. cache.state # NoCache => Settled(cache.state, proven) /\ \A x \in DOMAIN cache.state : cache.state[x] \in Nat
    BY DEF CacheInv
  <2>4. SkipsProven(c, proven)
    BY <1>4, <2>2, <2>3, RangesSkipProven DEF SkipsProven
  <2>5. CallOk(c, proven)
    BY <2>2, <2>4 DEF CallOk
  <2> QED
    BY <1>1, <1>3, <2>2, <2>5
<1>9. ASSUME NEW t \in Verifiers, ReadState(t) PROVE ChecksInv'
  <2>1. PICK state : call' = [call EXCEPT ![t] = [call[t] EXCEPT !.at = "reading", !.state = state]]
    BY <1>9 DEF ReadState, Advance
  <2>2. PICK c : c = [call[t] EXCEPT !.at = "reading", !.state = state]
    OBVIOUS
  <2>3. c.at = "reading" /\ c.prints = call[t].prints /\ c.ranges = call[t].ranges
    BY <1>4, <2>2 DEF IsCheck
  <2>4. CallOk(c, proven)
    BY <1>4, <1>9, <2>3 DEF ReadState, CallOk, SkipsProven
  <2> QED
    BY <1>1, <1>3, <2>1, <2>2, <2>4
<1>10. ASSUME NEW t \in Verifiers, ReadRows(t) PROVE ChecksInv'
  <2>1. PICK at \in {"read", "answered"} :
           call' = [call EXCEPT ![t] = [Asked(call[t], at) EXCEPT !.answer = [valid |-> Valid(call[t])]]]
    BY <1>10 DEF ReadRows, Advance
  <2>2. PICK c : c = [Asked(call[t], at) EXCEPT !.answer = [valid |-> Valid(call[t])]]
    OBVIOUS
  <2>3. c.at = at /\ c.prints = call[t].prints /\ c.answer.valid = Valid(call[t])
    BY <2>2 DEF Asked, NoCheck
  <2>4. call[t].at \in {"reading", "unprinted"} /\ proven' = proven \cup {r \in RowsRead(call[t]) : chain[r[1]][r[2]]}
    BY <1>10 DEF ReadRows
  <2>5. SkipsProven(call[t], proven) /\ chain \in [Chains -> Seq(BOOLEAN)]
    BY <1>4, <2>4 DEF CallOk, ChainInv
  <2>6. Valid(call[t]) => Settled(c.prints, proven')
    BY <1>4, <2>3, <2>4, <2>5, ReadingSettles DEF Settled
  <2>7. CallOk(c, proven')
    BY <2>1, <2>3, <2>6 DEF CallOk
  <2> QED
    BY <1>3, <2>1, <2>2, <2>7
<1>11. ASSUME NEW t \in Verifiers, Finish(t) PROVE ChecksInv'
  <2>1. PICK at \in {"key", "answered"} :
            /\ call' = [call EXCEPT ![t] = [call[t] EXCEPT !.at = at]]
            /\ at = "key" => call[t].answer.valid
    BY <1>11 DEF Finish, Advance
  <2>2. PICK c : c = [call[t] EXCEPT !.at = at]
    OBVIOUS
  <2>3. c.at = at /\ c.prints = call[t].prints /\ c.answer = call[t].answer
    BY <1>4, <2>2 DEF IsCheck
  <2>4. CallOk(c, proven)
    BY <1>4, <1>11, <2>1, <2>3 DEF Finish, CallOk
  <2> QED
    BY <1>1, <1>3, <2>1, <2>2, <2>4
<1>12. ASSUME NEW t \in Verifiers, StoreResult(t) PROVE ChecksInv'
  <2>1. PICK at \in {"result", "state", "answered"} : call' = [call EXCEPT ![t] = [call[t] EXCEPT !.at = at]]
    BY <1>12 DEF StoreResult, Advance
  <2>2. PICK c : c = [call[t] EXCEPT !.at = at]
    OBVIOUS
  <2>3. c.at = at /\ c.prints = call[t].prints
    BY <1>4, <2>2 DEF IsCheck
  <2>4. CallOk(c, proven)
    BY <1>4, <1>12, <2>3 DEF StoreResult, CallOk
  <2> QED
    BY <1>1, <1>3, <2>1, <2>2, <2>4
<1>13. ASSUME NEW t \in Verifiers, Return(t) \/ Fail(t) \/ Close(t) PROVE ChecksInv'
  <2>1. \/ \E at \in {"unkeyed", "cleared"} : call' = [call EXCEPT ![t] = [NoCheck EXCEPT !.at = at]]
        \/ call' = [call EXCEPT ![t] = NoCheck]
    BY <1>13 DEF Close, Return, Fail, Advance
  <2>2. \A at \in {"unkeyed", "cleared"} : CallOk([NoCheck EXCEPT !.at = at], proven')
    BY DEF NoCheck, CallOk
  <2>3. CallOk(NoCheck, proven')
    BY DEF NoCheck, CallOk
  <2> QED
    BY <1>3, <2>1, <2>2, <2>3
<1> QED
  BY <1>2, <1>5, <1>6, <1>7, <1>8, <1>9, <1>10, <1>11, <1>12, <1>13 DEF VerifierNext, verifierVars, AppendRow, AlterRow

-----------------------------------------------------------------------------
\* The fields of the cache are settled and every thread may rely on what it
\* relies on (verify_chain, evidence_ledger_repo.py).
THEOREM VerifierInvariant == VerifierSpec => []VerifierInv
<1>1. VerifierInv /\ [VerifierNext]_verifierVars => VerifierInv'
  BY ChainStep, CacheStep, CallStep DEF VerifierInv
<1> QED
  BY VerifierStarts, <1>1, PTL DEF VerifierSpec

\* A chain is called valid only when each of its rows was read and found sound
\* (verify_chain and _cached_append_ranges, evidence_ledger_repo.py).
THEOREM AnswersAreProven == VerifierSpec => []ValidMeansProven
<1>1. VerifierInv => ValidMeansProven
  BY DEF VerifierInv, ChecksInv, CallOk, Settled, ValidMeansProven, Answered
<1> QED
  BY <1>1, VerifierInvariant, PTL

------------------------------------------------------------------------------
(***************************************************************************)
(* Proofs about paper orders, for any threads, accounts, results, limits    *)
(* and days.                                                                *)
(*                                                                          *)
(* First, sums over finite sets.  A sum is the value of the one function    *)
(* that adds up the elements in the order CHOOSE takes them; that there is  *)
(* one, and that the order does not matter, is shown by looking at a        *)
(* smallest set for which it is not so.  The result of the day that the     *)
(* shield adds up is therefore the one of the property (DaySums).           *)
(*                                                                          *)
(* Then the orders: one that waits to be placed was recorded as approved    *)
(* and passed a guard that saw a day not lost; one of the router passed an  *)
(* unlocked interceptor (DeskOk).  What a thread remembers of its order     *)
(* only falls while the order is the same.                                  *)
(***************************************************************************)

Pick(s) == CHOOSE x \in s : TRUE

\* h sums g over every subset of T.
Sums(g, h, T) == h = [s \in SUBSET T |-> IF s = {} THEN 0 ELSE g[Pick(s)] + h[s \ {Pick(s)}]]

Total(g, T) == (CHOOSE h : Sums(g, h, T))[T]

LEMMA PickIn == ASSUME NEW s, s # {} PROVE Pick(s) \in s
BY DEF Pick

LEMMA SmallestSubset ==
    ASSUME NEW S, IsFiniteSet(S), NEW F, F \subseteq SUBSET S, F # {}
    PROVE  \E T \in F : \A U \in F : U \subseteq T => U = T
<1>1. F \subseteq FiniteSubsetsOf(S)
  BY FS_Subset DEF FiniteSubsetsOf
<1>2. IsWellFoundedOn(StrictSubsetOrdering(S), FiniteSubsetsOf(S))
  BY FS_StrictSubsetOrderingWellFounded
<1>3. PICK T \in F : \A U \in F : ~ (<<U, T>> \in StrictSubsetOrdering(S))
  BY <1>1, <1>2, WFMin
<1>4. \A U \in F : U \subseteq T => U = T
  BY <1>3 DEF StrictSubsetOrdering
<1> QED BY <1>4

LEMMA SumsAgree ==
    ASSUME NEW g, NEW T, IsFiniteSet(T), NEW U, NEW h, NEW k, Sums(g, h, T), Sums(g, k, U),
           NEW s \in SUBSET (T \cap U)
    PROVE  h[s] = k[s]
<1> DEFINE F == {r \in SUBSET (T \cap U) : h[r] # k[r]}
<1>1. SUFFICES ASSUME F # {} PROVE FALSE
  OBVIOUS
<1>2. F \subseteq SUBSET T
  OBVIOUS
<1> HIDE DEF F
<1>3. PICK r \in F : \A u \in F : u \subseteq r => u = r
  BY <1>1, <1>2, SmallestSubset
<1>4. r \in SUBSET T /\ r \in SUBSET U /\ h[r] # k[r]
  BY DEF F
<1>5. CASE r = {}
  BY <1>4, <1>5 DEF Sums
<1>6. CASE r # {}
  <2>1. Pick(r) \in r
    BY <1>6, PickIn
  <2>2. r \ {Pick(r)} \notin F /\ r \ {Pick(r)} \in SUBSET (T \cap U)
    BY <1>3, <1>4, <2>1
  <2>3. h[r \ {Pick(r)}] = k[r \ {Pick(r)}]
    BY <2>2 DEF F
  <2>4. h[r] = g[Pick(r)] + h[r \ {Pick(r)}] /\ k[r] = g[Pick(r)] + k[r \ {Pick(r)}]
    BY <1>4, <1>6 DEF Sums
  <2> QED BY <1>4, <2>3, <2>4
<1> QED BY <1>5, <1>6

LEMMA SumsExist ==
    ASSUME NEW g, NEW S, IsFiniteSet(S)
    PROVE  \E h : Sums(g, h, S)
<1> DEFINE F == {T \in SUBSET S : ~ \E h : Sums(g, h, T)}
<1>1. SUFFICES ASSUME F # {} PROVE FALSE
  BY DEF F
<1>2. F \subseteq SUBSET S
  OBVIOUS
<1> HIDE DEF F
<1>3. PICK T \in F : \A U \in F : U \subseteq T => U = T
  BY <1>1, <1>2, SmallestSubset
<1>4. T \in SUBSET S /\ ~ \E h : Sums(g, h, T)
  BY DEF F
<1> DEFINE H(s) == CHOOSE h : Sums(g, h, s)
           c == Pick(T)
           V(s) == IF s = {} THEN 0 ELSE IF s # T THEN H(s)[s] ELSE g[c] + H(T \ {c})[T \ {c}]
           h == [s \in SUBSET T |-> V(s)]
<1>5. \A s \in SUBSET T : s # T => Sums(g, H(s), s)
  <2>1. SUFFICES ASSUME NEW s \in SUBSET T, s # T PROVE Sums(g, H(s), s)
    OBVIOUS
  <2>2. s \notin F /\ s \in SUBSET S
    BY <1>3, <1>4, <2>1
  <2>3. \E k : Sums(g, k, s)
    BY <2>2 DEF F
  <2> QED BY <2>3
<1> HIDE DEF H
<1>6. ASSUME NEW s \in SUBSET T, s # {}
      PROVE  V(s) = g[Pick(s)] + V(s \ {Pick(s)})
  <2> DEFINE r == s \ {Pick(s)}
  <2>1. Pick(s) \in s /\ r \in SUBSET T /\ r # T /\ r \in SUBSET s /\ r # s
    BY <1>6, PickIn
  <2>2. V(r) = H(r)[r]
    <3>1. CASE r = {}
      <4>1. Sums(g, H(r), r)
        BY <1>5, <2>1
      <4>2. H(r)[r] = 0
        BY <3>1, <4>1 DEF Sums
      <4> QED BY <3>1, <4>2
    <3> QED BY <2>1, <3>1
  <2>3. CASE s = T
    BY <1>6, <2>2, <2>3
  <2>4. CASE s # T
    <3>1. Sums(g, H(s), s) /\ Sums(g, H(r), r)
      BY <1>5, <2>1, <2>4
    <3>2. H(s)[s] = g[Pick(s)] + H(s)[r]
      BY <1>6, <3>1 DEF Sums
    <3>3. IsFiniteSet(s)
      BY <1>4, FS_Subset
    <3> HIDE DEF r
    <3>4. H(s)[r] = H(r)[r]
      BY <2>1, <3>1, <3>3, SumsAgree
    <3>5. V(s) = H(s)[s]
      BY <1>6, <2>4
    <3> QED BY <2>2, <3>2, <3>4, <3>5 DEF r
  <2> QED BY <2>3, <2>4
<1> HIDE DEF V, c
<1>7. V({}) = 0
  BY DEF V
<1>8. ASSUME NEW s \in SUBSET T
      PROVE  h[s] = IF s = {} THEN 0 ELSE g[Pick(s)] + h[s \ {Pick(s)}]
  BY <1>6, <1>7, <1>8
<1>9. h = [s \in SUBSET T |-> IF s = {} THEN 0 ELSE g[Pick(s)] + h[s \ {Pick(s)}]]
  <2>1. h = [s \in SUBSET T |-> h[s]]
    OBVIOUS
  <2> HIDE DEF h
  <2> QED BY <1>8, <2>1
<1> QED BY <1>4, <1>9 DEF Sums

LEMMA TotalRecursion ==
    ASSUME NEW g, NEW S, IsFiniteSet(S)
    PROVE  Total(g, S) = IF S = {} THEN 0 ELSE g[Pick(S)] + Total(g, S \ {Pick(S)})
<1> DEFINE H(s) == CHOOSE h : Sums(g, h, s)
           r == S \ {Pick(S)}
<1>1. IsFiniteSet(r) /\ r \in SUBSET (S \cap r)
  BY FS_Subset
<1>2. Sums(g, H(S), S) /\ Sums(g, H(r), r)
  <2>1. (\E h : Sums(g, h, S)) /\ (\E h : Sums(g, h, r))
    BY <1>1, SumsExist
  <2> QED BY <2>1
<1>3. Total(g, S) = H(S)[S] /\ Total(g, r) = H(r)[r]
  BY DEF Total
<1> HIDE DEF H
<1>4. H(S)[S] = IF S = {} THEN 0 ELSE g[Pick(S)] + H(S)[r]
  BY <1>2 DEF Sums
<1> HIDE DEF r
<1>5. H(S)[r] = H(r)[r]
  BY <1>1, <1>2, SumsAgree
<1> QED BY <1>3, <1>4, <1>5 DEF r

LEMMA TotalIsInt ==
    ASSUME NEW g, NEW S, IsFiniteSet(S), \A x \in S : g[x] \in Int
    PROVE  Total(g, S) \in Int
<1> DEFINE F == {T \in SUBSET S : Total(g, T) \notin Int}
<1>1. SUFFICES ASSUME F # {} PROVE FALSE
  OBVIOUS
<1>2. F \subseteq SUBSET S
  OBVIOUS
<1> HIDE DEF F
<1>3. PICK T \in F : \A U \in F : U \subseteq T => U = T
  BY <1>1, <1>2, SmallestSubset
<1>4. T \in SUBSET S /\ Total(g, T) \notin Int /\ IsFiniteSet(T)
  BY FS_Subset DEF F
<1>5. Total(g, T) = IF T = {} THEN 0 ELSE g[Pick(T)] + Total(g, T \ {Pick(T)})
  BY <1>4, TotalRecursion
<1>6. T # {} => Pick(T) \in T
  BY PickIn
<1>7. T # {} => Total(g, T \ {Pick(T)}) \in Int
  <2>1. T # {} => T \ {Pick(T)} \notin F /\ T \ {Pick(T)} \in SUBSET S
    BY <1>3, <1>4, <1>6
  <2> QED BY <2>1 DEF F
<1> QED BY <1>4, <1>5, <1>6, <1>7

\* Any element may be taken out first.
LEMMA TotalRemove ==
    ASSUME NEW g, NEW S, IsFiniteSet(S), \A x \in S : g[x] \in Int, NEW y \in S
    PROVE  Total(g, S) = g[y] + Total(g, S \ {y})
<1> DEFINE F == {T \in SUBSET S : \E x \in T : Total(g, T) # g[x] + Total(g, T \ {x})}
<1>1. SUFFICES ASSUME F # {} PROVE FALSE
  OBVIOUS
<1>2. F \subseteq SUBSET S
  OBVIOUS
<1> HIDE DEF F
<1>3. PICK T \in F : \A U \in F : U \subseteq T => U = T
  BY <1>1, <1>2, SmallestSubset
<1>4. PICK x \in T : Total(g, T) # g[x] + Total(g, T \ {x})
  BY DEF F
<1>5. PICK p : p = Pick(T)
  OBVIOUS
<1>6. T \in SUBSET S /\ p \in T /\ IsFiniteSet(T)
  BY <1>4, <1>5, FS_Subset, PickIn DEF F
<1>7. Total(g, T) = g[p] + Total(g, T \ {p})
  BY <1>5, <1>6, TotalRecursion
<1>8. p # x
  BY <1>4, <1>7
<1>9. Total(g, T \ {p}) = g[x] + Total(g, (T \ {p}) \ {x})
  <2>1. T \ {p} \notin F /\ T \ {p} \in SUBSET S /\ x \in T \ {p}
    BY <1>3, <1>6, <1>8
  <2> QED BY <2>1 DEF F
<1>10. Total(g, T \ {x}) = g[p] + Total(g, (T \ {x}) \ {p})
  <2>1. T \ {x} \notin F /\ T \ {x} \in SUBSET S /\ p \in T \ {x}
    BY <1>3, <1>6, <1>8
  <2> QED BY <2>1 DEF F
<1>11. (T \ {p}) \ {x} = (T \ {x}) \ {p}
  OBVIOUS
<1>12. g[p] \in Int /\ g[x] \in Int /\ Total(g, (T \ {x}) \ {p}) \in Int
  <2>1. IsFiniteSet((T \ {x}) \ {p}) /\ \A z \in (T \ {x}) \ {p} : g[z] \in Int
    BY <1>6, FS_Subset
  <2>2. g[p] \in Int /\ g[x] \in Int
    BY <1>6
  <2> QED BY <2>1, <2>2, TotalIsInt
<1>13. PICK a, b, t : a = g[p] /\ b = g[x] /\ t = Total(g, (T \ {x}) \ {p})
  OBVIOUS
<1>14. Total(g, T) = a + (b + t) /\ g[x] + Total(g, T \ {x}) = b + (a + t)
  BY <1>7, <1>9, <1>10, <1>11, <1>13
<1> QED BY <1>4, <1>12, <1>13, <1>14

\* A sum with zeros for what is left out is the sum over the rest.
LEMMA TotalOver ==
    ASSUME NEW S, IsFiniteSet(S), NEW D, NEW f, NEW g,
           \A x \in S : f[x] \in Int /\ g[x] = IF x \in D THEN f[x] ELSE 0
    PROVE  Total(g, S) = Total(f, S \cap D)
<1> DEFINE F == {T \in SUBSET S : Total(g, T) # Total(f, T \cap D)}
<1>1. SUFFICES ASSUME F # {} PROVE FALSE
  OBVIOUS
<1>2. F \subseteq SUBSET S
  OBVIOUS
<1> HIDE DEF F
<1>3. PICK T \in F : \A U \in F : U \subseteq T => U = T
  BY <1>1, <1>2, SmallestSubset
<1>4. T \in SUBSET S /\ Total(g, T) # Total(f, T \cap D) /\ IsFiniteSet(T) /\ IsFiniteSet(T \cap D)
  BY FS_Subset DEF F
<1>5. CASE T = {}
  <2>1. T \cap D = {} /\ Total(g, T) = 0
    BY <1>4, <1>5, TotalRecursion
  <2>2. Total(f, T \cap D) = 0
    BY <1>4, <2>1, TotalRecursion
  <2> QED BY <1>4, <2>1, <2>2
<1>6. CASE T # {}
  <2>1. PICK x : x = Pick(T)
    OBVIOUS
  <2>2. x \in T /\ Total(g, T) = g[x] + Total(g, T \ {x})
    BY <1>4, <1>6, <2>1, TotalRecursion, PickIn
  <2>3. Total(g, T \ {x}) = Total(f, (T \ {x}) \cap D)
    <3>1. T \ {x} \notin F /\ T \ {x} \in SUBSET S
      BY <1>3, <1>4, <2>2
    <3> QED BY <3>1 DEF F
  <2>4. CASE x \in D
    <3>1. Total(f, T \cap D) = f[x] + Total(f, (T \cap D) \ {x})
      BY <1>4, <2>2, <2>4, TotalRemove
    <3>2. (T \cap D) \ {x} = (T \ {x}) \cap D /\ g[x] = f[x]
      BY <1>4, <2>2, <2>4
    <3> QED BY <1>4, <2>2, <2>3, <3>1, <3>2
  <2>5. CASE x \notin D
    <3>1. T \cap D = (T \ {x}) \cap D /\ g[x] = 0
      BY <1>4, <2>2, <2>5
    <3>2. Total(f, T \cap D) \in Int
      BY <1>4, TotalIsInt
    <3>3. PICK t : t = Total(f, T \cap D)
      OBVIOUS
    <3>4. Total(g, T) = 0 + t /\ t \in Int
      BY <2>2, <2>3, <3>1, <3>2, <3>3
    <3> QED BY <1>4, <3>3, <3>4
  <2> QED BY <2>4, <2>5
<1> QED BY <1>5, <1>6

-----------------------------------------------------------------------------
(* The result of the day *)

Ids == Positions \cup PaperIds
Rows == [status : {"none", "OPEN", "CLOSED", "CANCELED"}, pnl : Int, day : Nat]

RowsInv == orderRows \in [Ids -> Rows] /\ day \in Nat

LEMMA PnlIsTotal ==
    ASSUME NEW T, NEW g, g = [i \in T |-> orderRows[i].pnl]
    PROVE  PnlOf(T) = Total(g, T)
BY DEF PnlOf, Total, Sums, Pick, MapThenSumSet, MapThenFoldSet

DayOver(ids) ==
    MapThenSumSet(LAMBDA i : IF orderRows[i].status = "CLOSED" /\ orderRows[i].day = day THEN orderRows[i].pnl ELSE 0,
                  ids)

LEMMA DayIsTotal ==
    ASSUME NEW T,
           NEW g, g = [i \in T |-> IF orderRows[i].status = "CLOSED" /\ orderRows[i].day = day
                                   THEN orderRows[i].pnl ELSE 0]
    PROVE  DayOver(T) = Total(g, T)
BY DEF DayOver, Total, Sums, Pick, MapThenSumSet, MapThenFoldSet

LEMMA DaySums ==
    ASSUME RowsInv
    PROVE  SumOfDay = TodaysPnl /\ TodaysPnl \in Int
<1>1. PICK T, D, f, g :
        /\ T = DOMAIN orderRows
        /\ D = {i \in ClosedRows : orderRows[i].day = day}
        /\ f = [i \in T |-> orderRows[i].pnl]
        /\ g = [i \in T |-> IF orderRows[i].status = "CLOSED" /\ orderRows[i].day = day
                            THEN orderRows[i].pnl ELSE 0]
  OBVIOUS
<1>2. IsFiniteSet(T) /\ T = Ids /\ D \subseteq T /\ T \cap D = D
  BY <1>1, PaperAssumption DEF RowsInv, Ids, ClosedRows
<1>3. SumOfDay = DayOver(T)
  BY <1>1 DEF SumOfDay, DayOver, MapThenSumSet, MapThenFoldSet
<1>4. DayOver(T) = Total(g, T)
  BY <1>1, DayIsTotal
<1>5. TodaysPnl = PnlOf(D)
  BY <1>1 DEF TodaysPnl, PnlOf, MapThenSumSet, MapThenFoldSet
<1>7. \A x \in T : f[x] \in Int /\ g[x] = IF x \in D THEN f[x] ELSE 0
  BY <1>1, <1>2 DEF RowsInv, Rows, ClosedRows
<1>8. Total(g, T) = Total(f, D)
  BY <1>2, <1>7, TotalOver
<1>9. IsFiniteSet(D)
  BY <1>2, FS_Subset
<1>10. Total(f, D) \in Int
  BY <1>2, <1>7, <1>9, TotalIsInt
<1>11. PnlOf(D) = Total(f, D)
  <2>1. PICK e : e = [i \in D |-> orderRows[i].pnl]
    OBVIOUS
  <2>2. \A x \in D : f[x] \in Int /\ e[x] = IF x \in D THEN f[x] ELSE 0
    BY <1>1, <1>2, <1>7, <2>1
  <2>3. Total(e, D) = Total(f, D \cap D) /\ D \cap D = D
    BY <1>9, <2>2, TotalOver
  <2> QED BY <2>1, <2>3, PnlIsTotal
<1> QED BY <1>3, <1>4, <1>5, <1>8, <1>10, <1>11

\* A day that is not near its limit is not lost.
LEMMA NotLost ==
    ASSUME RowsInv, ~ NearLimit
    PROVE  ~ DayLost
<1>1. PICK p : p = TodaysPnl
  OBVIOUS
<1>2. p \in Int /\ SumOfDay = p
  BY <1>1, DaySums
<1>3. PICK loss : loss = DailyLoss(0)
  OBVIOUS
<1>4. loss = Max({0, -(p + 0)})
  BY <1>1, <1>3 DEF DailyLoss
<1>5. \E x \in {0, -(p + 0)} : \A y \in {0, -(p + 0)} : x >= y
  BY <1>2
<1>6. loss \in {0, -(p + 0)} /\ \A y \in {0, -(p + 0)} : loss >= y
  BY <1>4, <1>5 DEF Max
<1>7. loss \in Int /\ loss >= - p
  BY <1>2, <1>6
<1>8. ~ (loss >= DailyLimit - GuardBand)
  BY <1>3 DEF NearLimit
<1> QED BY <1>2, <1>7, <1>8, PaperAssumption DEF DayLost

-----------------------------------------------------------------------------
(* Orders on their way *)

Records == [lossy : BOOLEAN, locked : BOOLEAN]

IsDesk(d) == {"at", "route", "order", "left"} \subseteq DOMAIN d

\* What is known of an order by the time it has come to where it is.
DeskOk(d, s, onRecord) ==
    /\ d.at = "place" => d.order \in onRecord /\ ~ s.lossy
    /\ d.at \in {"guard", "place"} /\ d.route # "order" => ~ s.locked

DeskInv ==
    /\ desk = [t \in Desks |-> desk[t]]
    /\ \A t \in Desks : IsDesk(desk[t]) /\ DeskOk(desk[t], since[t], cleared)

PaperInv == RowsInv /\ DeskInv /\ FillsWereCleared

\* What is remembered of an order only falls, and falls with what it is about.
LEMMA OrderRemembered ==
    ASSUME Remember, NEW t \in Desks, desk'[t].at # "free", desk'[t].order = desk[t].order
    PROVE  /\ ~ since[t].lossy \/ ~ DayLost' => ~ since'[t].lossy
           /\ ~ since[t].locked \/ ~ locked' => ~ since'[t].locked
<1>1. since'[t] = [lossy |-> since[t].lossy /\ DayLost', locked |-> since[t].locked /\ locked']
  BY DEF Remember
<1>2. /\ since'[t].lossy = (since[t].lossy /\ DayLost')
      /\ since'[t].locked = (since[t].locked /\ locked')
  BY <1>1
<1> QED BY <1>2, Zenon

\* Nothing that leaves a desk alone, or takes it back, disturbs it.
LEMMA DeskStays ==
    ASSUME DeskInv, Remember, cleared \subseteq cleared', NEW t \in Desks,
           \/ desk'[t] = desk[t]
           \/ IsDesk(desk'[t]) /\ desk'[t].at \notin {"guard", "place"}
    PROVE  IsDesk(desk'[t]) /\ DeskOk(desk'[t], since'[t], cleared')
<1>1. CASE desk'[t] = desk[t]
  <2>1. CASE desk[t].at = "free"
    BY <1>1, <2>1 DEF DeskInv, DeskOk
  <2>2. CASE desk[t].at # "free"
    <3>1. (~ since[t].lossy => ~ since'[t].lossy) /\ (~ since[t].locked => ~ since'[t].locked)
      BY <1>1, <2>2, OrderRemembered
    <3> QED BY <1>1, <3>1 DEF DeskInv, DeskOk
  <2> QED BY <2>1, <2>2
<1>2. CASE IsDesk(desk'[t]) /\ desk'[t].at \notin {"guard", "place"}
  BY <1>2 DEF DeskOk
<1> QED BY <1>1, <1>2

LEMMA DesksStay ==
    ASSUME DeskInv, Remember, cleared \subseteq cleared', NEW t \in Desks, NEW d,
           desk' = [desk EXCEPT ![t] = d], IsDesk(d),
           d.at \in {"guard", "place"} => DeskOk(d, since'[t], cleared')
    PROVE  DeskInv'
<1>1. desk' = [u \in Desks |-> desk'[u]] /\ desk'[t] = d /\ \A u \in Desks \ {t} : desk'[u] = desk[u]
  BY DEF DeskInv
<1>2. \A u \in Desks \ {t} : IsDesk(desk'[u]) /\ DeskOk(desk'[u], since'[u], cleared')
  BY <1>1, DeskStays
<1>3. IsDesk(desk'[t]) /\ DeskOk(desk'[t], since'[t], cleared')
  <2>1. CASE d.at \in {"guard", "place"}
    BY <1>1, <2>1
  <2>2. CASE d.at \notin {"guard", "place"}
    BY <1>1, <2>2, DeskStays
  <2> QED BY <2>1, <2>2
<1> QED BY <1>1, <1>2, <1>3 DEF DeskInv

\* The thread goes on to its next account, or is free.
Leaves(t) == \E d : desk' = [desk EXCEPT ![t] = d] /\ IsDesk(d) /\ d.at \notin {"guard", "place"}

LEMMA OrderIsOver ==
    ASSUME DeskInv, NEW t \in Desks, AfterOrder(t) \/ Refuse(t)
    PROVE  Leaves(t)
<1>1. IsDesk(FreeDesk) /\ FreeDesk.at = "free"
  BY DEF IsDesk, FreeDesk
<1>2. CASE Refuse(t)
  BY <1>1, <1>2 DEF Refuse, Leaves
<1>3. CASE AfterOrder(t) /\ ~ Refuse(t)
  <2>1. PICK n, left : desk' = [desk EXCEPT ![t] = [@ EXCEPT !.at = "intercept", !.order = n, !.left = left]]
    BY <1>3 DEF AfterOrder
  <2>2. PICK d : d = [desk[t] EXCEPT !.at = "intercept", !.order = n, !.left = left]
    OBVIOUS
  <2>3. desk' = [desk EXCEPT ![t] = d]
    BY <2>1, <2>2
  <2>4. IsDesk(d) /\ d.at = "intercept"
    BY <2>2 DEF IsDesk, DeskInv
  <2> QED BY <2>3, <2>4 DEF Leaves
<1> QED BY <1>2, <1>3

LEMMA LeavingIsSafe ==
    ASSUME DeskInv, Remember, cleared \subseteq cleared', NEW t \in Desks, Leaves(t)
    PROVE  DeskInv'
BY DesksStay DEF Leaves

-----------------------------------------------------------------------------
(* Steps *)

LEMMA SubmitStep ==
    ASSUME PaperInv, NEW t \in Desks, Submit(t)
    PROVE  PaperInv'
<1>0. PICK route \in Routes : \E n, left :
        desk' = [desk EXCEPT ![t] = [at |-> IF route = "order" THEN "guard" ELSE "intercept",
                                     route |-> route, order |-> n, left |-> left]]
  BY DEF Submit
<1>1. PICK n, left :
        desk' = [desk EXCEPT ![t] = [at |-> IF route = "order" THEN "guard" ELSE "intercept",
                                     route |-> route, order |-> n, left |-> left]]
  BY <1>0
<1> DEFINE d == [at |-> IF route = "order" THEN "guard" ELSE "intercept",
                 route |-> route, order |-> n, left |-> left]
<1>2. IsDesk(d) /\ DeskOk(d, since'[t], cleared')
  BY DEF IsDesk, DeskOk
<1>3. /\ Remember /\ UNCHANGED <<orderRows, cleared, filled, day>>
  BY DEF Submit
<1> HIDE DEF d
<1>4. DeskInv'
  BY <1>1, <1>2, <1>3, DesksStay DEF d, PaperInv
<1> QED BY <1>3, <1>4 DEF PaperInv, RowsInv, FillsWereCleared

LEMMA LeaveStep ==
    ASSUME PaperInv, NEW t \in Desks, Leaves(t), Remember, UNCHANGED <<orderRows, filled, day>>,
           cleared \subseteq cleared'
    PROVE  PaperInv'
<1>1. DeskInv'
  BY LeavingIsSafe DEF PaperInv
<1> QED BY <1>1 DEF PaperInv, RowsInv, FillsWereCleared

LEMMA OrderGoesOn ==
    ASSUME DeskInv, NEW t \in Desks, NEW where, Go(t, where)
    PROVE  \E d : /\ desk' = [desk EXCEPT ![t] = d] /\ IsDesk(d) /\ d.at = where
                  /\ d.order = desk[t].order /\ d.route = desk[t].route
                  /\ desk'[t] = d
<1>1. PICK d : d = [desk[t] EXCEPT !.at = where]
  OBVIOUS
<1>2. desk' = [desk EXCEPT ![t] = d] /\ desk'[t] = d
  BY <1>1 DEF Go, DeskInv
<1>3. IsDesk(d) /\ d.at = where /\ d.order = desk[t].order /\ d.route = desk[t].route
  BY <1>1 DEF DeskInv, IsDesk
<1> QED BY <1>2, <1>3

LEMMA InterceptStep ==
    ASSUME PaperInv, NEW t \in Desks, Intercept(t)
    PROVE  PaperInv'
<1>1. /\ At(t, "intercept") /\ Remember
      /\ UNCHANGED <<orderRows, cleared, filled, day, locked>>
      /\ AfterOrder(t) \/ (~ locked /\ Go(t, "guard"))
  BY DEF Intercept, LockedOut
<1>2. CASE AfterOrder(t)
  BY <1>1, <1>2, OrderIsOver, LeaveStep DEF PaperInv
<1>3. CASE ~ locked /\ Go(t, "guard")
  <2>1. PICK d : /\ desk' = [desk EXCEPT ![t] = d] /\ IsDesk(d) /\ d.at = "guard"
                 /\ d.order = desk[t].order /\ desk'[t] = d
    BY <1>3, OrderGoesOn DEF PaperInv
  <2>2. ~ since'[t].locked
    <3>1. desk'[t].at # "free" /\ desk'[t].order = desk[t].order
      BY <2>1
    <3>2. ~ locked'
      BY <1>1, <1>3
    <3> QED BY <1>1, <3>1, <3>2, OrderRemembered
  <2>3. DeskOk(d, since'[t], cleared')
    BY <2>1, <2>2 DEF DeskOk
  <2>4. DeskInv'
    BY <1>1, <2>1, <2>3, DesksStay DEF PaperInv
  <2> QED BY <1>1, <2>4 DEF PaperInv, RowsInv, FillsWereCleared
<1> QED BY <1>1, <1>2, <1>3

LEMMA DayLostStays ==
    ASSUME UNCHANGED <<orderRows, day>>
    PROVE  DayLost' <=> DayLost
BY DEF DayLost, SumOfDay, MapThenSumSet, MapThenFoldSet

LEMMA GuardStep ==
    ASSUME PaperInv, NEW t \in Desks, Guard(t)
    PROVE  PaperInv'
<1>1. /\ At(t, "guard") /\ Remember /\ cleared \subseteq cleared'
      /\ UNCHANGED <<orderRows, filled, day, locked>>
      /\ \/ AfterOrder(t)
         \/ ~ NearLimit /\ desk[t].order \in cleared' /\ Go(t, "place")
  BY DEF Guard, ClearanceKept
<1>2. CASE AfterOrder(t)
  BY <1>1, <1>2, OrderIsOver, LeaveStep DEF PaperInv
<1>3. CASE ~ NearLimit /\ desk[t].order \in cleared' /\ Go(t, "place")
  <2>1. PICK d : /\ desk' = [desk EXCEPT ![t] = d] /\ IsDesk(d) /\ d.at = "place"
                 /\ d.order = desk[t].order /\ d.route = desk[t].route /\ desk'[t] = d
    BY <1>3, OrderGoesOn DEF PaperInv
  <2>2. ~ DayLost'
    BY <1>1, <1>3, NotLost, DayLostStays DEF PaperInv
  <2>3. desk'[t].at # "free" /\ desk'[t].order = desk[t].order
    BY <2>1
  <2>4. ~ since'[t].lossy /\ (~ since[t].locked => ~ since'[t].locked)
    BY <1>1, <2>2, <2>3, OrderRemembered
  <2>5. DeskOk(d, since'[t], cleared')
    BY <1>1, <1>3, <2>1, <2>4 DEF DeskOk, PaperInv, DeskInv, At
  <2>6. DeskInv'
    BY <1>1, <2>1, <2>5, DesksStay DEF PaperInv
  <2> QED BY <1>1, <2>6 DEF PaperInv, RowsInv, FillsWereCleared
<1> QED BY <1>1, <1>2, <1>3

LEMMA PlaceStep ==
    ASSUME PaperInv, NEW t \in Desks, Place(t)
    PROVE  PaperInv'
<1>1. PICK i \in PaperIds :
        /\ orderRows' = [orderRows EXCEPT ![i] = OpenRow]
        /\ filled' = filled \cup {[order |-> desk[t].order, id |-> i, route |-> desk[t].route,
                                  since |-> since[t]]}
  BY DEF Place
<1>2. At(t, "place") /\ AfterOrder(t) /\ Remember /\ UNCHANGED <<cleared, day>>
  BY DEF Place
<1>3. DeskInv'
  BY <1>2, OrderIsOver, LeavingIsSafe DEF PaperInv
<1>4. RowsInv'
  <2>1. OpenRow \in Rows
    BY DEF OpenRow, NoRow, Rows
  <2> QED BY <1>1, <1>2, <2>1 DEF PaperInv, RowsInv, Ids
<1>5. FillsWereCleared'
  <2>1. DeskOk(desk[t], since[t], cleared)
    BY DEF PaperInv, DeskInv
  <2> QED BY <1>1, <1>2, <2>1 DEF PaperInv, FillsWereCleared, DeskOk, At
<1> QED BY <1>3, <1>4, <1>5 DEF PaperInv

\* Steps that leave the orders where they are.
LEMMA AroundStep ==
    ASSUME PaperInv, Remember, UNCHANGED <<cleared, filled, desk>>, RowsInv'
    PROVE  PaperInv'
<1>1. DeskInv'
  BY DeskStays DEF PaperInv, DeskInv
<1> QED BY <1>1 DEF PaperInv, FillsWereCleared

LEMMA RowStep ==
    ASSUME PaperInv, NEW i \in DOMAIN orderRows, CancelOrder(i) \/ CloseTrade(i)
    PROVE  PaperInv'
<1>1. orderRows[i] \in Rows /\ i \in Ids
  BY DEF PaperInv, RowsInv
<1>2. CASE CancelOrder(i)
  BY <1>1, <1>2, AroundStep DEF CancelOrder, PaperInv, RowsInv, Rows
<1>3. CASE CloseTrade(i)
  <2>1. PICK pnl \in Results :
          orderRows' = [orderRows EXCEPT ![i] = [@ EXCEPT !.status = "CLOSED", !.pnl = pnl, !.day = day]]
    BY <1>3 DEF CloseTrade
  <2>2. pnl \in Int
    BY PaperAssumption
  <2>3. RowsInv'
    BY <1>1, <1>3, <2>1, <2>2 DEF CloseTrade, PaperInv, RowsInv, Rows
  <2> QED BY <1>3, <2>3, AroundStep DEF CloseTrade
<1> QED BY <1>2, <1>3

LEMMA RestartStep ==
    ASSUME PaperInv, RestartDesk
    PROVE  PaperInv'
<1>1. DeskInv'
  BY DEF RestartDesk, DeskInv, DeskOk, IsDesk, FreeDesk
<1> QED BY <1>1 DEF RestartDesk, PaperInv, RowsInv, FillsWereCleared

LEMMA PaperStarts == PaperInit => PaperInv
<1> SUFFICES ASSUME PaperInit PROVE PaperInv
  OBVIOUS
<1>1. RowsInv
  <2>1. OpenRow \in Rows /\ NoRow \in Rows
    BY DEF OpenRow, NoRow, Rows
  <2> QED BY <2>1 DEF PaperInit, RowsInv, Ids
<1>2. DeskInv
  BY DEF PaperInit, DeskInv, DeskOk, IsDesk, FreeDesk
<1> QED BY <1>1, <1>2 DEF PaperInit, PaperInv, FillsWereCleared

LEMMA PaperStep == PaperInv /\ [PaperNext]_paperVars => PaperInv'
<1> SUFFICES ASSUME PaperInv, [PaperNext]_paperVars PROVE PaperInv'
  OBVIOUS
<1>1. CASE UNCHANGED paperVars
  BY <1>1 DEF paperVars, PaperInv, RowsInv, DeskInv, FillsWereCleared
<1>2. ASSUME NEW t \in Desks, Submit(t) \/ Intercept(t) \/ Guard(t) \/ Place(t) PROVE PaperInv'
  BY <1>2, SubmitStep, InterceptStep, GuardStep, PlaceStep
<1>3. ASSUME NEW t \in Desks, SkipAccount(t) \/ PlaceFails(t) PROVE PaperInv'
  <2>1. /\ AfterOrder(t) \/ Refuse(t)
        /\ Remember /\ UNCHANGED <<orderRows, cleared, filled, day>>
    BY <1>3 DEF SkipAccount, PlaceFails
  <2> QED BY <2>1, OrderIsOver, LeaveStep DEF PaperInv
<1>4. ASSUME NEW i \in DOMAIN orderRows, CancelOrder(i) \/ CloseTrade(i) PROVE PaperInv'
  BY <1>4, RowStep
<1>5. CASE MarkPositions \/ ConfigureShield \/ TriggerKillSwitch \/ DisarmLockdown
  <2>1. Remember /\ UNCHANGED <<orderRows, cleared, filled, desk, day>>
    BY <1>5 DEF MarkPositions, ConfigureShield, TriggerKillSwitch, DisarmLockdown
  <2> QED BY <2>1, AroundStep DEF PaperInv, RowsInv
<1>6. CASE NextDay
  BY <1>6, AroundStep DEF NextDay, PaperInv, RowsInv
<1>7. CASE RestartDesk
  BY <1>7, RestartStep
<1> QED BY <1>1, <1>2, <1>3, <1>4, <1>5, <1>6, <1>7 DEF PaperNext

\* However orders, closes, days, locks and restarts interleave, the invariant
\* holds.
THEOREM PaperInvariant == PaperSpec => []PaperInv
<1> QED
  BY PaperStarts, PaperStep, PTL DEF PaperSpec

\* Every paper fill was approved on record before, on a day that was not already
\* lost when the order came in and stayed so, and no order of the router is
\* filled under a lockdown that was there all the time: ccxt_engine.py,
\* risk_guard.py, compliance_engine.py, panic_switch.py.
THEOREM FillsAreCleared == PaperSpec => []FillsWereCleared
<1>1. PaperInv => FillsWereCleared
  BY DEF PaperInv
<1> QED
  BY <1>1, PaperInvariant, PTL

-----------------------------------------------------------------------------
(***************************************************************************)
(* Proofs about the evidence root of the depth observations, for any        *)
(* reports, keys, commands and number of runs.                              *)
(*                                                                          *)
(* A manifest that parses has only grown since any earlier time at which    *)
(* somebody read it: a line that meets torn text is lost, but then the      *)
(* manifest never parses again (LogGrows).  So what a command has read is   *)
(* still there when it writes (RunOk).  A bundle hashes every manifest      *)
(* before it copies any: the reviews it has rest on attestations that were  *)
(* there before the attestations were copied.                               *)
(***************************************************************************)

RootItems == {<<>>} \cup {<<r>> : r \in Reports} \cup (Reports \X Keys) \cup ({"register", "revoke"} \X Keys)
RootLines == [item : RootItems, ended : BOOLEAN]
Logs      == Seq(RootLines)

Commanded == {"archive", "attest", "review", "register", "revoke", "bundle"}
Verbs     == {"open", "file", "line", "gate", "list", "hash", "copy", "save"}
Steps     == Verbs \X (Kinds \cup {"bundle"})

RootRuns ==
    [op : Commanded \cup {"none"}, item : RootItems, todo : Seq(Steps), seen : [Kinds -> SUBSET RootItems],
     listed : [Kinds -> SUBSET RootItems], hashed : [Kinds -> Logs \cup {{}}],
     copied : [Kinds -> Logs \cup {{}}], began : [Kinds -> SUBSET RootItems]]

\* What a manifest says later, if it says anything.
LogGrows(new, old) == Parses(new) => Parses(old) /\ Items(old) \subseteq Items(new)
AllGrow(new, old)  == \A k \in Kinds : LogGrows(new[k], old[k])

\* Every review of one manifest has an attestation in another.
RestsOn(reviews, log) ==
    Parses(log) => \A v \in Items(reviews) : v # <<>> => \E k \in Keys : AttestationRecord(v[1], k) \in Items(log)

\* A command has done the first steps of its list.
StepsLeft(op, todo) ==
    /\ op = "none" => todo = <<>>
    /\ op # "none" => /\ Len(todo) <= Len(Todo(op))
                      /\ \A n \in 1 .. Len(todo) : todo[n] = Todo(op)[Len(Todo(op)) - Len(todo) + n]

CopyHas(x, k) == x.copied[k] \in Logs /\ (Parses(x.copied[k]) => x.began[k] \subseteq Items(x.copied[k]))

\* What a command has read is still there.
ReadOk(x, ln, ak) ==
    /\ \A k \in Kinds : Parses(ln[k]) => x.seen[k] \subseteq Items(ln[k])
    /\ \A k \in Kinds : x.began[k] \subseteq ak[k]
    /\ x.op = "review" /\ Len(x.todo) <= 3 =>
          \E k \in Keys : AttestationRecord(x.item[1], k) \in x.seen["attestation"]

BundlingOk(x, ln) ==
    x.op = "bundle" =>
        /\ Len(x.todo) < 5 => RestsOn(x.hashed["review"], ln["attestation"])
        /\ Len(x.todo) < 4 => CopyHas(x, "report")
        /\ Len(x.todo) < 3 => CopyHas(x, "attestation") /\ RestsOn(x.hashed["review"], x.copied["attestation"])
        /\ Len(x.todo) < 2 => CopyHas(x, "review")

RunOk(x, ln, ak) == x \in RootRuns /\ StepsLeft(x.op, x.todo) /\ ReadOk(x, ln, ak) /\ BundlingOk(x, ln)

AllRunsOk(rn, ln, ak) == rn \in [Commands -> RootRuns] /\ \A c \in Commands : RunOk(rn[c], ln, ak)

LogsOk(ln, ak) ==
    /\ ln \in [Kinds -> Logs] /\ ak \in [Kinds -> SUBSET RootItems]
    /\ \A k \in Kinds : Parses(ln[k]) => ak[k] \subseteq Items(ln[k])
    /\ RestsOn(ln["review"], ln["attestation"])

BundleOk(b) == (\A k \in Stores : CopyHas(b, k)) /\ RestsOn(b.hashed["review"], b.copied["attestation"])

BundlesOk(made, opened) ==
    /\ \A b \in made : BundleOk(b)
    /\ \A b \in opened : b \in made /\ Verifies(b) /\ Reopens(b)

RootInv ==
    /\ files \in [Stores -> SUBSET RootItems]
    /\ LogsOk(lines, acked) /\ AllRunsOk(run, lines, acked) /\ BundlesOk(bundles, restored)

-----------------------------------------------------------------------------
(* Manifests *)

LEMMA LogFacts ==
    ASSUME NEW log \in Logs
    PROVE  /\ Len(log) \in Nat /\ DOMAIN log = 1 .. Len(log)
           /\ \A n \in DOMAIN log : log[n] \in RootLines /\ log[n].item \in RootItems
           /\ Items(log) \subseteq RootItems
           /\ \A i : i \in Items(log) <=> \E n \in DOMAIN log : log[n].item = i
           /\ Parses(log) => <<>> \notin Items(log)
<1>1. Len(log) \in Nat /\ DOMAIN log = 1 .. Len(log)
  BY DEF Logs
<1>2. \A n \in DOMAIN log : log[n] \in RootLines
  BY <1>1, ElementOfSeq DEF Logs
<1>3. \A n \in DOMAIN log : log[n].item \in RootItems
  BY <1>2 DEF RootLines
<1>4. \A i : i \in Items(log) <=> \E n \in DOMAIN log : log[n].item = i
  BY DEF Items
<1>5. Items(log) \subseteq RootItems
  BY <1>3, <1>4
<1>6. Parses(log) => <<>> \notin Items(log)
  BY <1>4 DEF Parses, IsRecord
<1> QED
  BY <1>1, <1>2, <1>3, <1>4, <1>5, <1>6

\* The whole of a manifest that parses is read.
LEMMA ReadIsItems ==
    ASSUME NEW log \in Logs
    PROVE  /\ Read(log) \subseteq Items(log)
           /\ Parses(log) => Read(log) = Items(log)
<1>1. Read(log) \subseteq Items(log)
  BY DEF Read, Items
<1>2. ASSUME Parses(log) PROVE Items(log) \subseteq Read(log)
  <2> SUFFICES ASSUME NEW n \in DOMAIN log PROVE log[n].item \in Read(log)
    BY DEF Items
  <2>1. n \in 1 .. Len(log) /\ Len(log) \in Nat
    BY LogFacts
  <2>2. /\ DOMAIN SubSeq(log, 1, n) = 1 .. n
        /\ \A i \in 1 .. n : SubSeq(log, 1, n)[i] = log[i]
    <3> DEFINE sub == SubSeq(log, 1, n)
    <3>1. Len(sub) = n /\ \A i \in 1 .. n : sub[i] = log[1 + i - 1]
      BY <2>1, SubSeqProperties DEF Logs
    <3>2. sub \in Seq(RootLines)
      BY <2>1, SubSeqProperties DEF Logs
    <3> HIDE DEF sub
    <3>3. DOMAIN sub = 1 .. n
      BY <3>1, <3>2
    <3>4. \A i \in 1 .. n : 1 + i - 1 = i
      BY <2>1
    <3> QED
      BY <3>1, <3>3, <3>4 DEF sub
  <2>3. \A i \in 1 .. n : IsRecord(log[i])
    BY <1>2, <2>1, LogFacts DEF Parses
  <2>4. Parses(SubSeq(log, 1, n))
    BY <2>2, <2>3 DEF Parses
  <2> QED
    BY <2>4 DEF Read
<1> QED
  BY <1>1, <1>2

\* A line is added, or lost in torn text: then the manifest is no record of anything.
LEMMA AppendedGrows ==
    ASSUME NEW log \in Logs, NEW line \in RootLines
    PROVE  /\ Appended(log, line) \in Logs
           /\ LogGrows(Appended(log, line), log)
           /\ Parses(Appended(log, line)) => line.item \in Items(Appended(log, line))
           /\ Items(Appended(log, line)) \subseteq Items(log) \cup {line.item, <<>>}
<1> DEFINE new == Appended(log, line)
<1>1. /\ Len(log) \in Nat /\ DOMAIN log = 1 .. Len(log)
      /\ \A n \in DOMAIN log : log[n] \in RootLines
  BY LogFacts
<1>2. line.item \in RootItems /\ line.ended \in BOOLEAN /\ <<>> \in RootItems
  BY DEF RootLines, RootItems
<1>3. CASE log # <<>> /\ ~ Last(log).ended
  <2> DEFINE torn == [Torn EXCEPT !.ended = line.ended]
  <2>1. torn.item = <<>> /\ torn \in RootLines
    BY <1>2 DEF Torn, RootLines
  <2>2. new = [log EXCEPT ![Len(log)] = torn]
    BY <1>3 DEF Appended
  <2>3. Len(log) \in 1 .. Len(log)
    BY <1>1, <1>3 DEF Logs
  <2> HIDE DEF torn, new
  <2>4. /\ DOMAIN new = 1 .. Len(log) /\ new[Len(log)] = torn
        /\ \A n \in DOMAIN new : new[n] = torn \/ new[n] = log[n]
    BY <1>1, <2>2, <2>3
  <2>5. new \in Logs
    BY <1>1, <2>1, <2>2, <2>3, ExceptSeq DEF Logs
  <2>6. ~ Parses(new)
    BY <2>1, <2>3, <2>4 DEF Parses, IsRecord
  <2>7. Items(new) \subseteq Items(log) \cup {<<>>}
    BY <1>1, <2>1, <2>4 DEF Items
  <2> QED
    BY <2>5, <2>6, <2>7 DEF LogGrows, new
<1>4. CASE ~ (log # <<>> /\ ~ Last(log).ended)
  <2>1. new = Append(log, line)
    BY <1>4 DEF Appended
  <2> HIDE DEF new
  <2>2. /\ new \in Logs /\ Len(new) = Len(log) + 1 /\ new[Len(log) + 1] = line
        /\ \A n \in 1 .. Len(log) : new[n] = log[n]
    BY <2>1, AppendProperties DEF Logs
  <2>3. DOMAIN new = 1 .. Len(log) + 1
    BY <2>2, LogFacts
  <2>4. \A n \in 1 .. Len(log) + 1 : n \in 1 .. Len(log) \/ n = Len(log) + 1
    BY <1>1
  <2>5. Len(log) + 1 \in DOMAIN new /\ \A n \in DOMAIN log : n \in DOMAIN new /\ new[n] = log[n]
    BY <1>1, <2>2, <2>3
  <2>6. Items(log) \subseteq Items(new) /\ line.item \in Items(new)
    BY <2>2, <2>5 DEF Items
  <2>7. Items(new) \subseteq Items(log) \cup {line.item}
    BY <1>1, <2>2, <2>3, <2>4 DEF Items
  <2>8. Parses(new) => Parses(log)
    BY <2>5 DEF Parses
  <2> QED
    BY <2>2, <2>6, <2>7, <2>8 DEF LogGrows, new
<1> QED
  BY <1>3, <1>4

LEMMA RestsLater ==
    ASSUME NEW reviews, NEW old, NEW new, LogGrows(new, old), RestsOn(reviews, old)
    PROVE  RestsOn(reviews, new)
BY DEF LogGrows, RestsOn

-----------------------------------------------------------------------------
(* Commands *)

Joins(whole, s, m, t, n) ==
    /\ Len(whole) = m + n
    /\ \A i \in 1 .. m : whole[i] = s[i]
    /\ \A i \in 1 .. n : whole[m + i] = t[i]

LEMMA Joined ==
    ASSUME NEW S, NEW s \in Seq(S), NEW t \in Seq(S), NEW m \in Nat, NEW n \in Nat, Len(s) = m, Len(t) = n
    PROVE  s \o t \in Seq(S) /\ Joins(s \o t, s, m, t, n)
<1>1. /\ s \o t \in Seq(S) /\ Len(s \o t) = m + n
      /\ \A i \in 1 .. m + n : (s \o t)[i] = IF i <= m THEN s[i] ELSE t[i - m]
  BY ConcatProperties
<1>2. \A i \in 1 .. m : i \in 1 .. m + n /\ i <= m
  OBVIOUS
<1>3. \A i \in 1 .. n : m + i \in 1 .. m + n /\ ~ (m + i <= m) /\ m + i - m = i
  OBVIOUS
<1> QED
  BY <1>1, <1>2, <1>3 DEF Joins

LEMMA OfOne ==
    ASSUME NEW S, NEW a \in S
    PROVE  <<a>> \in Seq(S) /\ Len(<<a>>) = 1 /\ <<a>>[1] = a
OBVIOUS

LEMMA OfTwo ==
    ASSUME NEW S, NEW a \in S, NEW b \in S
    PROVE  <<a, b>> \in Seq(S) /\ Len(<<a, b>>) = 2 /\ <<a, b>>[1] = a /\ <<a, b>>[2] = b
OBVIOUS

LEMMA OfThree ==
    ASSUME NEW S, NEW a \in S, NEW b \in S, NEW c \in S
    PROVE  /\ <<a, b, c>> \in Seq(S) /\ Len(<<a, b, c>>) = 3
           /\ <<a, b, c>>[1] = a /\ <<a, b, c>>[2] = b /\ <<a, b, c>>[3] = c
OBVIOUS

LEMMA OfFive ==
    ASSUME NEW S, NEW a \in S, NEW b \in S, NEW c \in S, NEW d \in S, NEW e \in S
    PROVE  /\ <<a, b, c, d, e>> \in Seq(S) /\ Len(<<a, b, c, d, e>>) = 5
           /\ <<a, b, c, d, e>>[1] = a /\ <<a, b, c, d, e>>[2] = b /\ <<a, b, c, d, e>>[3] = c
           /\ <<a, b, c, d, e>>[4] = d /\ <<a, b, c, d, e>>[5] = e
OBVIOUS

LEMMA OneStep ==
    /\ \A verb \in Verbs : \A kind \in Kinds : <<verb, kind>> \in Steps
    /\ <<"save", "bundle">> \in Steps
    /\ "open" \in Verbs /\ "file" \in Verbs /\ "line" \in Verbs /\ "gate" \in Verbs
    /\ "list" \in Verbs /\ "hash" \in Verbs /\ "copy" \in Verbs
    /\ "report" \in Kinds /\ "attestation" \in Kinds /\ "review" \in Kinds /\ "key" \in Kinds
BY DEF Steps, Verbs, Kinds, Stores

\* The steps of each command, one by one.
LEMMA WriteSteps ==
    ASSUME NEW k \in Kinds
    PROVE  Write(k) \in Seq(Steps) /\ Len(Write(k)) = 2 /\ Write(k)[1] = <<"file", k>> /\ Write(k)[2] = <<"line", k>>
<1>1. <<"file", k>> \in Steps /\ <<"line", k>> \in Steps
  BY OneStep
<1>2. Write(k) = <<<<"file", k>>, <<"line", k>>>>
  BY DEF Write
<1> DEFINE f == <<"file", k>>
           l == <<"line", k>>
<1>3. f \in Steps /\ l \in Steps /\ Write(k) = <<f, l>>
  BY <1>1, <1>2
<1> HIDE DEF f, l
<1>4. Write(k) \in Seq(Steps) /\ Len(Write(k)) = 2 /\ Write(k)[1] = f /\ Write(k)[2] = l
  BY <1>3, OfTwo
<1> QED
  BY <1>4 DEF f, l

LEMMA ForSteps ==
    ASSUME NEW verb \in Verbs
    PROVE  /\ ForStores(verb) \in Seq(Steps) /\ Len(ForStores(verb)) = 3
           /\ ForStores(verb)[1] = <<verb, "report">> /\ ForStores(verb)[2] = <<verb, "attestation">>
           /\ ForStores(verb)[3] = <<verb, "review">>
<1> DEFINE a == <<verb, "report">>
           b == <<verb, "attestation">>
           c == <<verb, "review">>
<1>1. a \in Steps /\ b \in Steps /\ c \in Steps
  BY OneStep
<1>2. ForStores(verb) = <<a, b, c>>
  BY DEF ForStores
<1> HIDE DEF a, b, c
<1>3. /\ ForStores(verb) \in Seq(Steps) /\ Len(ForStores(verb)) = 3
      /\ ForStores(verb)[1] = a /\ ForStores(verb)[2] = b /\ ForStores(verb)[3] = c
  BY <1>1, <1>2, OfThree
<1> QED
  BY <1>3 DEF a, b, c

LEMMA ArchiveSteps ==
    /\ Todo("archive") \in Seq(Steps)
    /\ Len(Todo("archive")) = 3 /\ Todo("archive")[1] = <<"open", "report">>
    /\ Todo("archive")[2] = <<"file", "report">> /\ Todo("archive")[3] = <<"line", "report">>
<1> DEFINE s == <<Open("report")>>
           u == Write("report")
<1>1. Todo("archive") = s \o u
  BY DEF Todo
<1>2. Open("report") = <<"open", "report">> /\ Open("report") \in Steps
  BY OneStep DEF Open
<1>3. s \in Seq(Steps) /\ Len(s) = 1 /\ s[1] = Open("report")
  BY <1>2, OfOne
<1>4. u \in Seq(Steps) /\ Len(u) = 2 /\ u[1] = <<"file", "report">> /\ u[2] = <<"line", "report">>
  BY WriteSteps, OneStep
<1> HIDE DEF s, u
<1>5. /\ Todo("archive") \in Seq(Steps) /\ Len(Todo("archive")) = 1 + 2 /\ \A i \in 1 .. 1 : Todo("archive")[i] = s[i]
      /\ \A i \in 1 .. 2 : Todo("archive")[1 + i] = u[i]
  <2>1. 1 \in Nat /\ 2 \in Nat
    OBVIOUS
  <2>2. s \o u \in Seq(Steps) /\ Joins(s \o u, s, 1, u, 2)
    BY <1>3, <1>4, <2>1, Joined, Zenon
  <2> QED
    BY <1>1, <2>2 DEF Joins
<1>6. Todo("archive")[1] = s[1] /\ Todo("archive")[1 + 1] = u[1] /\ Todo("archive")[1 + 2] = u[2]
  BY <1>5
<1> QED
  BY <1>2, <1>3, <1>4, <1>5, <1>6

LEMMA AttestSteps ==
    /\ Todo("attest") \in Seq(Steps)
    /\ Len(Todo("attest")) = 4 /\ Todo("attest")[1] = <<"open", "report">> /\ Todo("attest")[2] = <<"open", "attestation">>
    /\ Todo("attest")[3] = <<"file", "attestation">> /\ Todo("attest")[4] = <<"line", "attestation">>
<1> DEFINE s == <<Open("report"), Open("attestation")>>
           u == Write("attestation")
<1>1. Todo("attest") = s \o u
  BY DEF Todo
<1>2. /\ Open("report") = <<"open", "report">> /\ Open("report") \in Steps
      /\ Open("attestation") = <<"open", "attestation">> /\ Open("attestation") \in Steps
  BY OneStep DEF Open
<1>3. s \in Seq(Steps) /\ Len(s) = 2 /\ s[1] = Open("report") /\ s[2] = Open("attestation")
  BY <1>2, OfTwo
<1>4. u \in Seq(Steps) /\ Len(u) = 2 /\ u[1] = <<"file", "attestation">> /\ u[2] = <<"line", "attestation">>
  BY WriteSteps, OneStep
<1> HIDE DEF s, u
<1>5. /\ Todo("attest") \in Seq(Steps) /\ Len(Todo("attest")) = 2 + 2 /\ \A i \in 1 .. 2 : Todo("attest")[i] = s[i]
      /\ \A i \in 1 .. 2 : Todo("attest")[2 + i] = u[i]
  <2>1. 2 \in Nat /\ 2 \in Nat
    OBVIOUS
  <2>2. s \o u \in Seq(Steps) /\ Joins(s \o u, s, 2, u, 2)
    BY <1>3, <1>4, <2>1, Joined, Zenon
  <2> QED
    BY <1>1, <2>2 DEF Joins
<1>6. /\ Todo("attest")[1] = s[1] /\ Todo("attest")[2] = s[2]
      /\ Todo("attest")[2 + 1] = u[1] /\ Todo("attest")[2 + 2] = u[2]
  BY <1>5
<1> QED
  BY <1>2, <1>3, <1>4, <1>5, <1>6

LEMMA KeySteps ==
    \A op \in {"register", "revoke"} :
        Todo(op) \in Seq(Steps) /\ Len(Todo(op)) = 2 /\ Todo(op)[1] = <<"open", "key">> /\ Todo(op)[2] = <<"line", "key">>
<1> DEFINE a == <<"open", "key">>
           b == <<"line", "key">>
<1>1. a \in Steps /\ b \in Steps
  BY OneStep
<1>2. \A op \in {"register", "revoke"} : Todo(op) = <<a, b>>
  BY DEF Todo, Open
<1> HIDE DEF a, b
<1>3. \A op \in {"register", "revoke"} : Todo(op) \in Seq(Steps) /\ Len(Todo(op)) = 2 /\ Todo(op)[1] = a /\ Todo(op)[2] = b
  <2>1. <<a, b>> \in Seq(Steps) /\ Len(<<a, b>>) = 2 /\ <<a, b>>[1] = a /\ <<a, b>>[2] = b
    BY <1>1, OfTwo
  <2> QED
    BY <1>2, <2>1
<1> QED
  BY <1>3 DEF a, b

LEMMA ReviewSteps ==
    /\ Todo("review") \in Seq(Steps)
    /\ Len(Todo("review")) = 7 /\ Todo("review")[1] = <<"open", "report">> /\ Todo("review")[2] = <<"open", "attestation">>
    /\ Todo("review")[3] = <<"open", "key">> /\ Todo("review")[4] = <<"gate", "review">>
    /\ Todo("review")[5] = <<"open", "review">> /\ Todo("review")[6] = <<"file", "review">>
    /\ Todo("review")[7] = <<"line", "review">>
<1> DEFINE g == <<"gate", "review">>
           s == <<Open("report"), Open("attestation"), Open("key"), g, Open("review")>>
           u == Write("review")
<1>1. Todo("review") = s \o u
  BY DEF Todo
<1>2. /\ Open("report") = <<"open", "report">> /\ Open("report") \in Steps
      /\ Open("attestation") = <<"open", "attestation">> /\ Open("attestation") \in Steps
      /\ Open("key") = <<"open", "key">> /\ Open("key") \in Steps
      /\ Open("review") = <<"open", "review">> /\ Open("review") \in Steps
      /\ g \in Steps
  BY OneStep DEF Open
<1> HIDE DEF g
<1>3. /\ s \in Seq(Steps) /\ Len(s) = 5 /\ s[1] = Open("report") /\ s[2] = Open("attestation")
      /\ s[3] = Open("key") /\ s[4] = g /\ s[5] = Open("review")
  BY <1>2, OfFive
<1>4. u \in Seq(Steps) /\ Len(u) = 2 /\ u[1] = <<"file", "review">> /\ u[2] = <<"line", "review">>
  BY WriteSteps, OneStep
<1> HIDE DEF s, u
<1>5. /\ Todo("review") \in Seq(Steps) /\ Len(Todo("review")) = 5 + 2 /\ \A i \in 1 .. 5 : Todo("review")[i] = s[i]
      /\ \A i \in 1 .. 2 : Todo("review")[5 + i] = u[i]
  <2>1. 5 \in Nat /\ 2 \in Nat
    OBVIOUS
  <2>2. s \o u \in Seq(Steps) /\ Joins(s \o u, s, 5, u, 2)
    BY <1>3, <1>4, <2>1, Joined, Zenon
  <2> QED
    BY <1>1, <2>2 DEF Joins
<1>6. /\ Todo("review")[1] = s[1] /\ Todo("review")[2] = s[2] /\ Todo("review")[3] = s[3]
      /\ Todo("review")[4] = s[4] /\ Todo("review")[5] = s[5]
      /\ Todo("review")[5 + 1] = u[1] /\ Todo("review")[5 + 2] = u[2]
  BY <1>5
<1> QED
  BY <1>2, <1>3, <1>4, <1>5, <1>6 DEF g

LEMMA BundleSteps ==
    LET t == Todo("bundle")
    IN  /\ t \in Seq(Steps) /\ Len(t) = 13
        /\ \A i \in 1 .. 3 : t[i] = ForStores("open")[i] /\ t[3 + i] = ForStores("list")[i]
                             /\ t[6 + i] = ForStores("hash")[i] /\ t[9 + i] = ForStores("copy")[i]
        /\ t[13] = <<"save", "bundle">>
<1> DEFINE o == ForStores("open")
           l == ForStores("list")
           h == ForStores("hash")
           p == ForStores("copy")
           z == <<"save", "bundle">>
           s == <<z>>
           ol == o \o l
           olh == ol \o h
           all == olh \o p
           t == Todo("bundle")
<1>1. /\ o \in Seq(Steps) /\ Len(o) = 3 /\ l \in Seq(Steps) /\ Len(l) = 3 /\ h \in Seq(Steps) /\ Len(h) = 3
      /\ p \in Seq(Steps) /\ Len(p) = 3
  BY ForSteps, OneStep
<1>2. z \in Steps
  BY OneStep
<1>3. t = all \o s
  BY DEF Todo
<1> HIDE DEF z
<1>4. s \in Seq(Steps) /\ Len(s) = 1 /\ s[1] = z
  BY <1>2, OfOne
<1> HIDE DEF o, l, h, p, s, t
<1>5. /\ ol \in Seq(Steps) /\ Len(ol) = 3 + 3
      /\ \A i \in 1 .. 3 : ol[i] = o[i] /\ ol[3 + i] = l[i]
  <2>1. 3 \in Nat /\ 3 \in Nat /\ Len(o) = 3
    BY <1>1
  <2>2. o \o l \in Seq(Steps) /\ Joins(o \o l, o, 3, l, 3)
    BY <1>1, <2>1, Joined, Zenon
  <2> QED
    BY <2>2 DEF Joins
<1> HIDE DEF ol
<1>6. /\ olh \in Seq(Steps) /\ Len(olh) = 6 + 3
      /\ \A i \in 1 .. 6 : olh[i] = ol[i]
      /\ \A i \in 1 .. 3 : olh[6 + i] = h[i]
  <2>1. 6 \in Nat /\ 3 \in Nat /\ Len(ol) = 6
    BY <1>1, <1>5
  <2>2. ol \o h \in Seq(Steps) /\ Joins(ol \o h, ol, 6, h, 3)
    BY <1>1, <1>5, <2>1, Joined, Zenon
  <2> QED
    BY <2>2 DEF Joins
<1> HIDE DEF olh
<1>7. /\ all \in Seq(Steps) /\ Len(all) = 9 + 3
      /\ \A i \in 1 .. 9 : all[i] = olh[i]
      /\ \A i \in 1 .. 3 : all[9 + i] = p[i]
  <2>1. 9 \in Nat /\ 3 \in Nat /\ Len(olh) = 9
    BY <1>1, <1>6
  <2>2. olh \o p \in Seq(Steps) /\ Joins(olh \o p, olh, 9, p, 3)
    BY <1>1, <1>6, <2>1, Joined, Zenon
  <2> QED
    BY <2>2 DEF Joins
<1> HIDE DEF all
<1>8. /\ t \in Seq(Steps) /\ Len(t) = 12 + 1
      /\ \A i \in 1 .. 12 : t[i] = all[i]
      /\ \A i \in 1 .. 1 : t[12 + i] = s[i]
  <2>1. 12 \in Nat /\ 1 \in Nat /\ Len(all) = 12
    BY <1>4, <1>7
  <2>2. all \o s \in Seq(Steps) /\ Joins(all \o s, all, 12, s, 1)
    BY <1>4, <1>7, <2>1, Joined, Zenon
  <2> QED
    BY <2>2, <1>3 DEF Joins
<1>9. \A i \in 1 .. 3 : /\ i \in 1 .. 6 /\ i \in 1 .. 9 /\ i \in 1 .. 12
                        /\ 3 + i \in 1 .. 6 /\ 3 + i \in 1 .. 9 /\ 3 + i \in 1 .. 12
                        /\ 6 + i \in 1 .. 9 /\ 6 + i \in 1 .. 12 /\ 9 + i \in 1 .. 12
  OBVIOUS
<1>10. \A i \in 1 .. 3 : t[i] = o[i] /\ t[3 + i] = l[i] /\ t[6 + i] = h[i] /\ t[9 + i] = p[i]
  <2> SUFFICES ASSUME NEW i \in 1 .. 3
                PROVE  t[i] = o[i] /\ t[3 + i] = l[i] /\ t[6 + i] = h[i] /\ t[9 + i] = p[i]
    OBVIOUS
  <2>1. t[i] = all[i] /\ t[3 + i] = all[3 + i] /\ t[6 + i] = all[6 + i] /\ t[9 + i] = all[9 + i]
    BY <1>8, <1>9
  <2>2. all[i] = olh[i] /\ all[3 + i] = olh[3 + i] /\ all[6 + i] = olh[6 + i] /\ all[9 + i] = p[i]
    BY <1>7, <1>9
  <2>3. olh[i] = ol[i] /\ olh[3 + i] = ol[3 + i] /\ olh[6 + i] = h[i]
    BY <1>6, <1>9
  <2>4. ol[i] = o[i] /\ ol[3 + i] = l[i]
    BY <1>5
  <2> QED
    BY <2>1, <2>2, <2>3, <2>4, Zenon
<1>11. t \in Seq(Steps) /\ Len(t) = 13 /\ t[12 + 1] = s[1]
  BY <1>8
<1> QED
  BY <1>4, <1>10, <1>11 DEF o, l, h, p, z, t

\* The step a command is about to take tells how many are left.
NextIs(op, todo, verb, kind) ==
    /\ op # "none"
    /\ verb = "line" /\ kind = "review" => op = "review" /\ Len(todo) = 1
    /\ verb = "gate" => op = "review" /\ Len(todo) = 4
    /\ verb = "file" => op # "bundle" /\ (op = "review" => Len(todo) = 2)
    /\ verb = "open" /\ op = "review" => \/ kind = "report" /\ Len(todo) = 7
                                         \/ kind = "attestation" /\ Len(todo) = 6
                                         \/ kind = "key" /\ Len(todo) = 5
                                         \/ kind = "review" /\ Len(todo) = 3
    /\ verb = "open" /\ op = "bundle" => Len(todo) > 10
    /\ verb = "list" => op = "bundle" /\ Len(todo) > 7
    /\ verb = "hash" => op = "bundle" /\ \/ kind = "report" /\ Len(todo) = 7
                                         \/ kind = "attestation" /\ Len(todo) = 6
                                         \/ kind = "review" /\ Len(todo) = 5
    /\ verb = "copy" => op = "bundle" /\ \/ kind = "report" /\ Len(todo) = 4
                                         \/ kind = "attestation" /\ Len(todo) = 3
                                         \/ kind = "review" /\ Len(todo) = 2
    /\ verb = "save" => op = "bundle" /\ Len(todo) = 1

LEMMA NextStep ==
    ASSUME NEW op \in Commanded \cup {"none"}, NEW todo \in Seq(Steps), StepsLeft(op, todo), todo # <<>>,
           NEW verb, NEW kind, Head(todo) = <<verb, kind>>
    PROVE  NextIs(op, todo, verb, kind)
<1>1. op # "none"
  BY DEF StepsLeft
<1>2. Len(todo) \in Nat /\ Len(todo) >= 1 /\ Head(todo) = todo[1]
  BY EmptySeq, HeadTailProperties
<1> DEFINE i == Len(Todo(op)) - Len(todo) + 1
<1>3. Len(todo) <= Len(Todo(op)) /\ Todo(op)[i] = <<verb, kind>>
  BY <1>1, <1>2 DEF StepsLeft
<1> DEFINE l == Len(todo)
<1>4. \A n \in Nat : Len(Todo(op)) = n => i \in 1 .. n /\ l = n + 1 - i
  BY <1>2, <1>3
<1> HIDE DEF i, l
<1>5. CASE op = "archive"
  <2>1. l = 4 - i /\ i \in {1, 2, 3}
    <3>1. 3 \in Nat /\ Len(Todo(op)) = 3
      BY <1>5, ArchiveSteps
    <3>2. i \in 1 .. 3 /\ l = 3 + 1 - i
      BY <1>4, <3>1
    <3> QED
      BY <3>2
  <2>2. verb \in {"open", "file", "line"} /\ kind = "report"
    BY <1>3, <1>5, <2>1, ArchiveSteps
  <2> QED
    BY <1>1, <1>5, <2>2 DEF NextIs
<1>6. CASE op = "attest"
  <2>1. l = 5 - i /\ i \in {1, 2, 3, 4}
    <3>1. 4 \in Nat /\ Len(Todo(op)) = 4
      BY <1>6, AttestSteps
    <3>2. i \in 1 .. 4 /\ l = 4 + 1 - i
      BY <1>4, <3>1
    <3> QED
      BY <3>2
  <2>2. verb \in {"open", "file", "line"} /\ kind \in {"report", "attestation"}
    BY <1>3, <1>6, <2>1, AttestSteps
  <2> QED
    BY <1>1, <1>6, <2>2 DEF NextIs
<1>7. CASE op \in {"register", "revoke"}
  <2>1. l = 3 - i /\ i \in {1, 2}
    <3>1. 2 \in Nat /\ Len(Todo(op)) = 2
      BY <1>7, KeySteps
    <3>2. i \in 1 .. 2 /\ l = 2 + 1 - i
      BY <1>4, <3>1
    <3> QED
      BY <3>2
  <2>2. verb \in {"open", "line"} /\ kind = "key"
    BY <1>3, <1>7, <2>1, KeySteps
  <2> QED
    BY <1>1, <1>7, <2>2 DEF NextIs
<1>8. CASE op = "review"
  <2>1. l = 8 - i /\ i \in {1, 2, 3, 4, 5, 6, 7}
    <3>1. 7 \in Nat /\ Len(Todo(op)) = 7
      BY <1>8, ReviewSteps
    <3>2. i \in 1 .. 7 /\ l = 7 + 1 - i
      BY <1>4, <3>1
    <3> QED
      BY <3>2
  <2>2. <<verb, kind>> = Todo("review")[i]
    BY <1>3, <1>8
  <2>3. \/ verb = "open" /\ \/ kind = "report" /\ l = 7
                            \/ kind = "attestation" /\ l = 6
                            \/ kind = "key" /\ l = 5
                            \/ kind = "review" /\ l = 3
        \/ verb = "gate" /\ l = 4
        \/ verb = "file" /\ l = 2
        \/ verb = "line" /\ l = 1
    BY <2>1, <2>2, ReviewSteps
  <2> QED
    BY <1>1, <1>8, <2>3 DEF l, NextIs
<1>9. CASE op = "bundle"
  <2>1. l = 14 - i /\ i \in 1 .. 13
    <3>1. 13 \in Nat /\ Len(Todo(op)) = 13
      BY <1>9, BundleSteps
    <3>2. i \in 1 .. 13 /\ l = 13 + 1 - i
      BY <1>4, <3>1
    <3> QED
      BY <3>2
  <2>2. <<verb, kind>> = Todo("bundle")[i]
    BY <1>3, <1>9
  <2>3. CASE i \in 1 .. 3
    <3>1. i = 1 \/ i = 2 \/ i = 3
      BY <2>3
    <3>2. <<verb, kind>> = ForStores("open")[i]
      BY <2>2, <2>3, BundleSteps
    <3>3. verb = "open" /\ l > 10
      BY <2>1, <3>1, <3>2, ForSteps, OneStep
    <3> QED
      BY <1>1, <1>9, <3>3 DEF l, NextIs
  <2>4. CASE i \in 4 .. 6
    <3> DEFINE n == i - 3
    <3>1. n \in 1 .. 3 /\ 3 + n = i /\ (n = 1 \/ n = 2 \/ n = 3)
      BY <2>4
    <3> HIDE DEF n
    <3>2. <<verb, kind>> = ForStores("list")[n]
      BY <2>2, <3>1, BundleSteps
    <3>3. verb = "list" /\ l > 7
      BY <2>1, <3>1, <3>2, ForSteps, OneStep
    <3> QED
      BY <1>1, <1>9, <3>3 DEF l, NextIs
  <2>5. CASE i \in 7 .. 9
    <3> DEFINE n == i - 6
    <3>1. n \in 1 .. 3 /\ 6 + n = i /\ (n = 1 \/ n = 2 \/ n = 3)
      BY <2>5
    <3> HIDE DEF n
    <3>2. <<verb, kind>> = ForStores("hash")[n]
      BY <2>2, <3>1, BundleSteps
    <3>3. l = 8 - n
      BY <2>1, <3>1
    <3>4. verb = "hash" /\ \/ kind = "report" /\ l = 7
                           \/ kind = "attestation" /\ l = 6
                           \/ kind = "review" /\ l = 5
      BY <3>1, <3>2, <3>3, ForSteps, OneStep
    <3> QED
      BY <1>1, <1>9, <3>4 DEF l, NextIs
  <2>6. CASE i \in 10 .. 12
    <3> DEFINE n == i - 9
    <3>1. n \in 1 .. 3 /\ 9 + n = i /\ (n = 1 \/ n = 2 \/ n = 3)
      BY <2>6
    <3> HIDE DEF n
    <3>2. <<verb, kind>> = ForStores("copy")[n]
      BY <2>2, <3>1, BundleSteps
    <3>3. l = 5 - n
      BY <2>1, <3>1
    <3>4. verb = "copy" /\ \/ kind = "report" /\ l = 4
                           \/ kind = "attestation" /\ l = 3
                           \/ kind = "review" /\ l = 2
      BY <3>1, <3>2, <3>3, ForSteps, OneStep
    <3> QED
      BY <1>1, <1>9, <3>4 DEF l, NextIs
  <2>7. CASE i = 13
    <3>1. verb = "save" /\ l = 1
      BY <2>1, <2>2, <2>7, BundleSteps
    <3> QED
      BY <1>1, <1>9, <3>1 DEF l, NextIs
  <2> QED
    BY <2>1, <2>3, <2>4, <2>5, <2>6, <2>7
<1> QED
  BY <1>1, <1>5, <1>6, <1>7, <1>8, <1>9 DEF Commanded

LEMMA TodoTyped ==
    ASSUME NEW op \in Commanded
    PROVE  /\ Todo(op) \in Seq(Steps) /\ StepsLeft(op, Todo(op))
           /\ op = "review" => Len(Todo(op)) = 7
           /\ op = "bundle" => Len(Todo(op)) = 13
<1>1. Todo(op) \in Seq(Steps)
  BY ArchiveSteps, AttestSteps, KeySteps, ReviewSteps, BundleSteps DEF Commanded
<1>2. Len(Todo(op)) \in Nat
  BY <1>1
<1>3. Len(Todo(op)) <= Len(Todo(op)) /\ \A n \in 1 .. Len(Todo(op)) : Len(Todo(op)) - Len(Todo(op)) + n = n
  BY <1>2
<1>4. op # "none"
  BY DEF Commanded
<1> QED
  BY <1>1, <1>3, <1>4, ReviewSteps, BundleSteps DEF StepsLeft

LEMMA TakesStep ==
    ASSUME NEW op, NEW todo \in Seq(Steps), StepsLeft(op, todo), todo # <<>>, Len(Todo(op)) \in Nat, op # "none"
    PROVE  Tail(todo) \in Seq(Steps) /\ Len(Tail(todo)) = Len(todo) - 1 /\ StepsLeft(op, Tail(todo))
<1>1. /\ Tail(todo) \in Seq(Steps) /\ Len(Tail(todo)) = Len(todo) - 1 /\ Len(todo) \in Nat /\ Len(todo) >= 1
      /\ \A i \in 1 .. Len(Tail(todo)) : Tail(todo)[i] = todo[i + 1]
  BY HeadTailProperties, EmptySeq
<1>2. /\ Len(todo) <= Len(Todo(op))
      /\ \A n \in 1 .. Len(todo) : todo[n] = Todo(op)[Len(Todo(op)) - Len(todo) + n]
  BY DEF StepsLeft
<1>3. Len(Tail(todo)) <= Len(Todo(op))
  BY <1>1, <1>2
<1>4. \A n \in 1 .. Len(Tail(todo)) :
         /\ n + 1 \in 1 .. Len(todo)
         /\ Len(Todo(op)) - Len(todo) + (n + 1) = Len(Todo(op)) - Len(Tail(todo)) + n
  BY <1>1, <1>2
<1>5. \A n \in 1 .. Len(Tail(todo)) : Tail(todo)[n] = Todo(op)[Len(Todo(op)) - Len(Tail(todo)) + n]
  BY <1>1, <1>2, <1>4
<1> QED
  BY <1>1, <1>3, <1>5 DEF StepsLeft

\* What a command goes on with after a step.
LEMMA OnFields ==
    ASSUME NEW x \in RootRuns, StepsLeft(x.op, x.todo), x.todo # <<>>,
           NEW y, y = [x EXCEPT !.todo = Tail(@)]
    PROVE  /\ y \in RootRuns /\ StepsLeft(y.op, y.todo) /\ Len(y.todo) = Len(x.todo) - 1 /\ Len(x.todo) \in Nat
           /\ y.op = x.op /\ y.item = x.item /\ y.seen = x.seen /\ y.listed = x.listed
           /\ y.hashed = x.hashed /\ y.copied = x.copied /\ y.began = x.began
<1>1. x.op # "none" /\ x.op \in Commanded \cup {"none"} /\ x.todo \in Seq(Steps)
  BY DEF StepsLeft, RootRuns
<1>2. Len(Todo(x.op)) \in Nat
  BY <1>1, TodoTyped
<1>3. Tail(x.todo) \in Seq(Steps) /\ Len(Tail(x.todo)) = Len(x.todo) - 1 /\ StepsLeft(x.op, Tail(x.todo))
  BY <1>1, <1>2, TakesStep
<1>4. /\ y.op = x.op /\ y.item = x.item /\ y.seen = x.seen /\ y.listed = x.listed
      /\ y.hashed = x.hashed /\ y.copied = x.copied /\ y.began = x.began /\ y.todo = Tail(x.todo)
  BY DEF RootRuns
<1>5. y \in RootRuns
  BY <1>3 DEF RootRuns
<1> QED
  BY <1>1, <1>3, <1>4, <1>5

WithSeen(y, k, read) == [y EXCEPT !.seen[k] = read]

LEMMA SeenFields ==
    ASSUME NEW y \in RootRuns, NEW k \in Kinds, NEW read \in SUBSET RootItems, NEW z, z = WithSeen(y, k, read)
    PROVE  /\ z \in RootRuns /\ z.seen[k] = read /\ \A j \in Kinds \ {k} : z.seen[j] = y.seen[j]
           /\ z.op = y.op /\ z.item = y.item /\ z.todo = y.todo /\ z.listed = y.listed
           /\ z.hashed = y.hashed /\ z.copied = y.copied /\ z.began = y.began
<1>1. y.seen \in [Kinds -> SUBSET RootItems]
  BY DEF RootRuns
<1>2. z = [y EXCEPT !.seen = [y.seen EXCEPT ![k] = read]]
  BY DEF WithSeen
<1>3. [y.seen EXCEPT ![k] = read] \in [Kinds -> SUBSET RootItems]
  BY <1>1
<1> QED
  BY <1>1, <1>2, <1>3 DEF RootRuns

WithListed(y, k, found) == [y EXCEPT !.listed[k] = found]

LEMMA ListedFields ==
    ASSUME NEW y \in RootRuns, NEW k \in Kinds, NEW found \in SUBSET RootItems, NEW z, z = WithListed(y, k, found)
    PROVE  /\ z \in RootRuns
           /\ z.op = y.op /\ z.item = y.item /\ z.todo = y.todo /\ z.seen = y.seen
           /\ z.hashed = y.hashed /\ z.copied = y.copied /\ z.began = y.began
<1>1. y.listed \in [Kinds -> SUBSET RootItems]
  BY DEF RootRuns
<1>2. z = [y EXCEPT !.listed = [y.listed EXCEPT ![k] = found]]
  BY DEF WithListed
<1>3. [y.listed EXCEPT ![k] = found] \in [Kinds -> SUBSET RootItems]
  BY <1>1
<1> QED
  BY <1>1, <1>2, <1>3 DEF RootRuns

WithHashed(y, k, log) == [y EXCEPT !.hashed[k] = log]

LEMMA HashedFields ==
    ASSUME NEW y \in RootRuns, NEW k \in Kinds, NEW log \in Logs, NEW z, z = WithHashed(y, k, log)
    PROVE  /\ z \in RootRuns /\ z.hashed[k] = log /\ \A j \in Kinds \ {k} : z.hashed[j] = y.hashed[j]
           /\ z.op = y.op /\ z.item = y.item /\ z.todo = y.todo /\ z.seen = y.seen /\ z.listed = y.listed
           /\ z.copied = y.copied /\ z.began = y.began
<1>1. y.hashed \in [Kinds -> Logs \cup {{}}]
  BY DEF RootRuns
<1>2. z = [y EXCEPT !.hashed = [y.hashed EXCEPT ![k] = log]]
  BY DEF WithHashed
<1> DEFINE f == [y.hashed EXCEPT ![k] = log]
<1>3. f \in [Kinds -> Logs \cup {{}}] /\ f[k] = log /\ \A j \in Kinds \ {k} : f[j] = y.hashed[j]
  BY <1>1
<1> HIDE DEF f
<1>4. z = [y EXCEPT !.hashed = f]
  BY <1>2 DEF f
<1>5. z \in RootRuns
  BY <1>3, <1>4 DEF RootRuns
<1>6. /\ z.hashed = f /\ z.op = y.op /\ z.item = y.item /\ z.todo = y.todo /\ z.seen = y.seen /\ z.listed = y.listed
      /\ z.copied = y.copied /\ z.began = y.began
  BY <1>4 DEF RootRuns
<1> QED
  BY <1>3, <1>5, <1>6

WithCopied(y, k, log) == [y EXCEPT !.copied[k] = log]

LEMMA CopiedFields ==
    ASSUME NEW y \in RootRuns, NEW k \in Kinds, NEW log \in Logs, NEW z, z = WithCopied(y, k, log)
    PROVE  /\ z \in RootRuns /\ z.copied[k] = log /\ \A j \in Kinds \ {k} : z.copied[j] = y.copied[j]
           /\ z.op = y.op /\ z.item = y.item /\ z.todo = y.todo /\ z.seen = y.seen /\ z.listed = y.listed
           /\ z.hashed = y.hashed /\ z.began = y.began
<1>1. y.copied \in [Kinds -> Logs \cup {{}}]
  BY DEF RootRuns
<1>2. z = [y EXCEPT !.copied = [y.copied EXCEPT ![k] = log]]
  BY DEF WithCopied
<1> DEFINE f == [y.copied EXCEPT ![k] = log]
<1>3. f \in [Kinds -> Logs \cup {{}}] /\ f[k] = log /\ \A j \in Kinds \ {k} : f[j] = y.copied[j]
  BY <1>1
<1> HIDE DEF f
<1>4. z = [y EXCEPT !.copied = f]
  BY <1>2 DEF f
<1>5. z \in RootRuns
  BY <1>3, <1>4 DEF RootRuns
<1>6. /\ z.copied = f /\ z.op = y.op /\ z.item = y.item /\ z.todo = y.todo /\ z.seen = y.seen /\ z.listed = y.listed
      /\ z.hashed = y.hashed /\ z.began = y.began
  BY <1>4 DEF RootRuns
<1> QED
  BY <1>3, <1>5, <1>6

\* Nothing that others write takes away what a command has read.
LEMMA RunStays ==
    ASSUME NEW x, NEW ln, NEW new, NEW ak, NEW more, RunOk(x, ln, ak), AllGrow(new, ln),
           \A k \in Kinds : ak[k] \subseteq more[k]
    PROVE  RunOk(x, new, more)
<1>1. \A k \in Kinds : Parses(new[k]) => x.seen[k] \subseteq Items(new[k])
  BY DEF RunOk, ReadOk, AllGrow, LogGrows
<1>2. \A k \in Kinds : x.began[k] \subseteq more[k]
  BY DEF RunOk, ReadOk
<1>3. ReadOk(x, new, more)
  BY <1>1, <1>2 DEF RunOk, ReadOk
<1>4. "attestation" \in Kinds
  BY OneStep
<1>5. RestsOn(x.hashed["review"], ln["attestation"]) => RestsOn(x.hashed["review"], new["attestation"])
  BY <1>4, RestsLater DEF AllGrow
<1>6. BundlingOk(x, new)
  BY <1>5 DEF RunOk, BundlingOk
<1> QED
  BY <1>3, <1>6 DEF RunOk

LEMMA IdleOk ==
    ASSUME NEW ln, NEW ak
    PROVE  RunOk(Idle, ln, ak)
<1>1. \A k \in Kinds : Nowhere[k] = {}
  BY DEF Nowhere
<1>2. Nowhere \in [Kinds -> SUBSET RootItems] /\ Nowhere \in [Kinds -> Logs \cup {{}}]
  BY DEF Nowhere
<1>3. /\ Idle.op = "none" /\ Idle.item = <<>> /\ Idle.todo = <<>> /\ Idle.seen = Nowhere
      /\ Idle.listed = Nowhere /\ Idle.hashed = Nowhere /\ Idle.copied = Nowhere /\ Idle.began = Nowhere
  BY DEF Idle
<1>4. <<>> \in Seq(Steps) /\ <<>> \in RootItems
  BY DEF RootItems
<1>5. Idle \in RootRuns
  BY <1>2, <1>4 DEF Idle, RootRuns
<1>6. ReadOk(Idle, ln, ak)
  BY <1>1, <1>3 DEF ReadOk
<1>7. StepsLeft(Idle.op, Idle.todo) /\ BundlingOk(Idle, ln)
  BY <1>3 DEF StepsLeft, BundlingOk
<1> QED
  BY <1>5, <1>6, <1>7 DEF RunOk

LEMMA RunsUpdated ==
    ASSUME NEW rn, NEW ln, NEW new, NEW ak, NEW more, AllRunsOk(rn, ln, ak), AllGrow(new, ln),
           \A k \in Kinds : ak[k] \subseteq more[k], NEW c \in Commands, NEW y, RunOk(y, new, more)
    PROVE  AllRunsOk([rn EXCEPT ![c] = y], new, more)
<1> DEFINE next == [rn EXCEPT ![c] = y]
<1>1. rn \in [Commands -> RootRuns] /\ y \in RootRuns
  BY DEF AllRunsOk, RunOk
<1>2. /\ next \in [Commands -> RootRuns] /\ next[c] = y
      /\ \A d \in Commands \ {c} : next[d] = rn[d]
  BY <1>1
<1> HIDE DEF next
<1>3. ASSUME NEW d \in Commands PROVE RunOk(next[d], new, more)
  <2>1. CASE d = c
    BY <1>2, <2>1
  <2>2. CASE d # c
    <3>1. RunOk(rn[d], ln, ak)
      BY DEF AllRunsOk
    <3>2. RunOk(rn[d], new, more)
      BY <3>1, RunStays
    <3> QED
      BY <1>2, <2>2, <3>2
  <2> QED
    BY <2>1, <2>2
<1> QED
  BY <1>2, <1>3 DEF AllRunsOk, next

LEMMA SameGrows == \A ln : AllGrow(ln, ln)
BY DEF AllGrow, LogGrows

-----------------------------------------------------------------------------
(* What each step keeps *)

\* A command that does something is one that runs.
LEMMA Acting ==
    ASSUME RootInv, NEW c \in Commands, NEW verb, NEW kind, Does(c, verb, kind)
    PROVE  /\ run[c] \in RootRuns /\ StepsLeft(run[c].op, run[c].todo) /\ ReadOk(run[c], lines, acked)
           /\ BundlingOk(run[c], lines) /\ run[c].todo # <<>> /\ Head(run[c].todo) = <<verb, kind>>
           /\ run[c].todo \in Seq(Steps) /\ run[c].op \in Commanded \cup {"none"} /\ run[c].item \in RootItems
           /\ On(c) = [run[c] EXCEPT !.todo = Tail(@)]
BY DEF RootInv, AllRunsOk, RunOk, RootRuns, Does, On

LEMMA DoneKeeps ==
    ASSUME RootInv, NEW c \in Commands, Done(c), AllGrow(lines', lines), \A k \in Kinds : acked[k] \subseteq acked'[k]
    PROVE  AllRunsOk(run', lines', acked')
BY RunsUpdated, IdleOk DEF RootInv, Done

\* A step that only the command itself notices.
LEMMA StepKeeps ==
    ASSUME RootInv, NEW c \in Commands, NEW y, RunOk(y, lines, acked), run' = [run EXCEPT ![c] = y],
           UNCHANGED <<lines, acked, bundles, restored>>, files' \in [Stores -> SUBSET RootItems]
    PROVE  RootInv'
<1>1. AllRunsOk(run', lines, acked)
  BY RunsUpdated, SameGrows DEF RootInv
<1> QED
  BY <1>1 DEF RootInv

LEMMA QuietDone ==
    ASSUME RootInv, NEW c \in Commands, Done(c), UNCHANGED <<lines, acked, bundles, restored, files>>
    PROVE  RootInv'
<1>1. files \in [Stores -> SUBSET RootItems]
  BY DEF RootInv
<1> QED
  BY <1>1, StepKeeps, IdleOk DEF Done

LEMMA StartKeeps ==
    ASSUME RootInv, NEW c \in Commands, Start(c)
    PROVE  RootInv'
<1>1. PICK op \in Commanded : \E aim \in Aims(op) :
         run' = [run EXCEPT ![c] = [Idle EXCEPT !.op = op, !.item = aim, !.todo = Todo(op),
                                                !.began = IF op = "bundle" THEN acked ELSE Nowhere]]
  BY DEF Start, Commanded
<1>2. PICK aim \in Aims(op) :
         run' = [run EXCEPT ![c] = [Idle EXCEPT !.op = op, !.item = aim, !.todo = Todo(op),
                                                !.began = IF op = "bundle" THEN acked ELSE Nowhere]]
  BY <1>1
<1> DEFINE begin == IF op = "bundle" THEN acked ELSE Nowhere
           y == [Idle EXCEPT !.op = op, !.item = aim, !.todo = Todo(op), !.began = begin]
<1>3. aim \in RootItems
  BY DEF Aims, RootItems, Commanded, ReportRecord, AttestationRecord, ReviewRecord, KeyEvent
<1>4. Todo(op) \in Seq(Steps) /\ StepsLeft(op, Todo(op)) /\ (op = "review" => Len(Todo(op)) = 7) /\ (op = "bundle" => Len(Todo(op)) = 13)
  BY TodoTyped
<1>5. begin \in [Kinds -> SUBSET RootItems] /\ \A k \in Kinds : begin[k] \subseteq acked[k]
  BY DEF RootInv, LogsOk, Nowhere
<1> HIDE DEF begin
<1>6. Idle \in RootRuns /\ Idle.seen = Nowhere
  BY IdleOk DEF RunOk, Idle
<1>7. y \in RootRuns
  BY <1>3, <1>4, <1>5, <1>6 DEF RootRuns
<1>8. y.op = op /\ y.item = aim /\ y.todo = Todo(op) /\ y.began = begin /\ y.seen = Nowhere
  BY <1>6 DEF RootRuns
<1>9. run' = [run EXCEPT ![c] = y]
  BY <1>2 DEF begin
<1> HIDE DEF y
<1>10. \A k \in Kinds : y.seen[k] = {}
  BY <1>8 DEF Nowhere
<1>11. ReadOk(y, lines, acked)
  <2>1. ASSUME y.op = "review" PROVE ~ (Len(y.todo) <= 3)
    <3>1. Len(y.todo) = 7
      BY <1>4, <1>8, <2>1
    <3> QED
      BY <3>1
  <2>2. \A k \in Kinds : y.began[k] \subseteq acked[k] /\ y.seen[k] = {}
    BY <1>5, <1>8, <1>10
  <2> QED
    BY <2>1, <2>2 DEF ReadOk
<1>12. BundlingOk(y, lines)
  <2>1. ASSUME y.op = "bundle" PROVE ~ (Len(y.todo) < 5) /\ ~ (Len(y.todo) < 4) /\ ~ (Len(y.todo) < 3) /\ ~ (Len(y.todo) < 2)
    <3>1. Len(y.todo) = 13
      BY <1>4, <1>8, <2>1
    <3> QED
      BY <3>1
  <2> QED
    BY <2>1 DEF BundlingOk
<1>13. RunOk(y, lines, acked)
  BY <1>4, <1>7, <1>8, <1>11, <1>12 DEF RunOk
<1>14. files' \in [Stores -> SUBSET RootItems] /\ UNCHANGED <<lines, acked, bundles, restored>>
  BY DEF Start, RootInv
<1> QED
  BY <1>9, <1>13, <1>14, StepKeeps

LEMMA OpenKeeps ==
    ASSUME RootInv, NEW c \in Commands, OpenStore(c)
    PROVE  RootInv'
<1>1. PICK k \in Kinds : /\ Does(c, "open", k)
                         /\ \/ Done(c)
                            \/ run' = [run EXCEPT ![c] = [On(c) EXCEPT !.seen[k] = Read(lines[k])]]
  BY DEF OpenStore
<1>2. UNCHANGED <<files, lines, acked, bundles, restored>> /\ files \in [Stores -> SUBSET RootItems]
  BY DEF OpenStore, RootInv
<1>3. CASE Done(c)
  BY <1>2, <1>3, QuietDone
<1>4. CASE run' = [run EXCEPT ![c] = [On(c) EXCEPT !.seen[k] = Read(lines[k])]]
  <2> DEFINE x == run[c]
             y == On(c)
             read == Read(lines[k])
             z == [y EXCEPT !.seen[k] = read]
  <2>1. /\ x \in RootRuns /\ StepsLeft(x.op, x.todo) /\ ReadOk(x, lines, acked) /\ BundlingOk(x, lines)
        /\ x.todo # <<>> /\ Head(x.todo) = <<"open", k>> /\ x.todo \in Seq(Steps)
        /\ x.op \in Commanded \cup {"none"} /\ y = [x EXCEPT !.todo = Tail(@)]
    BY <1>1, Acting
  <2>2. lines[k] \in Logs
    BY DEF RootInv, LogsOk
  <2>3. read \subseteq Items(lines[k]) /\ read \in SUBSET RootItems
    BY <2>2, ReadIsItems, LogFacts
  <2>4. run' = [run EXCEPT ![c] = z]
    BY <1>4
  <2> HIDE DEF x, y, read
  <2>5. /\ y \in RootRuns /\ StepsLeft(y.op, y.todo) /\ Len(y.todo) = Len(x.todo) - 1 /\ Len(x.todo) \in Nat
        /\ y.op = x.op /\ y.item = x.item /\ y.seen = x.seen /\ y.began = x.began
    BY <2>1, OnFields
  <2>6. /\ z \in RootRuns /\ z.seen[k] = read /\ \A j \in Kinds \ {k} : z.seen[j] = y.seen[j]
        /\ z.op = y.op /\ z.item = y.item /\ z.todo = y.todo /\ z.began = y.began
    <3>1. z = WithSeen(y, k, read)
      BY DEF WithSeen
    <3> HIDE DEF z
    <3> QED
      BY <2>3, <2>5, <3>1, SeenFields
  <2> HIDE DEF z
  <2>7. /\ x.op = "review" => \/ k = "report" /\ Len(x.todo) = 7
                              \/ k = "attestation" /\ Len(x.todo) = 6
                              \/ k = "key" /\ Len(x.todo) = 5
                              \/ k = "review" /\ Len(x.todo) = 3
        /\ x.op = "bundle" => Len(x.todo) > 10
    <3>1. NextIs(x.op, x.todo, "open", k)
      BY <2>1, NextStep
    <3> QED
      BY <3>1 DEF NextIs
  <2>8. \A j \in Kinds : Parses(lines[j]) => z.seen[j] \subseteq Items(lines[j])
    BY <2>1, <2>3, <2>5, <2>6 DEF ReadOk
  <2>9. ASSUME z.op = "review", Len(z.todo) <= 3
        PROVE  \E key \in Keys : AttestationRecord(z.item[1], key) \in z.seen["attestation"]
    <3>1. x.op = "review" /\ Len(x.todo) - 1 <= 3 /\ Len(x.todo) \in Nat
      BY <2>5, <2>6, <2>9
    <3>2. ~ (7 - 1 <= 3) /\ ~ (6 - 1 <= 3) /\ ~ (5 - 1 <= 3) /\ 3 <= 3
      OBVIOUS
    <3>3. k = "review" /\ Len(x.todo) <= 3
      BY <2>7, <3>1, <3>2
    <3>4. "attestation" \in Kinds \ {k}
      BY <3>3, OneStep
    <3>5. \E key \in Keys : AttestationRecord(x.item[1], key) \in x.seen["attestation"]
      BY <2>1, <3>1, <3>3 DEF ReadOk
    <3> QED
      BY <2>5, <2>6, <3>4, <3>5
  <2>10. ReadOk(z, lines, acked)
    BY <2>1, <2>5, <2>6, <2>8, <2>9 DEF ReadOk
  <2>11. BundlingOk(z, lines)
    BY <2>5, <2>6, <2>7 DEF BundlingOk
  <2>12. RunOk(z, lines, acked)
    BY <2>5, <2>6, <2>10, <2>11 DEF RunOk
  <2> QED
    BY <1>2, <2>4, <2>12, StepKeeps
<1> QED
  BY <1>1, <1>3, <1>4

LEMMA GateKeeps ==
    ASSUME RootInv, NEW c \in Commands, Gate(c)
    PROVE  RootInv'
<1>1. /\ Does(c, "gate", "review")
      /\ \/ Done(c)
         \/ Eligible(run[c].seen, run[c].item[1], run[c].item[2]) /\ run' = [run EXCEPT ![c] = On(c)]
  BY DEF Gate
<1>2. UNCHANGED <<files, lines, acked, bundles, restored>> /\ files \in [Stores -> SUBSET RootItems]
  BY DEF Gate, RootInv
<1>3. CASE Done(c)
  BY <1>2, <1>3, QuietDone
<1>4. CASE Eligible(run[c].seen, run[c].item[1], run[c].item[2]) /\ run' = [run EXCEPT ![c] = On(c)]
  <2> DEFINE x == run[c]
             y == On(c)
  <2>1. /\ x \in RootRuns /\ StepsLeft(x.op, x.todo) /\ ReadOk(x, lines, acked) /\ BundlingOk(x, lines)
        /\ x.todo # <<>> /\ Head(x.todo) = <<"gate", "review">> /\ x.todo \in Seq(Steps)
        /\ x.op \in Commanded \cup {"none"} /\ y = [x EXCEPT !.todo = Tail(@)]
    BY <1>1, Acting
  <2>2. AttestationRecord(x.item[1], x.item[2]) \in x.seen["attestation"] /\ x.item[2] \in Keys
    BY <1>4 DEF Eligible, AttestedBy, ActiveIn, KnownIn
  <2>3. run' = [run EXCEPT ![c] = y]
    BY <1>4
  <2> HIDE DEF x, y
  <2>4. /\ y \in RootRuns /\ StepsLeft(y.op, y.todo)
        /\ y.op = x.op /\ y.item = x.item /\ y.seen = x.seen /\ y.began = x.began
    BY <2>1, OnFields
  <2>5. x.op = "review"
    <3>1. NextIs(x.op, x.todo, "gate", "review")
      BY <2>1, NextStep
    <3> QED
      BY <3>1 DEF NextIs
  <2>6. ReadOk(y, lines, acked)
    <3>1. \E k \in Keys : AttestationRecord(y.item[1], k) \in y.seen["attestation"]
      BY <2>2, <2>4
    <3>2. \A k \in Kinds : /\ Parses(lines[k]) => y.seen[k] \subseteq Items(lines[k])
                           /\ y.began[k] \subseteq acked[k]
      BY <2>1, <2>4 DEF ReadOk
    <3> QED
      BY <3>1, <3>2 DEF ReadOk
  <2>7. BundlingOk(y, lines)
    BY <2>4, <2>5 DEF BundlingOk
  <2>8. RunOk(y, lines, acked)
    BY <2>4, <2>6, <2>7 DEF RunOk
  <2> QED
    BY <1>2, <2>3, <2>8, StepKeeps
<1> QED
  BY <1>1, <1>3, <1>4

LEMMA FileKeeps ==
    ASSUME RootInv, NEW c \in Commands, WriteFile(c)
    PROVE  RootInv'
<1>1. PICK k \in Stores : /\ Does(c, "file", k)
                          /\ \/ Done(c) /\ UNCHANGED files
                             \/ /\ run' = [run EXCEPT ![c] = On(c)]
                                /\ files' = [files EXCEPT ![k] = @ \cup {run[c].item}]
  BY DEF WriteFile
<1>2. UNCHANGED <<lines, acked, bundles, restored>> /\ files \in [Stores -> SUBSET RootItems]
  BY DEF WriteFile, RootInv
<1>3. CASE Done(c) /\ UNCHANGED files
  BY <1>2, <1>3, QuietDone
<1>4. CASE run' = [run EXCEPT ![c] = On(c)] /\ files' = [files EXCEPT ![k] = @ \cup {run[c].item}]
  <2> DEFINE x == run[c]
             y == On(c)
  <2>1. /\ x \in RootRuns /\ StepsLeft(x.op, x.todo) /\ ReadOk(x, lines, acked) /\ BundlingOk(x, lines)
        /\ x.todo # <<>> /\ Head(x.todo) = <<"file", k>> /\ x.todo \in Seq(Steps)
        /\ x.op \in Commanded \cup {"none"} /\ y = [x EXCEPT !.todo = Tail(@)] /\ x.item \in RootItems
    BY <1>1, Acting
  <2>2. run' = [run EXCEPT ![c] = y] /\ files' = [files EXCEPT ![k] = files[k] \cup {x.item}]
    BY <1>4
  <2> HIDE DEF x, y
  <2>3. /\ y \in RootRuns /\ StepsLeft(y.op, y.todo)
        /\ y.op = x.op /\ y.item = x.item /\ y.seen = x.seen /\ y.began = x.began
    BY <2>1, OnFields
  <2>4. x.op # "bundle" /\ (x.op = "review" => Len(x.todo) = 2)
    <3>1. NextIs(x.op, x.todo, "file", k)
      BY <2>1, NextStep
    <3> QED
      BY <3>1 DEF NextIs
  <2>5. ReadOk(y, lines, acked)
    <3>1. ASSUME x.op = "review" PROVE \E key \in Keys : AttestationRecord(x.item[1], key) \in x.seen["attestation"]
      <4>1. Len(x.todo) = 2 /\ 2 <= 3
        BY <2>4, <3>1
      <4>2. Len(x.todo) <= 3
        BY <4>1
      <4> QED
        BY <2>1, <3>1, <4>2 DEF ReadOk
    <3>2. \A j \in Kinds : /\ Parses(lines[j]) => y.seen[j] \subseteq Items(lines[j])
                           /\ y.began[j] \subseteq acked[j]
      BY <2>1, <2>3 DEF ReadOk
    <3> QED
      BY <2>3, <3>1, <3>2 DEF ReadOk
  <2>6. BundlingOk(y, lines)
    BY <2>3, <2>4 DEF BundlingOk
  <2>7. RunOk(y, lines, acked)
    BY <2>3, <2>5, <2>6 DEF RunOk
  <2>8. files' \in [Stores -> SUBSET RootItems]
    BY <1>2, <2>1, <2>2
  <2> QED
    BY <1>2, <2>2, <2>7, <2>8, StepKeeps
<1> QED
  BY <1>1, <1>3, <1>4

\* What a line in a manifest does to the root: nothing is taken away, and a review
\* rests on an attestation that the command has read.
LEMMA LineKeeps ==
    ASSUME RootInv, NEW c \in Commands, NEW k \in Kinds, Does(c, "line", k),
           NEW line \in RootLines, line.item \in {run[c].item, <<>>},
           NEW new, new = [lines EXCEPT ![k] = Appended(@, line)]
    PROVE  /\ new \in [Kinds -> Logs] /\ AllGrow(new, lines)
           /\ RestsOn(new["review"], new["attestation"])
           /\ Parses(new[k]) => line.item \in Items(new[k])
<1> DEFINE x == run[c]
           was == lines[k]
           now == Appended(was, line)
<1>1. /\ x \in RootRuns /\ StepsLeft(x.op, x.todo) /\ ReadOk(x, lines, acked)
      /\ x.todo # <<>> /\ Head(x.todo) = <<"line", k>> /\ x.todo \in Seq(Steps)
      /\ x.op \in Commanded \cup {"none"} /\ x.item \in RootItems /\ line.item \in {x.item, <<>>}
  BY Acting
<1>2. lines \in [Kinds -> Logs] /\ RestsOn(lines["review"], lines["attestation"]) /\ was \in Logs
  BY DEF RootInv, LogsOk
<1>3. /\ now \in Logs /\ LogGrows(now, was)
      /\ Parses(now) => line.item \in Items(now)
      /\ Items(now) \subseteq Items(was) \cup {line.item, <<>>}
  BY <1>2, AppendedGrows
<1> HIDE DEF x, now
<1>4. new \in [Kinds -> Logs] /\ new[k] = now /\ \A j \in Kinds \ {k} : new[j] = lines[j]
  BY <1>2, <1>3 DEF now
<1>5. AllGrow(new, lines)
  <2> SUFFICES ASSUME NEW j \in Kinds PROVE LogGrows(new[j], lines[j])
    BY DEF AllGrow
  <2>1. CASE j = k
    BY <1>3, <1>4, <2>1
  <2>2. CASE j # k
    BY <1>4, <2>2 DEF LogGrows
  <2> QED
    BY <2>1, <2>2
<1>6. "attestation" \in Kinds /\ "review" \in Kinds
  BY OneStep
<1>7. RestsOn(lines["review"], new["attestation"])
  BY <1>2, <1>5, <1>6, RestsLater DEF AllGrow
<1>8. RestsOn(new["review"], new["attestation"])
  <2>1. CASE k = "review"
    <3>1. x.op = "review" /\ Len(x.todo) = 1
      <4>1. NextIs(x.op, x.todo, "line", k)
        BY <1>1, NextStep
      <4> QED
        BY <2>1, <4>1 DEF NextIs
    <3>2. Len(x.todo) <= 3
      BY <3>1
    <3>3. PICK key \in Keys : AttestationRecord(x.item[1], key) \in x.seen["attestation"]
      BY <1>1, <3>1, <3>2 DEF ReadOk
    <3>4. new["attestation"] = lines["attestation"]
      BY <1>4, <1>6, <2>1
    <3>5. Parses(new["attestation"]) => AttestationRecord(x.item[1], key) \in Items(new["attestation"])
      BY <1>1, <1>6, <3>3, <3>4 DEF ReadOk
    <3>6. \A v \in Items(new["review"]) : v \in Items(lines["review"]) \/ v = x.item \/ v = <<>>
      BY <1>1, <1>3, <1>4, <2>1
    <3> QED
      BY <1>7, <3>5, <3>6 DEF RestsOn
  <2>2. CASE k # "review"
    BY <1>4, <1>6, <1>7, <2>2
  <2> QED
    BY <2>1, <2>2
<1> QED
  BY <1>3, <1>4, <1>5, <1>8

\* The new lines of a root, with what was acknowledged before.
LEMMA LogsStay ==
    ASSUME RootInv, NEW new \in [Kinds -> Logs], AllGrow(new, lines), RestsOn(new["review"], new["attestation"])
    PROVE  LogsOk(new, acked)
BY DEF RootInv, LogsOk, AllGrow, LogGrows

LEMMA LineKeepsRoot ==
    ASSUME RootInv, NEW c \in Commands, AppendLine(c)
    PROVE  RootInv'
<1>1. PICK k \in Kinds : /\ Does(c, "line", k)
                         /\ \/ UNCHANGED <<lines, acked>>
                            \/ /\ lines' = [lines EXCEPT ![k] = Appended(@, Line(run[c].item))]
                               /\ acked' = [acked EXCEPT ![k] = @ \cup {run[c].item}]
  BY DEF AppendLine
<1>2. Done(c) /\ UNCHANGED <<files, bundles, restored>>
  BY DEF AppendLine
<1>3. CASE UNCHANGED <<lines, acked>>
  BY <1>2, <1>3, QuietDone
<1>4. CASE /\ lines' = [lines EXCEPT ![k] = Appended(@, Line(run[c].item))]
           /\ acked' = [acked EXCEPT ![k] = @ \cup {run[c].item}]
  <2> DEFINE item == run[c].item
             line == Line(item)
  <2>1. item \in RootItems
    BY <1>1, Acting
  <2>2. line \in RootLines /\ line.item = item
    BY <2>1 DEF Line, RootLines
  <2>3. /\ lines' \in [Kinds -> Logs] /\ AllGrow(lines', lines) /\ RestsOn(lines'["review"], lines'["attestation"])
        /\ Parses(lines'[k]) => item \in Items(lines'[k])
    BY <1>1, <1>4, <2>2, LineKeeps
  <2> HIDE DEF line, item
  <2>4. acked \in [Kinds -> SUBSET RootItems] /\ acked' = [acked EXCEPT ![k] = acked[k] \cup {item}]
    BY <1>4 DEF RootInv, LogsOk, item
  <2>5. /\ acked' \in [Kinds -> SUBSET RootItems] /\ \A j \in Kinds : acked[j] \subseteq acked'[j]
        /\ \A j \in Kinds : acked'[j] \subseteq acked[j] \cup (IF j = k THEN {item} ELSE {})
    BY <2>1, <2>4
  <2>6. LogsOk(lines', acked)
    BY <2>3, LogsStay
  <2>7. LogsOk(lines', acked')
    BY <2>3, <2>5, <2>6 DEF LogsOk
  <2>8. AllRunsOk(run', lines', acked')
    BY <1>2, <2>3, <2>5, DoneKeeps
  <2>9. BundlesOk(bundles', restored') /\ files' \in [Stores -> SUBSET RootItems]
    BY <1>2 DEF RootInv
  <2> QED
    BY <2>7, <2>8, <2>9 DEF RootInv
<1> QED
  BY <1>1, <1>3, <1>4

LEMMA KillKeeps ==
    ASSUME RootInv, NEW c \in Commands, Kill(c)
    PROVE  RootInv'
<1>1. Done(c) /\ UNCHANGED <<files, acked, bundles, restored>>
  BY DEF Kill
<1>2. CASE UNCHANGED lines
  BY <1>1, <1>2, QuietDone
<1>3. ASSUME NEW k \in Kinds, Does(c, "line", k), NEW part \in {Torn, [item |-> run[c].item, ended |-> FALSE]},
             lines' = [lines EXCEPT ![k] = Appended(@, part)]
      PROVE  RootInv'
  <2>1. run[c].item \in RootItems /\ <<>> \in RootItems
    BY <1>3, Acting DEF RootItems
  <2>2. part \in RootLines /\ part.item \in {run[c].item, <<>>}
    <3>1. CASE part = Torn
      BY <2>1, <3>1 DEF Torn, RootLines
    <3>2. CASE part = [item |-> run[c].item, ended |-> FALSE]
      BY <2>1, <3>2 DEF RootLines
    <3> QED
      BY <1>3, <3>1, <3>2
  <2>3. lines' \in [Kinds -> Logs] /\ AllGrow(lines', lines) /\ RestsOn(lines'["review"], lines'["attestation"])
    BY <1>3, <2>2, LineKeeps
  <2>4. LogsOk(lines', acked)
    BY <2>3, LogsStay
  <2>5. AllRunsOk(run', lines', acked')
    BY <1>1, <2>3, DoneKeeps
  <2>6. BundlesOk(bundles', restored') /\ files' \in [Stores -> SUBSET RootItems] /\ LogsOk(lines', acked')
    BY <1>1, <2>4 DEF RootInv
  <2> QED
    BY <2>5, <2>6 DEF RootInv
<1> QED
  BY <1>2, <1>3 DEF Kill

LEMMA ListKeeps ==
    ASSUME RootInv, NEW c \in Commands, ListFiles(c)
    PROVE  RootInv'
<1>1. PICK k \in Stores : Does(c, "list", k) /\ run' = [run EXCEPT ![c] = [On(c) EXCEPT !.listed[k] = files[k]]]
  BY DEF ListFiles
<1>2. UNCHANGED <<files, lines, acked, bundles, restored>> /\ files \in [Stores -> SUBSET RootItems]
  BY DEF ListFiles, RootInv
<1> DEFINE x == run[c]
           y == On(c)
           found == files[k]
           z == [y EXCEPT !.listed[k] = found]
<1>3. /\ x \in RootRuns /\ StepsLeft(x.op, x.todo) /\ ReadOk(x, lines, acked) /\ BundlingOk(x, lines)
      /\ x.todo # <<>> /\ Head(x.todo) = <<"list", k>> /\ x.todo \in Seq(Steps)
      /\ x.op \in Commanded \cup {"none"} /\ y = [x EXCEPT !.todo = Tail(@)]
  BY <1>1, Acting
<1>4. found \in SUBSET RootItems /\ k \in Kinds
  BY <1>2 DEF Kinds
<1>5. run' = [run EXCEPT ![c] = z]
  BY <1>1
<1> HIDE DEF x, y, found
<1>6. /\ y \in RootRuns /\ StepsLeft(y.op, y.todo) /\ Len(y.todo) = Len(x.todo) - 1 /\ Len(x.todo) \in Nat
      /\ y.op = x.op /\ y.seen = x.seen /\ y.began = x.began
  BY <1>3, OnFields
<1>7. z \in RootRuns /\ z.op = y.op /\ z.todo = y.todo /\ z.seen = y.seen /\ z.began = y.began
  <2>1. z = WithListed(y, k, found)
    BY DEF WithListed
  <2> HIDE DEF z
  <2> QED
    BY <1>4, <1>6, <2>1, ListedFields
<1> HIDE DEF z
<1>8. x.op = "bundle" /\ Len(x.todo) > 7
  <2>1. NextIs(x.op, x.todo, "list", k)
    BY <1>3, NextStep
  <2> QED
    BY <2>1 DEF NextIs
<1>9. Len(z.todo) > 6 /\ Len(z.todo) \in Int
  BY <1>6, <1>7, <1>8
<1>10. ReadOk(z, lines, acked)
  BY <1>3, <1>6, <1>7, <1>8 DEF ReadOk
<1>11. BundlingOk(z, lines)
  BY <1>9 DEF BundlingOk
<1>12. RunOk(z, lines, acked)
  BY <1>6, <1>7, <1>10, <1>11 DEF RunOk
<1> QED
  BY <1>2, <1>5, <1>12, StepKeeps

\* A command that has hashed the reviews.
LEMMA HashKeeps ==
    ASSUME RootInv, NEW c \in Commands, NEW k \in Stores, Does(c, "hash", k),
           run' = [run EXCEPT ![c] = [On(c) EXCEPT !.hashed[k] = lines[k]]],
           UNCHANGED <<files, lines, acked, bundles, restored>>
    PROVE  RootInv'
<1> DEFINE x == run[c]
           y == On(c)
           log == lines[k]
           z == [y EXCEPT !.hashed[k] = log]
<1>1. /\ x \in RootRuns /\ StepsLeft(x.op, x.todo) /\ ReadOk(x, lines, acked) /\ BundlingOk(x, lines)
      /\ x.todo # <<>> /\ Head(x.todo) = <<"hash", k>> /\ x.todo \in Seq(Steps)
      /\ x.op \in Commanded \cup {"none"} /\ y = [x EXCEPT !.todo = Tail(@)]
  BY Acting
<1>2. k \in Kinds
  BY DEF Kinds
<1>3. log \in Logs
  BY <1>2 DEF RootInv, LogsOk
<1>4. run' = [run EXCEPT ![c] = z] /\ z = WithHashed(y, k, log)
  BY DEF WithHashed
<1>5. RestsOn(lines["review"], lines["attestation"])
  BY DEF RootInv, LogsOk
<1> HIDE DEF x, y, z
<1>6. /\ y \in RootRuns /\ StepsLeft(y.op, y.todo) /\ Len(y.todo) = Len(x.todo) - 1 /\ Len(x.todo) \in Nat
      /\ y.op = x.op /\ y.item = x.item /\ y.seen = x.seen /\ y.began = x.began
  BY <1>1, OnFields
<1>7. /\ z \in RootRuns /\ z.hashed[k] = log
      /\ z.op = y.op /\ z.item = y.item /\ z.todo = y.todo /\ z.seen = y.seen /\ z.began = y.began
  <2>1. y \in RootRuns /\ k \in Kinds /\ log \in Logs /\ z = WithHashed(y, k, log)
    BY <1>2, <1>3, <1>4, <1>6
  <2> HIDE DEF log
  <2> QED
    BY <2>1, HashedFields
<1>8. x.op = "bundle" /\ \/ k = "report" /\ Len(x.todo) = 7
                         \/ k = "attestation" /\ Len(x.todo) = 6
                         \/ k = "review" /\ Len(x.todo) = 5
  <2>1. NextIs(x.op, x.todo, "hash", k)
    BY <1>1, NextStep
  <2> QED
    BY <2>1 DEF NextIs
<1>9. \/ Len(z.todo) = 6
      \/ Len(z.todo) = 5
      \/ k = "review" /\ Len(z.todo) = 4
  <2>1. Len(z.todo) = Len(x.todo) - 1
    BY <1>6, <1>7
  <2>2. 7 - 1 = 6 /\ 6 - 1 = 5 /\ 5 - 1 = 4
    OBVIOUS
  <2> QED
    BY <1>8, <2>1, <2>2
<1>10. ReadOk(z, lines, acked)
  BY <1>1, <1>6, <1>7, <1>8 DEF ReadOk
<1>11. k = "review" => RestsOn(z.hashed["review"], lines["attestation"])
  BY <1>5, <1>7
<1>12. Len(z.todo) < 5 => RestsOn(z.hashed["review"], lines["attestation"])
  <2>1. ~ (6 < 5) /\ ~ (5 < 5)
    OBVIOUS
  <2> QED
    BY <1>9, <1>11, <2>1, Zenon
<1>13. ~ (Len(z.todo) < 4) /\ ~ (Len(z.todo) < 3) /\ ~ (Len(z.todo) < 2)
  <2>1. \A n \in {6, 5, 4} : ~ (n < 4) /\ ~ (n < 3) /\ ~ (n < 2)
    OBVIOUS
  <2>2. Len(z.todo) \in {6, 5, 4}
    BY <1>9
  <2> QED
    BY <2>1, <2>2, Zenon
<1>14. BundlingOk(z, lines)
  BY <1>12, <1>13 DEF BundlingOk
<1>15. RunOk(z, lines, acked)
  BY <1>6, <1>7, <1>10, <1>14 DEF RunOk
<1>16. files' \in [Stores -> SUBSET RootItems]
  BY DEF RootInv
<1> QED
  BY <1>4, <1>15, <1>16, StepKeeps

\* A command that copies the manifests, the attestations after the reviews were hashed.
LEMMA CopyKeeps ==
    ASSUME RootInv, NEW c \in Commands, NEW k \in Stores, Does(c, "copy", k),
           run' = [run EXCEPT ![c] = [On(c) EXCEPT !.copied[k] = lines[k]]],
           UNCHANGED <<files, lines, acked, bundles, restored>>
    PROVE  RootInv'
<1> DEFINE x == run[c]
           y == On(c)
           log == lines[k]
           z == [y EXCEPT !.copied[k] = log]
<1>1. /\ x \in RootRuns /\ StepsLeft(x.op, x.todo) /\ ReadOk(x, lines, acked) /\ BundlingOk(x, lines)
      /\ x.todo # <<>> /\ Head(x.todo) = <<"copy", k>> /\ x.todo \in Seq(Steps)
      /\ x.op \in Commanded \cup {"none"} /\ y = [x EXCEPT !.todo = Tail(@)]
  BY Acting
<1>2. k \in Kinds /\ "report" \in Kinds /\ "attestation" \in Kinds /\ "review" \in Kinds
  BY OneStep DEF Kinds
<1>3. log \in Logs /\ (Parses(log) => acked[k] \subseteq Items(log))
  BY <1>2 DEF RootInv, LogsOk
<1>4. run' = [run EXCEPT ![c] = z] /\ z = WithCopied(y, k, log)
  BY DEF WithCopied
<1> HIDE DEF x, y, z
<1>5. /\ y \in RootRuns /\ StepsLeft(y.op, y.todo) /\ Len(y.todo) = Len(x.todo) - 1 /\ Len(x.todo) \in Nat
      /\ y.op = x.op /\ y.item = x.item /\ y.seen = x.seen /\ y.began = x.began
      /\ y.hashed = x.hashed /\ y.copied = x.copied
  BY <1>1, OnFields
<1>6. /\ z \in RootRuns /\ z.copied[k] = log /\ \A j \in Kinds \ {k} : z.copied[j] = y.copied[j]
      /\ z.op = y.op /\ z.item = y.item /\ z.todo = y.todo /\ z.seen = y.seen /\ z.began = y.began /\ z.hashed = y.hashed
  <2>1. y \in RootRuns /\ k \in Kinds /\ log \in Logs /\ z = WithCopied(y, k, log)
    BY <1>2, <1>3, <1>4, <1>5
  <2> HIDE DEF log
  <2> QED
    BY <2>1, CopiedFields
<1>7. x.op = "bundle" /\ \/ k = "report" /\ Len(x.todo) = 4
                         \/ k = "attestation" /\ Len(x.todo) = 3
                         \/ k = "review" /\ Len(x.todo) = 2
  <2>1. NextIs(x.op, x.todo, "copy", k)
    BY <1>1, NextStep
  <2> QED
    BY <2>1 DEF NextIs
<1>8. \/ k = "report" /\ Len(z.todo) = 3
      \/ k = "attestation" /\ Len(z.todo) = 2
      \/ k = "review" /\ Len(z.todo) = 1
  <2>1. Len(z.todo) = Len(x.todo) - 1
    BY <1>5, <1>6
  <2>2. 4 - 1 = 3 /\ 3 - 1 = 2 /\ 2 - 1 = 1
    OBVIOUS
  <2> QED
    BY <1>7, <2>1, <2>2
<1>9. ReadOk(z, lines, acked)
  BY <1>1, <1>5, <1>6, <1>7 DEF ReadOk
<1>10. CopyHas(z, k)
  <2>1. z.began[k] \subseteq acked[k]
    BY <1>2, <1>9 DEF ReadOk
  <2> QED
    BY <1>3, <1>6, <2>1 DEF CopyHas
<1>11. \A j \in Kinds \ {k} : CopyHas(x, j) => CopyHas(z, j)
  BY <1>5, <1>6 DEF CopyHas
<1>12. RestsOn(z.hashed["review"], lines["attestation"])
  <2>1. Len(x.todo) < 5
    <3>1. 4 < 5 /\ 3 < 5 /\ 2 < 5
      OBVIOUS
    <3> QED
      BY <1>7, <3>1, Zenon
  <2>2. RestsOn(x.hashed["review"], lines["attestation"])
    BY <1>1, <1>7, <2>1 DEF BundlingOk
  <2> QED
    BY <1>5, <1>6, <2>2
<1>13. BundlingOk(z, lines)
  <2>1. CASE k = "report"
    <3>1. ~ (3 < 3) /\ ~ (3 < 2)
      OBVIOUS
    <3>2. ~ (Len(z.todo) < 3) /\ ~ (Len(z.todo) < 2)
      BY <1>8, <2>1, <3>1
    <3>3. CopyHas(z, "report")
      BY <1>10, <2>1
    <3> QED
      BY <1>12, <3>2, <3>3 DEF BundlingOk
  <2>2. CASE k = "attestation"
    <3>1. ~ (Len(z.todo) < 2) /\ Len(x.todo) < 4
      <4>1. ~ (2 < 2) /\ 3 < 4
        OBVIOUS
      <4> QED
        BY <1>7, <1>8, <2>2, <4>1
    <3>2. CopyHas(z, "report")
      BY <1>1, <1>2, <1>7, <1>11, <2>2, <3>1 DEF BundlingOk
    <3>3. RestsOn(z.hashed["review"], z.copied["attestation"])
      BY <1>6, <1>12, <2>2
    <3>4. CopyHas(z, "attestation")
      BY <1>10, <2>2
    <3> QED
      BY <1>12, <3>1, <3>2, <3>3, <3>4 DEF BundlingOk
  <2>3. CASE k = "review"
    <3>1. Len(x.todo) < 4 /\ Len(x.todo) < 3
      <4>1. 2 < 4 /\ 2 < 3
        OBVIOUS
      <4> QED
        BY <1>7, <2>3, <4>1
    <3>2. CopyHas(x, "report") /\ CopyHas(x, "attestation") /\ RestsOn(x.hashed["review"], x.copied["attestation"])
      BY <1>1, <1>7, <3>1 DEF BundlingOk
    <3>3. CopyHas(z, "report") /\ CopyHas(z, "attestation")
      BY <1>2, <1>11, <2>3, <3>2
    <3>4. RestsOn(z.hashed["review"], z.copied["attestation"])
      BY <1>2, <1>5, <1>6, <2>3, <3>2
    <3>5. CopyHas(z, "review")
      BY <1>10, <2>3
    <3> QED
      BY <1>12, <3>3, <3>4, <3>5 DEF BundlingOk
  <2> QED
    BY <2>1, <2>2, <2>3 DEF Stores
<1>14. RunOk(z, lines, acked)
  BY <1>5, <1>6, <1>9, <1>13 DEF RunOk
<1>15. files' \in [Stores -> SUBSET RootItems]
  BY DEF RootInv
<1> QED
  BY <1>4, <1>14, <1>15, StepKeeps

LEMMA SaveKeeps ==
    ASSUME RootInv, NEW c \in Commands, SaveBundle(c)
    PROVE  RootInv'
<1> DEFINE x == run[c]
           b == [listed |-> x.listed, hashed |-> x.hashed, copied |-> x.copied, began |-> x.began]
<1>1. /\ Does(c, "save", "bundle") /\ Done(c) /\ UNCHANGED <<files, lines, acked, restored>>
      /\ bundles' = bundles \cup {b}
  BY DEF SaveBundle
<1>2. /\ StepsLeft(x.op, x.todo) /\ BundlingOk(x, lines) /\ x.todo # <<>> /\ Head(x.todo) = <<"save", "bundle">>
      /\ x.todo \in Seq(Steps) /\ x.op \in Commanded \cup {"none"}
  BY <1>1, Acting
<1>3. b.hashed = x.hashed /\ b.copied = x.copied /\ b.began = x.began
  OBVIOUS
<1> HIDE DEF x, b
<1>4. x.op = "bundle" /\ Len(x.todo) = 1
  <2>1. NextIs(x.op, x.todo, "save", "bundle")
    BY <1>2, NextStep
  <2> QED
    BY <2>1 DEF NextIs
<1>5. Len(x.todo) < 4 /\ Len(x.todo) < 3 /\ Len(x.todo) < 2
  BY <1>4
<1>6. \A k \in Stores : CopyHas(x, k)
  BY <1>2, <1>4, <1>5 DEF BundlingOk, Stores
<1>7. RestsOn(x.hashed["review"], x.copied["attestation"])
  BY <1>2, <1>4, <1>5 DEF BundlingOk
<1>8. BundleOk(b)
  BY <1>3, <1>6, <1>7 DEF BundleOk, CopyHas
<1>9. BundlesOk(bundles', restored')
  BY <1>1, <1>8 DEF RootInv, BundlesOk
<1>10. AllRunsOk(run', lines', acked')
  BY <1>1, DoneKeeps, SameGrows
<1> QED
  BY <1>1, <1>9, <1>10 DEF RootInv

LEMMA RestoreKeeps ==
    ASSUME RootInv, RestoreEvidence
    PROVE  RootInv'
<1>1. PICK b \in bundles \ restored : Verifies(b) /\ Reopens(b) /\ restored' = restored \cup {b}
  BY DEF RestoreEvidence
<1>2. UNCHANGED <<files, lines, acked, run, bundles>>
  BY DEF RestoreEvidence
<1>3. BundlesOk(bundles, restored')
  BY <1>1 DEF RootInv, BundlesOk
<1> QED
  BY <1>2, <1>3 DEF RootInv

LEMMA RootStep == RootInv /\ [EvidenceNext]_rootVars => RootInv'
<1> SUFFICES ASSUME RootInv, [EvidenceNext]_rootVars PROVE RootInv'
  OBVIOUS
<1>1. CASE UNCHANGED rootVars
  BY <1>1 DEF rootVars, RootInv
<1>2. ASSUME NEW c \in Commands, Start(c) PROVE RootInv'
  BY <1>2, StartKeeps
<1>3. ASSUME NEW c \in Commands, OpenStore(c) PROVE RootInv'
  BY <1>3, OpenKeeps
<1>4. ASSUME NEW c \in Commands, Gate(c) PROVE RootInv'
  BY <1>4, GateKeeps
<1>5. ASSUME NEW c \in Commands, WriteFile(c) PROVE RootInv'
  BY <1>5, FileKeeps
<1>6. ASSUME NEW c \in Commands, AppendLine(c) PROVE RootInv'
  BY <1>6, LineKeepsRoot
<1>7. ASSUME NEW c \in Commands, Kill(c) PROVE RootInv'
  BY <1>7, KillKeeps
<1>8. ASSUME NEW c \in Commands, ListFiles(c) PROVE RootInv'
  BY <1>8, ListKeeps
<1>9. ASSUME NEW c \in Commands, ReadManifest(c) PROVE RootInv'
  BY <1>9, HashKeeps, CopyKeeps DEF ReadManifest
<1>10. ASSUME NEW c \in Commands, SaveBundle(c) PROVE RootInv'
  BY <1>10, SaveKeeps
<1>11. ASSUME RestoreEvidence PROVE RootInv'
  BY <1>11, RestoreKeeps
<1> QED
  BY <1>1, <1>2, <1>3, <1>4, <1>5, <1>6, <1>7, <1>8, <1>9, <1>10, <1>11 DEF EvidenceNext

-----------------------------------------------------------------------------
(* The prepared root, and what follows *)

\* The sequence of a finite set has its members and nothing else.
LEMMA SetAsSeq ==
    ASSUME NEW S, IsFiniteSet(S)
    PROVE  SetToSeq(S) \in Seq(S) /\ \A x \in S : \E n \in DOMAIN SetToSeq(S) : SetToSeq(S)[n] = x
<1> DEFINE n == Cardinality(S)
           f == SetToSeq(S)
<1>1. n \in Nat /\ ExistsBijection(1 .. n, S)
  BY FS_CardinalityType
<1>2. \E g \in [1 .. n -> S] : IsInjective(g)
  BY <1>1 DEF ExistsBijection, Bijection, Injection
<1>3. f \in [1 .. n -> S] /\ IsInjective(f)
  BY <1>2 DEF SetToSeq
<1> HIDE DEF f
<1>4. f \in Injection(1 .. n, S)
  BY <1>3 DEF Injection
<1>5. IsFiniteSet(1 .. n) /\ Cardinality(1 .. n) = n
  <2>1. IsFiniteSet(1 .. n)
    BY <1>1, FS_Interval
  <2>2. Cardinality(1 .. n) = n
    BY <1>1, FS_CountingElements, FS_Interval
  <2> QED
    BY <2>1, <2>2
<1>6. f \in Surjection(1 .. n, S)
  BY <1>4, <1>5, FS_Injection
<1>7. f \in Seq(S) /\ DOMAIN f = 1 .. n
  BY <1>1, <1>3
<1> QED
  BY <1>6, <1>7 DEF Surjection, f

LEMMA PreparedIsFinite == \A k \in Kinds : IsFiniteSet({Line(item) : item \in PreparedRoot[k]})
<1> SUFFICES ASSUME NEW k \in Kinds PROVE IsFiniteSet({Line(item) : item \in PreparedRoot[k]})
  OBVIOUS
<1>1. IsFiniteSet(Prepared)
  BY EvidenceAssumption
<1>2. CASE k = "report"
  <2> DEFINE S == {Line(item) : item \in PreparedRoot[k]}
             f == [r \in Prepared |-> Line(ReportRecord(r))]
  <2>1. PreparedRoot[k] = {ReportRecord(r) : r \in Prepared}
    BY <1>2 DEF PreparedRoot
  <2>2. f \in Surjection(Prepared, S)
    BY <2>1 DEF Surjection
  <2> QED
    BY <1>1, <2>2, FS_Surjection
<1>3. CASE k = "attestation"
  <2> DEFINE S == {Line(item) : item \in PreparedRoot[k]}
             f == [r \in Prepared |-> Line(AttestationRecord(r, Operator))]
  <2>1. PreparedRoot[k] = {AttestationRecord(r, Operator) : r \in Prepared}
    BY <1>3 DEF PreparedRoot
  <2>2. f \in Surjection(Prepared, S)
    BY <2>1 DEF Surjection
  <2> QED
    BY <1>1, <2>2, FS_Surjection
<1>4. CASE k = "review"
  <2>1. {Line(item) : item \in PreparedRoot[k]} = {}
    BY <1>4 DEF PreparedRoot
  <2> QED
    BY <2>1, FS_EmptySet
<1>5. CASE k = "key"
  <2>1. {Line(item) : item \in PreparedRoot[k]} = {Line(KeyEvent("register", Operator))}
    BY <1>5 DEF PreparedRoot
  <2> QED
    BY <2>1, FS_Singleton
<1> QED
  BY <1>2, <1>3, <1>4, <1>5 DEF Kinds, Stores

LEMMA RootStart == EvidenceInit => RootInv
<1> SUFFICES ASSUME EvidenceInit PROVE RootInv
  OBVIOUS
<1>1. PreparedRoot \in [Kinds -> SUBSET RootItems]
  <2>1. Prepared \subseteq Reports /\ Operator \in Keys
    BY EvidenceAssumption
  <2>2. \A k \in Kinds : PreparedRoot[k] \subseteq RootItems
    BY <2>1 DEF PreparedRoot, RootItems, Kinds, Stores, ReportRecord, AttestationRecord, KeyEvent
  <2> DEFINE Of(k) == CASE k = "report" -> {ReportRecord(r) : r \in Prepared}
                        [] k = "attestation" -> {AttestationRecord(r, Operator) : r \in Prepared}
                        [] k = "review" -> {}
                        [] k = "key" -> {KeyEvent("register", Operator)}
  <2>3. PreparedRoot = [k \in Kinds |-> Of(k)]
    BY DEF PreparedRoot
  <2> HIDE DEF Of
  <2>4. \A k \in Kinds : Of(k) \in SUBSET RootItems
    BY <2>2, <2>3
  <2> QED
    BY <2>3, <2>4
<1>2. files \in [Stores -> SUBSET RootItems]
  BY <1>1 DEF EvidenceInit, Kinds
<1>3. \A k \in Kinds : lines[k] \in Logs /\ Items(lines[k]) = PreparedRoot[k]
  <2> SUFFICES ASSUME NEW k \in Kinds PROVE lines[k] \in Logs /\ Items(lines[k]) = PreparedRoot[k]
    OBVIOUS
  <2> DEFINE S == {Line(item) : item \in PreparedRoot[k]}
             log == SetToSeq(S)
  <2>1. lines[k] = log
    BY DEF EvidenceInit
  <2>2. log \in Seq(S) /\ \A x \in S : \E n \in DOMAIN log : log[n] = x
    BY PreparedIsFinite, SetAsSeq
  <2>3. S \subseteq RootLines /\ \A line \in S : line.item \in PreparedRoot[k]
    <3>1. \A item \in PreparedRoot[k] : item \in RootItems
      BY <1>1
    <3>2. \A item \in PreparedRoot[k] : Line(item) \in RootLines /\ Line(item).item = item
      BY <3>1 DEF Line, RootLines
    <3> QED
      BY <3>2
  <2>4. \A item \in PreparedRoot[k] : Line(item) \in S /\ Line(item).item = item
    BY DEF Line
  <2> HIDE DEF S, log
  <2>5. Len(log) \in Nat /\ DOMAIN log = 1 .. Len(log) /\ \A n \in DOMAIN log : log[n] \in S
    BY <2>2, ElementOfSeq
  <2>6. log \in Logs
    BY <2>2, <2>3, <2>5 DEF Logs
  <2>7. \A item \in PreparedRoot[k] : \E n \in DOMAIN log : log[n].item = item
    BY <2>2, <2>4
  <2>8. \A n \in DOMAIN log : log[n].item \in PreparedRoot[k]
    BY <2>3, <2>5
  <2>9. Items(log) = PreparedRoot[k]
    BY <2>7, <2>8 DEF Items
  <2> QED
    BY <2>1, <2>6, <2>9
<1>4. lines \in [Kinds -> Logs] /\ acked = PreparedRoot
  BY <1>3 DEF EvidenceInit
<1>5. RestsOn(lines["review"], lines["attestation"])
  <2>1. "review" \in Kinds /\ PreparedRoot["review"] = {}
    BY OneStep DEF PreparedRoot
  <2>2. Items(lines["review"]) = {}
    BY <1>3, <2>1
  <2> QED
    BY <2>2 DEF RestsOn
<1>6. LogsOk(lines, acked)
  BY <1>1, <1>3, <1>4, <1>5 DEF LogsOk
<1>7. AllRunsOk(run, lines, acked)
  <2>1. RunOk(Idle, lines, acked)
    BY IdleOk
  <2>2. run = [c \in Commands |-> Idle]
    BY DEF EvidenceInit
  <2> QED
    BY <2>1, <2>2 DEF AllRunsOk, RunOk
<1>8. BundlesOk(bundles, restored)
  BY DEF EvidenceInit, BundlesOk
<1> QED
  BY <1>2, <1>6, <1>7, <1>8 DEF RootInv

\* A store that opens, opens all of its manifest.
LEMMA OpenedReads ==
    ASSUME NEW kind, NEW dir, NEW log \in Logs, NEW reports, Opens(kind, dir, log, reports)
    PROVE  /\ Parses(log) /\ Read(log) = Items(log) /\ <<>> \notin Items(log)
           /\ kind # "key" => Items(log) = dir
           /\ \A item \in Items(log) : Refers(kind, item, reports)
BY ReadIsItems, LogFacts DEF Opens

LEMMA RootIsSound == RootInv => RootsSound
<1> SUFFICES ASSUME RootInv PROVE RootsSound
  OBVIOUS
<1>1. "report" \in Stores /\ "attestation" \in Stores /\ "review" \in Stores /\ Stores \subseteq Kinds
  BY DEF Stores, Kinds
<1>2. \A k \in Kinds : lines[k] \in Logs
  BY DEF RootInv, LogsOk
<1>3. ASSUME NEW k \in Kinds, NEW dir, NEW reports, Opens(k, dir, lines[k], reports)
      PROVE  acked[k] \subseteq Read(lines[k])
  <2>1. Parses(lines[k]) /\ Read(lines[k]) = Items(lines[k])
    BY <1>2, <1>3, OpenedReads
  <2> QED
    BY <2>1 DEF RootInv, LogsOk
<1>4. ASSUME \A k \in Stores : Opens(k, files[k], lines[k], Read(lines["report"]))
      PROVE  Rests(Read(lines["report"]), Read(lines["attestation"]), Read(lines["review"]))
  <2>1. /\ Parses(lines["attestation"]) /\ Read(lines["attestation"]) = Items(lines["attestation"])
        /\ Read(lines["review"]) = Items(lines["review"]) /\ <<>> \notin Items(lines["review"])
        /\ \A item \in Items(lines["review"]) : Refers("review", item, Read(lines["report"]))
    BY <1>1, <1>2, <1>4, OpenedReads
  <2>2. RestsOn(lines["review"], lines["attestation"])
    BY DEF RootInv, LogsOk
  <2> QED
    BY <2>1, <2>2 DEF Rests, RestsOn, Refers
<1>5. OpenedIsComplete
  BY <1>3, <1>4 DEF OpenedIsComplete
<1>6. ASSUME NEW b \in restored
      PROVE  /\ \A k \in Stores : b.began[k] \subseteq Read(b.copied[k]) /\ Read(b.copied[k]) \subseteq b.listed[k]
             /\ Rests(Read(b.copied["report"]), Read(b.copied["attestation"]), Read(b.copied["review"]))
  <2>1. Verifies(b) /\ Reopens(b) /\ BundleOk(b)
    BY <1>6 DEF RootInv, BundlesOk
  <2>2. \A k \in Stores : /\ b.copied[k] \in Logs /\ (Parses(b.copied[k]) => b.began[k] \subseteq Items(b.copied[k]))
                          /\ Opens(k, b.listed[k], b.copied[k], Read(b.copied["report"]))
    BY <2>1 DEF BundleOk, CopyHas, Reopens
  <2>3. \A k \in Stores : /\ Parses(b.copied[k]) /\ Read(b.copied[k]) = Items(b.copied[k]) /\ <<>> \notin Items(b.copied[k])
                          /\ k # "key" => Items(b.copied[k]) = b.listed[k]
                          /\ \A item \in Items(b.copied[k]) : Refers(k, item, Read(b.copied["report"]))
    BY <2>2, OpenedReads
  <2>4. \A k \in Stores : k # "key"
    BY DEF Stores
  <2>5. b.hashed["review"] = b.copied["review"] /\ RestsOn(b.hashed["review"], b.copied["attestation"])
    BY <1>1, <2>1 DEF Verifies, BundleOk
  <2>6. Rests(Read(b.copied["report"]), Read(b.copied["attestation"]), Read(b.copied["review"]))
    BY <1>1, <2>3, <2>5 DEF Rests, RestsOn, Refers
  <2> QED
    BY <2>2, <2>3, <2>4, <2>6
<1>7. RestoredIsWhole
  BY <1>6 DEF RestoredIsWhole
<1> QED
  BY <1>5, <1>7 DEF RootsSound

\* Whatever commands run at once and are killed: a store that opens has all that
\* was acknowledged, its reviews rest on attestations, and so it is with every
\* root that was restored from a bundle (the _load_existing, archive, attest and
\* record of the depth stores, and restore_evidence_bundle).
THEOREM RootsAreSound == EvidenceSpec => []RootsSound
<1>1. RootInv /\ [EvidenceNext]_rootVars => RootInv'
  BY RootStep
<1>2. EvidenceSpec => []RootInv
  BY <1>1, RootStart, PTL DEF EvidenceSpec
<1> QED
  BY <1>2, RootIsSound, PTL

==============================================================================
