------------------------------ MODULE Credentials ------------------------------
(***************************************************************************)
(* The credentials of one exchange (credentials_manager.py): the secrets in *)
(* the keychain of the operating system (credential_store.py), the row of   *)
(* references in SQLite, and the calls that write, read and delete them one *)
(* keychain entry at a time, several at once.  Beside them the onboarding   *)
(* call, which stores its settings one by one and then its secret.          *)
(***************************************************************************)
EXTENDS Naturals, FiniteSets

CONSTANTS
    Clients,    \* calls that may be under way at once
    Creds,      \* credentials a user may enter
    WithPass,   \* those among them that have a passphrase
    NoCred      \* no credentials, and no secret

ASSUME CredentialAssumption == WithPass \subseteq Creds /\ NoCred \notin Creds

VARIABLES
    keychain,   \* the entry of each field: the credentials it was written for
    refs,       \* exchange_credential_refs: the fields the row refers to, or none
    legacy,     \* whether a row of exchange_credentials is left
    client,     \* the calls under way
    settled,    \* ghost: what the calls that ended alone have left
    settings,   \* the settings onboarding has stored
    boarding    \* where an onboarding call is

credentialVars == <<keychain, refs, legacy, client, settled, settings, boarding>>

Fields == {"api_key", "api_secret", "passphrase"}
Unsettled == "unsettled"
FieldsOf(cred) == {"api_key", "api_secret"} \cup (IF cred \in WithPass THEN {"passphrase"} ELSE {})
Resting == [at |-> "idle", cred |-> NoCred, done |-> {}, alone |-> TRUE, failed |-> FALSE, got |-> {}]

-----------------------------------------------------------------------------
(* Which calls are under way *)

Writing(c) == client[c].at \in {"write", "commit", "undo", "drop", "forget", "purge"}
IsAlone(c) == \A d \in Clients \ {c} : ~ Writing(d)

\* A call that writes takes from every other the claim to have run alone.
Disturbed(c, entry) ==
    [d \in Clients |-> IF d = c THEN [entry EXCEPT !.alone = IsAlone(c)]
                       ELSE [client[d] EXCEPT !.alone = FALSE]]

GoOn(c, at) == client' = [client EXCEPT ![c].at = at]
End(c) == client' = [client EXCEPT ![c] = Resting]
Settle(c, cred) == settled' = IF client[c].alone THEN cred ELSE Unsettled

-----------------------------------------------------------------------------
(* save_credentials *)

BeginStore(c, cred) ==
    /\ client[c].at = "idle"
    /\ client' = Disturbed(c, [Resting EXCEPT !.at = "write", !.cred = cred])
    /\ settled' = Unsettled
    /\ UNCHANGED <<keychain, refs, legacy, settings, boarding>>

Order(f) == CASE f = "api_key" -> 1 [] f = "api_secret" -> 2 [] f = "passphrase" -> 3

\* The fields are written in order, each with a call of the keychain.
Due(c) == CHOOSE f \in FieldsOf(client[c].cred) \ client[c].done :
              \A g \in FieldsOf(client[c].cred) \ client[c].done : Order(f) <= Order(g)

WriteSecret(c) ==
    /\ client[c].at = "write"
    /\ keychain' = [keychain EXCEPT ![Due(c)] = client[c].cred]
    /\ client' = [client EXCEPT ![c].done = @ \cup {Due(c)},
                     ![c].at = IF client[c].done \cup {Due(c)} = FieldsOf(client[c].cred)
                               THEN "commit" ELSE "write"]
    /\ UNCHANGED <<refs, legacy, settled, settings, boarding>>

\* Faulty variant: the references of the row that is replaced are kept.
FaultyReferences(cred) == (IF refs = {} THEN {} ELSE refs) \cup FieldsOf(cred)

\* ON CONFLICT DO UPDATE: the row refers to what was entered, and to no more.
References(cred) == FieldsOf(cred)

CommitRow(c) ==
    /\ client[c].at = "commit"
    /\ refs' = References(client[c].cred)
    /\ legacy' = FALSE
    /\ Settle(c, client[c].cred)
    /\ End(c)
    /\ UNCHANGED <<keychain, settings, boarding>>

\* The keychain rejects a write, or SQLite the row: what was written is deleted.
FailSave(c) ==
    /\ client[c].at \in {"write", "commit"}
    /\ GoOn(c, "undo")
    /\ UNCHANGED <<keychain, refs, legacy, settled, settings, boarding>>

\* The deletion of an entry may fail as well, which is logged.
UndoSecret(c, f) ==
    /\ client[c].at = "undo" /\ f \in client[c].done
    /\ \/ keychain' = [keychain EXCEPT ![f] = NoCred]
       \/ UNCHANGED keychain
    /\ client' = [client EXCEPT ![c].done = @ \ {f}]
    /\ UNCHANGED <<refs, legacy, settled, settings, boarding>>

RaiseSave(c) ==
    /\ client[c].at = "undo" /\ client[c].done = {}
    /\ End(c)
    /\ UNCHANGED <<keychain, refs, legacy, settled, settings, boarding>>

-----------------------------------------------------------------------------
(* delete_credentials *)

BeginDelete(c) ==
    /\ client[c].at = "idle"
    /\ client' = Disturbed(c, [Resting EXCEPT !.done = refs,
                    !.at = IF refs = {} /\ legacy THEN "purge" ELSE IF refs = {} THEN "forget" ELSE "drop"])
    /\ settled' = Unsettled
    /\ UNCHANGED <<keychain, refs, legacy, settings, boarding>>

DropSecret(c, f) ==
    /\ client[c].at = "drop" /\ f \in client[c].done
    /\ keychain' = [keychain EXCEPT ![f] = NoCred]
    /\ client' = [client EXCEPT ![c].done = @ \ {f},
                     ![c].at = IF client[c].done = {f} THEN "forget" ELSE "drop"]
    /\ UNCHANGED <<refs, legacy, settled, settings, boarding>>

\* The keychain fails: the row stays, with what is left of the secrets.
FailDelete(c) ==
    /\ client[c].at = "drop"
    /\ End(c)
    /\ UNCHANGED <<keychain, refs, legacy, settled, settings, boarding>>

ForgetRow(c) ==
    /\ client[c].at = "forget"
    /\ refs' = {}
    /\ legacy' = FALSE
    /\ Settle(c, NoCred)
    /\ End(c)
    /\ UNCHANGED <<keychain, settings, boarding>>

PurgeLegacy(c) ==
    /\ client[c].at = "purge"
    /\ legacy' = FALSE
    /\ Settle(c, IF refs = {} THEN NoCred ELSE Unsettled)
    /\ End(c)
    /\ UNCHANGED <<keychain, refs, settings, boarding>>

-----------------------------------------------------------------------------
(* get_decrypted_credentials *)

BeginRead(c) ==
    /\ client[c].at = "idle"
    /\ client' = [client EXCEPT ![c] = [Resting EXCEPT !.at = IF refs = {} THEN "given" ELSE "read",
                     !.done = refs, !.cred = settled, !.alone = IsAlone(c)]]
    /\ UNCHANGED <<keychain, refs, legacy, settled, settings, boarding>>

\* Each entry is read by itself; a failure gives no credentials at all.
ReadSecret(c, f) ==
    /\ client[c].at = "read" /\ f \in client[c].done
    /\ \A g \in client[c].done : Order(f) <= Order(g)
    /\ \/ client' = [client EXCEPT ![c].done = @ \ {f}, ![c].got = @ \cup {<<f, keychain[f]>>},
                        ![c].at = IF client[c].done = {f} THEN "given" ELSE "read"]
       \/ client' = [client EXCEPT ![c].at = "given", ![c].failed = TRUE]
    /\ UNCHANGED <<keychain, refs, legacy, settled, settings, boarding>>

\* What is given: nothing when the key or the secret is missing.
Given(c) ==
    LET found == {pair \in client[c].got : pair[2] # NoCred}
    IN  IF client[c].failed \/ ~ {"api_key", "api_secret"} \subseteq {pair[1] : pair \in found}
        THEN {} ELSE found

\* test_connection asks the exchange with what it was given, and stores nothing.
EndRead(c) ==
    /\ client[c].at = "given"
    /\ End(c)
    /\ UNCHANGED <<keychain, refs, legacy, settled, settings, boarding>>

-----------------------------------------------------------------------------
(* complete_onboarding *)

BeginOnboarding ==
    /\ boarding = "none"
    /\ boarding' = "settings"
    /\ UNCHANGED <<keychain, refs, legacy, client, settled, settings>>

\* update_settings: one transaction for each key, that of the first boot first.
StoreSetting ==
    /\ boarding = "settings"
    /\ IF "first_boot_completed" \notin settings
       THEN settings' = {"first_boot_completed"} /\ UNCHANGED boarding
       ELSE settings' = settings \cup {"others"} /\ boarding' = "secret"
    /\ UNCHANGED <<keychain, refs, legacy, client, settled>>

StoreKey(stored) ==
    /\ boarding = "secret"
    /\ settings' = IF stored THEN settings \cup {"secret"} ELSE settings
    /\ boarding' = IF stored THEN "done" ELSE "refused"
    /\ UNCHANGED <<keychain, refs, legacy, client, settled>>

\* The process ends; the keychain and SQLite stay as they are.
EndProcess ==
    /\ \E c \in Clients : client[c].at # "idle"
    /\ client' = [c \in Clients |-> Resting]
    /\ boarding' = IF boarding \in {"settings", "secret"} THEN "none" ELSE boarding
    /\ UNCHANGED <<keychain, refs, legacy, settled, settings>>

-----------------------------------------------------------------------------
CredentialInit ==
    /\ keychain = [f \in Fields |-> NoCred]
    /\ refs = {}
    /\ legacy \in BOOLEAN
    /\ client = [c \in Clients |-> Resting]
    /\ settled = NoCred
    /\ settings = {} /\ boarding = "none"

CredentialStep(c) ==
    \/ \E cred \in Creds : BeginStore(c, cred)
    \/ WriteSecret(c) \/ CommitRow(c) \/ FailSave(c) \/ RaiseSave(c)
    \/ BeginDelete(c) \/ FailDelete(c) \/ ForgetRow(c) \/ PurgeLegacy(c)
    \/ BeginRead(c) \/ EndRead(c)
    \/ \E f \in Fields : UndoSecret(c, f) \/ DropSecret(c, f) \/ ReadSecret(c, f)

CredentialNext ==
    \/ \E c \in Clients : CredentialStep(c)
    \/ BeginOnboarding \/ StoreSetting \/ \E stored \in BOOLEAN : StoreKey(stored)
    \/ EndProcess

CredentialSpec == CredentialInit /\ [][CredentialNext]_credentialVars

-----------------------------------------------------------------------------
(* Properties *)

\* What was saved is what is read: when no other call wrote since the one that
\* ended last began, and the keychain answers, a reader is given all the fields
\* of the credentials that call left and none of another's; an earlier save or
\* deletion that failed half way, or a process that ended, leaves no trace.
ReadIsSaved ==
    \A c \in Clients :
        LET call == client[c]
        IN  (call.at = "given" /\ ~ call.failed /\ call.alone /\ call.cred # Unsettled) =>
                Given(c) = IF call.cred = NoCred THEN {}
                           ELSE {<<f, call.cred>> : f \in FieldsOf(call.cred)}

\* A deletion that runs alone takes the secrets before the references: when it
\* comes to the row, nothing it refers to is left, and no legacy row stands
\* beside a row of references, which would be read instead of it.
DeletedIsGone ==
    /\ ~ (legacy /\ refs # {})
    /\ \A c \in Clients : (client[c].at = "forget" /\ client[c].alone) =>
           \A f \in refs : keychain[f] = NoCred

\* The two together: credentials are kept as they were saved, or are gone.
KeptOrGone == ReadIsSaved /\ DeletedIsGone

\* What the comment in delete_credentials says must not be: a secret that lives
\* on in the keychain with no row that refers to it.
NoSecretWithoutReference ==
    (\A c \in Clients : client[c].at = "idle") => \A f \in Fields : keychain[f] # NoCred => f \in refs

\* What the rollback of save_credentials is for: a save that fails leaves the
\* credentials that were saved before it as they were.
FailedSaveChangesNothing ==
    [][\A c \in Clients : (client[c].at = "undo" /\ client'[c].at = "idle") =>
           \A f \in refs : keychain[f] # NoCred]_credentialVars

\* Who has completed the first boot has the settings and the secret of it.
OnboardingIsWhole ==
    ("first_boot_completed" \in settings /\ boarding \notin {"settings", "secret"}) =>
        {"others", "secret"} \subseteq settings
=============================================================================
