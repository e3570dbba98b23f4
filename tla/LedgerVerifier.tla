---------------------------- MODULE LedgerVerifier ----------------------------
(***************************************************************************)
(* The verification of the hash chains of the evidence ledger, with what a  *)
(* repository remembers of the last one that succeeded                      *)
(* (EvidenceLedgerRepository.verify_chain in                                *)
(* app/db/repositories/evidence_ledger_repo.py).                            *)
(*                                                                          *)
(* Services keep a repository for as long as they live and answer requests  *)
(* from a thread pool, so that threads share its three cache fields, which  *)
(* are read and written one after the other without a lock.  A service that *)
(* finds the schema changed clears them (close).  Each read of the database *)
(* is one snapshot, and commits fall between them.  A row is sound or was   *)
(* altered behind the back of the application, its own hash left as it was. *)
(***************************************************************************)
EXTENDS Integers, Sequences, FiniteSets, Functions

CONSTANTS
    Verifiers,      \* threads that share the repository
    Chains,         \* (account, UTC day)
    Scopes,         \* the sets of chains callers ask about
    NoCache,        \* a cache field is None
    MaxRows,        \* bound: rows of all chains
    MaxAltered      \* bound: rows altered on disk

ASSUME VerifierAssumption ==
    /\ Scopes \subseteq SUBSET Chains
    /\ MaxRows \in Nat /\ MaxAltered \in Nat

VARIABLES
    chain,      \* per chain, whether each of its rows is sound
    cache,      \* the three fields of the repository
    call,       \* the verification each thread is in
    proven      \* history: the rows a verification has read and found sound

verifierVars == <<chain, cache, call, proven>>

\* A call: where it stands, the scope, the rows there were when it was made, whether
\* what is remembered may be a prefix of them, what follows from that, the answer.
NoCheck == [at |-> "idle", scope |-> {}, prints |-> <<>>, fits |-> FALSE,
            ranges |-> NoCache, state |-> NoCache, answer |-> NoCache]
Advance(t, c) == call' = [call EXCEPT ![t] = c]

\* What every later step of a call needs.
Asked(c, at) == [NoCheck EXCEPT !.at = at, !.scope = c.scope, !.prints = c.prints]

\* _ledger_state_fingerprint: the number of rows of every chain that has any.
Prints(scope) == [c \in {x \in scope : chain[x] # <<>>} |-> Len(chain[c])]

\* The fingerprint is taken first.  If the database does not give one, every row is
\* read, and nothing remembered.
Begin(t) ==
    /\ call[t] = NoCheck
    /\ \E scope \in Scopes, at \in {"begun", "unprinted"} :
          Advance(t, [NoCheck EXCEPT !.at = at, !.scope = scope, !.prints = Prints(scope)])
    /\ UNCHANGED <<chain, cache, proven>>

KeyOf(c) == <<c.scope, c.prints>>

\* The last verification was of this very ledger, and its result is there: two reads.
CompareKey(t) ==
    /\ call[t].at = "begun"
    /\ Advance(t, Asked(call[t], IF cache.key # NoCache /\ cache.key = KeyOf(call[t]) THEN "matched" ELSE "missed"))
    /\ UNCHANGED <<chain, cache, proven>>

SeeResult(t) ==
    /\ call[t].at = "matched"
    /\ Advance(t, Asked(call[t], IF cache.result # NoCache THEN "cached" ELSE "missed"))
    /\ UNCHANGED <<chain, cache, proven>>

\* The result is read once more for the answer.  It is None if the cache was cleared
\* since, and the caller fails on it.
AnswerCached(t) ==
    /\ call[t].at = "cached"
    /\ Advance(t, [Asked(call[t], "answered") EXCEPT !.answer = cache.result])
    /\ UNCHANGED <<chain, cache, proven>>

\* _cached_append_ranges reads the key, the result and the state, one after the other.
LookUp(t) ==
    /\ \/ /\ call[t].at = "missed"
          /\ Advance(t, [Asked(call[t], "keyed") EXCEPT
                            !.fits = cache.key # NoCache /\ cache.key[1] = call[t].scope])
       \/ /\ call[t].at = "keyed"
          /\ Advance(t, [Asked(call[t], "looked") EXCEPT
                            !.fits = call[t].fits /\ cache.result # NoCache /\ cache.result.valid])
    /\ UNCHANGED <<chain, cache, proven>>

\* Faulty variant: the rows below the present end count as verified.
FaultyRanges(c, state) ==
    IF ~ c.fits \/ state = NoCache THEN NoCache
    ELSE [x \in DOMAIN c.prints |-> c.prints[x]]

\* _cached_append_ranges: after which row of each chain verification resumes,
\* or nothing when all must be read.
Ranges(c, state) ==
    IF \/ ~ c.fits \/ state = NoCache
       \/ \E x \in DOMAIN state : x \notin DOMAIN c.prints \/ c.prints[x] < state[x]
       \/ state = c.prints
    THEN NoCache
    ELSE [x \in {y \in DOMAIN c.prints : y \notin DOMAIN state \/ c.prints[y] > state[y]} |->
             IF x \in DOMAIN state THEN state[x] ELSE 0]

FindRanges(t) ==
    /\ call[t].at = "looked"
    /\ Advance(t, [Asked(call[t], "ranged") EXCEPT !.ranges = Ranges(call[t], cache.state)])
    /\ UNCHANGED <<chain, cache, proven>>

\* The state is read once more, for the row each range continues.  It may be another
\* by now, or None.
ReadState(t) ==
    /\ call[t].at = "ranged"
    /\ Advance(t, [call[t] EXCEPT !.at = "reading",
                               !.state = IF call[t].ranges = NoCache THEN NoCache ELSE cache.state])
    /\ UNCHANGED <<chain, cache, proven>>

After(c, x)    == IF c.ranges = NoCache THEN 0 ELSE c.ranges[x]
Expected(c, x) == IF c.state # NoCache /\ x \in DOMAIN c.state THEN c.state[x] ELSE 0

\* The rows the cursor yields.
RowsRead(c) == UNION {{x} \X (After(c, x) + 1 .. Len(chain[x])) :
                         x \in IF c.ranges = NoCache THEN c.scope ELSE DOMAIN c.ranges}

\* Every row hashes to what it says and continues the one before it.
Valid(c) == \A r \in RowsRead(c) : chain[r[1]][r[2]] /\ After(c, r[1]) = Expected(c, r[1])

\* The answer also counts the rows, read or counted by the fingerprint.
ReadRows(t) ==
    /\ call[t].at \in {"reading", "unprinted"}
    /\ LET c == call[t]
       IN  /\ Advance(t, [Asked(c, IF c.at = "reading" THEN "read" ELSE "answered")
                            EXCEPT !.answer = [valid |-> Valid(c)]])
           /\ proven' = proven \cup {r \in RowsRead(c) : chain[r[1]][r[2]]}
    /\ UNCHANGED <<chain, cache>>

\* Faulty variant: what is remembered is the ledger as it is by now.
FaultyRemembered(c) == Prints(c.scope)

\* A result is remembered with the fingerprint from before the rows were read.
Remembered(c) == c.prints

\* It is remembered when it is valid and a second fingerprint, if the database gives
\* one, shows nothing appended meanwhile.
Finish(t) ==
    /\ call[t].at = "read"
    /\ LET c == call[t]
       IN  \/ /\ c.answer.valid /\ Prints(c.scope) = Remembered(c)
              /\ Advance(t, [c EXCEPT !.at = "key"])
           \/ Advance(t, [c EXCEPT !.at = "answered"])
    /\ UNCHANGED <<chain, cache, proven>>

\* Three assignments.
StoreResult(t) ==
    /\ \/ call[t].at = "key"    /\ cache' = [cache EXCEPT !.key = <<call[t].scope, Remembered(call[t])>>]
                                /\ Advance(t, [call[t] EXCEPT !.at = "result"])
       \/ call[t].at = "result" /\ cache' = [cache EXCEPT !.result = call[t].answer]
                                /\ Advance(t, [call[t] EXCEPT !.at = "state"])
       \/ call[t].at = "state"  /\ cache' = [cache EXCEPT !.state = Remembered(call[t])]
                                /\ Advance(t, [call[t] EXCEPT !.at = "answered"])
    /\ UNCHANGED <<chain, proven>>

Return(t) == call[t].at = "answered" /\ Advance(t, NoCheck) /\ UNCHANGED <<chain, cache, proven>>

\* The caller's check of its resources raises, or the database while rows are read.
Fail(t) == call[t].at \in {"cached", "reading", "unprinted"} /\ Advance(t, NoCheck) /\ UNCHANGED <<chain, cache, proven>>

\* close: a service found another schema than it knew.  Three assignments.
Close(t) ==
    /\ \/ call[t] = NoCheck       /\ cache' = [cache EXCEPT !.key = NoCache]
                                   /\ Advance(t, [NoCheck EXCEPT !.at = "unkeyed"])
       \/ call[t].at = "unkeyed"  /\ cache' = [cache EXCEPT !.result = NoCache]
                                   /\ Advance(t, [NoCheck EXCEPT !.at = "cleared"])
       \/ call[t].at = "cleared"  /\ cache' = [cache EXCEPT !.state = NoCache]
                                   /\ Advance(t, NoCheck)
    /\ UNCHANGED <<chain, proven>>

\* A writer, here or in another process, commits one row.
AppendRow ==
    /\ SumFunction([x \in Chains |-> Len(chain[x])]) < MaxRows
    /\ \E x \in Chains : chain' = [chain EXCEPT ![x] = Append(@, TRUE)]
    /\ UNCHANGED <<cache, call, proven>>

AlterRow ==
    /\ SumFunction([x \in Chains |-> Len(SelectSeq(chain[x], LAMBDA sound : ~ sound))]) < MaxAltered
    /\ \E x \in Chains : \E n \in DOMAIN chain[x] : chain[x][n] /\ chain' = [chain EXCEPT ![x][n] = FALSE]
    /\ UNCHANGED <<cache, call, proven>>

VerifierInit ==
    /\ chain = [x \in Chains |-> <<>>]
    /\ cache = [key |-> NoCache, result |-> NoCache, state |-> NoCache]
    /\ call = [t \in Verifiers |-> NoCheck] /\ proven = {}

VerifierNext ==
    \/ AppendRow \/ AlterRow
    \/ \E t \in Verifiers : \/ Begin(t) \/ CompareKey(t) \/ SeeResult(t) \/ AnswerCached(t) \/ LookUp(t)
                            \/ FindRanges(t) \/ ReadState(t) \/ ReadRows(t) \/ Finish(t) \/ StoreResult(t)
                            \/ Return(t) \/ Fail(t) \/ Close(t)

VerifierSpec == VerifierInit /\ [][VerifierNext]_verifierVars

-----------------------------------------------------------------------------
(* Properties *)

Answered(t) == call[t].at = "answered" /\ call[t].answer # NoCache

\* A ledger is called valid only when every row it had when the question was
\* asked was once read by this process and found sound, however the threads'
\* writes to the cache fields mix and however much of the chain was skipped.
ValidMeansProven ==
    \A t \in Verifiers : Answered(t) /\ call[t].answer.valid =>
        \A x \in DOMAIN call[t].prints : \A n \in 1 .. call[t].prints[x] : <<x, n>> \in proven

(* One that does not hold when threads share the cache, and that no run checks. *)

\* "A successful chain verification can be reused while the append-only ledger
\* remains unchanged": a ledger nobody altered would never be called invalid.  Two
\* threads' states mixed make rows seem to continue another row than they do.
NoFalseAlarm ==
    (\A x \in Chains : \A n \in DOMAIN chain[x] : chain[x][n]) =>
        \A t \in Verifiers : Answered(t) => call[t].answer.valid
=============================================================================
