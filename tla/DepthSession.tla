------------------------------ MODULE DepthSession ------------------------------
(***************************************************************************)
(* A depth session of Kuantra: the asyncio tasks that feed one             *)
(* DepthIngestor.                                                          *)
(*   - binance_depth_session.py retries cycles within a reconnect budget;  *)
(*   - binance_depth_transport.py runs a cycle: a producer task puts the   *)
(*     events of the stream into a bounded queue, a consumer task hands    *)
(*     them to the ingestor, and the main task fetches the snapshot        *)
(*     meanwhile, then waits for both or cancels both;                     *)
(*   - binance_depth_network.py is the source: a websocket and a REST      *)
(*     request, each with a timeout.                                       *)
(* A step of a task runs from one point where it may suspend to the next;  *)
(* the consumer may be delayed before every event, which the event loop    *)
(* does only before the first of those that wait.                          *)
(*                                                                         *)
(* The venue numbers its updates.  A connection delivers them in order,    *)
(* one or two to an event, from some point on; an event can be missing or  *)
(* come twice.  The REST snapshot lags the stream or is ahead of it.       *)
(***************************************************************************)
EXTENDS DepthIngestor

CONSTANTS
    MaxId,          \* bound: the last update of the venue
    QueueSize,      \* slots of the event queue
    MaxReconnects,  \* the reconnect budget
    RetryRecovery,  \* policy.retry_recovery
    MaxEvents,      \* policy.max_source_events_per_cycle
    Malformed,      \* the stream may carry a payload the normaliser refuses
    Derivatives,    \* events name the event before them ("pu")
    Sentinel        \* ends the queue

None == "NONE"
Malform == [malformed |-> TRUE]

ASSUME SessionAssumption ==
    /\ Sentinel \notin Events \cup {Malform}
    /\ QueueSize \in Nat \ {0}
    /\ MaxReconnects \in Nat
    /\ {MaxId, MaxEvents} \subseteq Nat \ {0}
    /\ {RetryRecovery, Malformed, Derivatives} \subseteq BOOLEAN

VARIABLES
    main,           \* where the main task is
    producer,       \* where the producer task is
    held,           \* the event the producer waits to put
    consumer,       \* where the consumer task is
    queue,          \* the event queue
    feed,           \* the last update the venue has sent on any connection
    delivered,      \* the last update this connection delivered
    produced,       \* events the producer has put in this cycle
    failed,         \* source_errors is not empty
    poisoned,       \* this connection carried a payload the normaliser refuses
    cycle,          \* decision of the last cycle
    reconnects,     \* reconnects used
    outcome,        \* decision of the session
    stop            \* stop_event is set

taskVars    == <<main, producer, held, consumer, queue>>
sourceVars  == <<feed, delivered, produced, failed, poisoned>>
sessionVars == <<cycle, reconnects, outcome, stop>>
allVars     == <<vars, taskVars, sourceVars, sessionVars>>

SessionInit ==
    /\ Init
    /\ main = "top" /\ producer = "done" /\ consumer = "done"
    /\ held = <<>> /\ queue = <<>>
    /\ feed = 0 /\ delivered = 0 /\ produced = 0 /\ failed = FALSE /\ poisoned = FALSE
    /\ cycle = None /\ reconnects = 0 /\ outcome = None /\ stop = FALSE

-----------------------------------------------------------------------------
(* The session: BinanceDepthSession.run *)

End(result) == outcome' = result /\ main' = "ended"

StoppedAtTop ==
    /\ main = "top"
    /\ stop
    /\ End("STOPPED")
    /\ UNCHANGED <<vars, producer, held, consumer, queue, sourceVars, cycle, reconnects, stop>>

\* run_once begins: while disconnected the venue may have moved on.
StartCycle ==
    /\ main = "top"
    /\ ~ stop
    /\ StartBuffering
    /\ main' = "fetching" /\ producer' = "reading" /\ consumer' = "running"
    /\ held' = <<>> /\ queue' = <<>>
    /\ feed' \in {n \in feed .. feed + 1 : n <= MaxId}
    /\ delivered' = 0 /\ produced' = 0 /\ failed' = FALSE /\ poisoned' = FALSE
    /\ UNCHANGED sessionVars

Retryable ==
    {"SOURCE_FAILED", "SNAPSHOT_RETRY_REQUIRED"}
        \cup (IF RetryRecovery THEN {"RECOVERY_REQUIRED"} ELSE {})

CycleEnds ==
    /\ main = "returned"
    /\ cycle \notin Retryable
    /\ End(cycle)
    /\ UNCHANGED <<vars, producer, held, consumer, queue, sourceVars, cycle, reconnects, stop>>

Exhausted ==
    /\ main = "returned"
    /\ cycle \in Retryable
    /\ reconnects >= MaxReconnects
    /\ End("EXHAUSTED")
    /\ UNCHANGED <<vars, producer, held, consumer, queue, sourceVars, cycle, reconnects, stop>>

Reconnect ==
    /\ main = "returned"
    /\ cycle \in Retryable
    /\ reconnects < MaxReconnects
    /\ reconnects' = reconnects + 1
    /\ main' = "backoff"
    /\ UNCHANGED <<vars, producer, held, consumer, queue, sourceVars, cycle, outcome, stop>>

\* The backoff ends with its delay or with the stop event.
WaitBackoff ==
    /\ main = "backoff"
    /\ IF stop THEN End("STOPPED") ELSE main' = "top" /\ UNCHANGED outcome
    /\ UNCHANGED <<vars, producer, held, consumer, queue, sourceVars, cycle, reconnects, stop>>

Stop ==
    /\ ~ stop
    /\ main # "ended"
    /\ stop' = TRUE
    /\ UNCHANGED <<vars, taskVars, sourceVars, cycle, reconnects, outcome>>

-----------------------------------------------------------------------------
(* The producer task *)

\* What the stream can deliver next: the next one or two updates, an event
\* after a hole, or one that overlaps what this connection delivered before.
Deliverable ==
    {e \in Events :
        /\ \/ e.first \in feed + 1 .. feed + 2
           \/ e.first = feed /\ delivered = feed
        /\ e.previous = IF Derivatives THEN feed ELSE NoId}

HasPut(item) ==
    /\ queue' = Append(queue, item)
    /\ held' = <<>>
    /\ produced' = produced + 1
    /\ producer' = IF produced' >= MaxEvents THEN "ending" ELSE "reading"

\* queue.put suspends the producer while the queue is full.
Put(item) ==
    IF Len(queue) < QueueSize
    THEN HasPut(item)
    ELSE held' = <<item>> /\ producer' = "putting" /\ UNCHANGED <<queue, produced>>

Produce ==
    /\ producer = "reading"
    /\ ~ stop
    /\ \E e \in Deliverable :
          /\ Put(e)
          /\ feed' = IF e.final > feed THEN e.final ELSE feed
          /\ delivered' = feed'
    /\ UNCHANGED <<vars, main, consumer, failed, poisoned, sessionVars>>

ProduceMalformed ==
    /\ Malformed
    /\ producer = "reading"
    /\ ~ stop
    /\ Put(Malform)
    /\ poisoned' = TRUE
    /\ UNCHANGED <<vars, main, consumer, feed, delivered, failed, sessionVars>>

FinishPut ==
    /\ producer = "putting"
    /\ Len(queue) < QueueSize
    /\ Put(held[1])
    /\ UNCHANGED <<vars, main, consumer, feed, delivered, failed, poisoned, sessionVars>>

\* The stream ends, or stop_event is seen.
SourceEnds ==
    /\ producer = "reading"
    /\ producer' = "ending"
    /\ UNCHANGED <<vars, main, held, consumer, queue, sourceVars, sessionVars>>

\* The socket closes, a receive times out, a frame cannot be decoded.
SourceFails ==
    /\ producer = "reading"
    /\ producer' = "ending"
    /\ failed' = TRUE
    /\ UNCHANGED <<vars, main, held, consumer, queue, feed, delivered, produced, poisoned, sessionVars>>

\* Faulty variant: the sentinel is put when the stream ends, not when it fails.
FaultyPutSentinel ==
    /\ producer = "ending"
    /\ Len(queue) < QueueSize
    /\ IF failed THEN UNCHANGED queue ELSE queue' = Append(queue, Sentinel)
    /\ producer' = "done"
    /\ UNCHANGED <<vars, main, held, consumer, sourceVars, sessionVars>>

PutSentinel ==
    /\ producer = "ending"
    /\ Len(queue) < QueueSize
    /\ queue' = Append(queue, Sentinel)
    /\ producer' = "done"
    /\ UNCHANGED <<vars, main, held, consumer, sourceVars, sessionVars>>

-----------------------------------------------------------------------------
(* The consumer task *)

Consume ==
    /\ consumer = "running"
    /\ queue # <<>>
    /\ queue' = Tail(queue)
    /\ CASE Head(queue) = Sentinel -> consumer' = "done" /\ UNCHANGED vars
         [] Head(queue) = Malform  -> IngestMalformed /\ UNCHANGED consumer
         [] Head(queue) \in Events -> IngestEvent(Head(queue)) /\ UNCHANGED consumer
    /\ UNCHANGED <<main, producer, held, sourceVars, sessionVars>>

-----------------------------------------------------------------------------
(* The main task: BinanceDepthTransport.run_once *)

Decide(decision, next) == cycle' = decision /\ main' = next

UnchangedTasks == UNCHANGED <<producer, held, consumer, queue, feed, delivered, produced, poisoned>>

FetchFails ==
    /\ main = "fetching"
    /\ failed' = TRUE
    /\ Decide("SOURCE_FAILED", "cancelling")
    /\ UnchangedTasks
    /\ UNCHANGED <<vars, reconnects, outcome, stop>>

\* The snapshot goes to the ingestor in the step that receives it; the state it
\* leaves tells the three results apart.
FetchSnapshot ==
    /\ main = "fetching"
    /\ \E s \in SnapshotIds :
          /\ s \in feed - 2 .. feed + 1
          /\ IngestSnapshot(s)
    /\ CASE Working /\ ingestor' = "LIVE" ->
                main' = "draining" /\ UNCHANGED cycle
         [] Working /\ ingestor' = "AWAITING_SNAPSHOT" ->
                Decide("SNAPSHOT_RETRY_REQUIRED", "cancelling")
         [] OTHER -> Decide("SNAPSHOT_REJECTED", "cancelling")
    /\ UnchangedTasks
    /\ UNCHANGED <<failed, reconnects, outcome, stop>>

\* Faulty variant: the source errors are only looked at when the feed recovered.
FaultyDecision ==
    CASE ingestor = "PERSISTENCE_ERROR" -> "PERSISTENCE_FAILED"
      [] ingestor = "RECOVERY_REQUIRED" -> "RECOVERY_REQUIRED"
      [] OTHER -> IF stop THEN "STOPPED" ELSE "COMPLETED"

Decision ==
    CASE failed -> "SOURCE_FAILED"
      [] ~ failed /\ ingestor = "PERSISTENCE_ERROR" -> "PERSISTENCE_FAILED"
      [] ~ failed /\ ingestor = "RECOVERY_REQUIRED" -> "RECOVERY_REQUIRED"
      [] OTHER -> IF stop THEN "STOPPED" ELSE "COMPLETED"

\* Both tasks have ended by themselves.
Drain ==
    /\ main = "draining"
    /\ producer = "done" /\ consumer = "done"
    /\ Decide(Decision, "returned")
    /\ UnchangedTasks
    /\ UNCHANGED <<vars, failed, reconnects, outcome, stop>>

\* Faulty variant: only the producer is cancelled.
FaultyCancel ==
    /\ main = "cancelling"
    /\ main' = "gathering"
    /\ producer' = IF producer \in {"reading", "putting"} THEN "ending" ELSE "done"
    /\ held' = <<>>
    /\ UNCHANGED <<vars, consumer, queue, sourceVars, sessionVars>>

\* The finally clause cancels the tasks.  The producer takes the cancellation
\* for a failure of its source and goes on to put the sentinel; only when that
\* put is what was cancelled does it end.
Cancel ==
    /\ main = "cancelling"
    /\ main' = "gathering"
    /\ producer' = IF producer \in {"reading", "putting"} THEN "ending" ELSE "done"
    /\ consumer' = "done"
    /\ held' = <<>>
    /\ UNCHANGED <<vars, queue, sourceVars, sessionVars>>

Gather ==
    /\ main = "gathering"
    /\ producer = "done" /\ consumer = "done"
    /\ main' = "returned"
    /\ UnchangedTasks
    /\ UNCHANGED <<vars, failed, sessionVars>>

-----------------------------------------------------------------------------
Session == StoppedAtTop \/ StartCycle \/ CycleEnds \/ Exhausted \/ Reconnect \/ WaitBackoff
Source  == Produce \/ ProduceMalformed \/ SourceEnds \/ SourceFails
Fetch   == FetchFails \/ FetchSnapshot
Main    == Drain \/ Cancel \/ Gather

\* Nothing happens after main = "ended".
SessionNext ==
    \/ Session \/ Source \/ FinishPut \/ PutSentinel \/ Consume \/ Fetch \/ Main
    \/ Stop

SessionSpec == SessionInit /\ [][SessionNext]_allVars

\* The event loop runs every task that can go on; receiving an event and
\* fetching the snapshot have timeouts.  Nobody has to stop the session.
Fairness ==
    /\ WF_allVars(Session) /\ WF_allVars(Main) /\ WF_allVars(Fetch)
    /\ WF_allVars(Source) /\ WF_allVars(FinishPut) /\ WF_allVars(PutSentinel)
    /\ WF_allVars(Consume)

FairSession == SessionSpec /\ Fairness

-----------------------------------------------------------------------------
(* Properties *)

\* The tasks stay within their states, the queue within its slots.
SessionTypeOK ==
    /\ TypeOK
    /\ main \in {"top", "fetching", "draining", "cancelling", "gathering", "returned",
                 "backoff", "ended"}
    /\ producer \in {"reading", "putting", "ending", "done"}
    /\ consumer \in {"running", "done"}
    /\ Len(queue) <= QueueSize
    /\ held # <<>> <=> producer = "putting"
    /\ feed \in 0 .. MaxId /\ delivered \in 0 .. feed /\ poisoned \in BOOLEAN
    /\ reconnects \in 0 .. MaxReconnects /\ produced \in 0 .. MaxEvents

\* A cycle that reports COMPLETED ends live, with every update its connection
\* delivered in the book: nothing was dropped on the way and no failure hidden.
\* (Only a refused payload makes the ingestor drop what came before it.)
CompletedIsCurrent ==
    main = "returned" /\ cycle = "COMPLETED" /\ ~ poisoned =>
        /\ ingestor = "LIVE"
        /\ book.last >= delivered
        /\ ~ failed

\* Whatever cycles came before, every update the live book reflects is in a
\* snapshot or an update on disk: an envelope that counts as already recorded, and
\* is not written again, is.
SinkCoversBook ==
    ingestor = "LIVE" =>
        \A id \in book.ids : \E n \in DOMAIN sink :
            /\ sink[n].first # NoId => sink[n].first <= id
            /\ id <= sink[n].final

\* A cycle that was told to end does: the cancelled tasks do not keep it.
CycleReturns == main = "cancelling" ~> main = "returned"

\* The cancelled producer waits for a slot of the queue, and nobody reads any more.
Hung == main = "gathering" /\ producer = "ending" /\ Len(queue) = QueueSize

\* A full queue is all that can keep a cycle that was told to end.
ReturnsOrHangs == main = "cancelling" ~> main = "returned" \/ Hung

\* The session comes to a decision, unless a cycle of it never returns.
SessionEnds == <>(outcome # None \/ Hung)

\* A session loses nothing on the way from the connection over the queue and the
\* book to the sink, across gaps, reconnects and repeated cycles.
SessionSound == AcceptedIsApplied /\ CompletedIsCurrent /\ SinkCoversBook
=============================================================================
