----------------------------- MODULE DesktopShell -----------------------------
(***************************************************************************)
(* The shell around the backend: the loop in a thread of its own            *)
(* (desktop/runtime.py), the calls windows make into it and the evidence    *)
(* jobs they start (desktop/bridge.py), the channel that pushes messages to *)
(* the windows (desktop/push.py, app/websocket/connection_manager.py), and  *)
(* the clean-up at the end (desktop_main.py).                               *)
(*                                                                          *)
(* Calls come from threads of the window toolkit; the loop is one thread,   *)
(* the flush of the channel another; the clean-up is begun by the callback  *)
(* of the last window and by the main thread (or by AppKit's quit, which    *)
(* runs on it).  Evidence packs are built by one worker process, which      *)
(* shares the lease of the profile.  A message is the number of its tick.   *)
(***************************************************************************)
EXTENDS Integers, Sequences, FiniteSets, SequencesExt

CONSTANTS
    UiThreads,      \* threads that call the bridge
    Closers,        \* the close callback and the main thread
    Main,           \* the main thread, which exits
    Nobody,         \* the shutdown lock is free
    MaxQueue,       \* MAX_QUEUE of the push channel
    MaxBatch,       \* max_batch
    MaxJobs,        \* _MAX_EVIDENCE_PACK_JOBS
    MaxTicks        \* bound: ticks of the market

ASSUME ShellAssumption ==
    /\ Main \in Closers /\ Nobody \notin Closers
    /\ MaxQueue \in Nat \ {0} /\ MaxBatch \in Nat \ {0} /\ MaxJobs \in Nat \ {0} /\ MaxTicks \in Nat

VARIABLES
    loop,       \* the backend loop, whether new calls are refused, and those stop() cancels
    uiCall,     \* the call of each thread
    inflight,   \* the threads whose future is registered
    push,       \* the channel: its queue, what the loop is putting into it, its thread, its subscription
    price,      \* the last tick of the market client
    window,     \* the last tick the windows show, and the batch the flush thread has in hand
    pool,       \* the worker process: none, idle, busy, broken
    jobs,       \* the job each thread started and did not poll yet: none, pending, done
    closing,    \* where each closer is
    lock,       \* _shutdown_lock, with _shutdown_done
    process     \* the application, and what became of it

shellVars == <<loop, uiCall, inflight, push, price, window, pool, jobs, closing, lock, process>>

Running == process = "up"

-----------------------------------------------------------------------------
(* Calls into the loop *)

\* The loop has run its step to the end and can take the next.
LoopFree == loop.at \in {"running", "ending"} /\ push.late = <<>>

Idle == [at |-> "idle"]
Do(u, c) == uiCall' = [uiCall EXCEPT ![u] = c]

\* run: a call is refused once stop() has begun.
Enter(u, kind) ==
    /\ Running /\ uiCall[u] = Idle
    /\ Do(u, IF loop.stopping \/ loop.at = "closed" THEN Idle ELSE [at |-> "checked", kind |-> kind])
    /\ UNCHANGED <<loop, inflight, push, price, window, pool, jobs, closing, lock, process>>

\* run_coroutine_threadsafe; a loop closed meanwhile raises.
Submit(u) ==
    /\ Running /\ uiCall[u].at = "checked"
    /\ Do(u, IF loop.at = "closed" THEN Idle ELSE [uiCall[u] EXCEPT !.at = "submitted"])
    /\ UNCHANGED <<loop, inflight, push, price, window, pool, jobs, closing, lock, process>>

Register(u) ==
    /\ Running /\ uiCall[u].at = "submitted"
    /\ Do(u, [uiCall[u] EXCEPT !.at = "waiting"]) /\ inflight' = inflight \cup {u}
    /\ UNCHANGED <<loop, push, price, window, pool, jobs, closing, lock, process>>

\* The loop runs the coroutine: a request, or the attachment of the push channel,
\* which answers with the last price in the same step.
Execute(u) ==
    /\ Running /\ LoopFree
    /\ uiCall[u].at \in {"submitted", "waiting"}
    /\ Do(u, [uiCall[u] EXCEPT !.at = IF uiCall[u].at = "submitted" THEN "ran" ELSE "done"])
    /\ IF uiCall[u].kind = "stream"
       THEN /\ push' = IF push.opened THEN push ELSE [push EXCEPT !.attached = TRUE, !.opened = TRUE]
            /\ window' = [window EXCEPT !.snapshot = price]
       ELSE UNCHANGED <<push, window>>
    /\ UNCHANGED <<loop, inflight, price, pool, jobs, closing, lock, process>>

RegisterRan(u) ==
    /\ Running /\ uiCall[u].at = "ran"
    /\ Do(u, [uiCall[u] EXCEPT !.at = "done"]) /\ inflight' = inflight \cup {u}
    /\ UNCHANGED <<loop, push, price, window, pool, jobs, closing, lock, process>>

\* request answers the page with the result, or with an error after the
\* cancellation by stop() or the time limit of the call.
Leave(u) ==
    /\ Running /\ uiCall[u].at \in {"waiting", "done"}
    /\ Do(u, Idle) /\ inflight' = inflight \ {u}
    /\ UNCHANGED <<loop, push, price, window, pool, jobs, closing, lock, process>>

-----------------------------------------------------------------------------
(* Messages for the windows *)

\* Faulty variant: a full queue refuses what is new.
FaultyEnqueued(channel, m) ==
    IF Len(channel.queue) < MaxQueue THEN [channel EXCEPT !.queue = Append(@, m)] ELSE channel

\* send_text: a full queue has to lose its oldest message first.
Enqueued(channel, m) ==
    IF Len(channel.queue) < MaxQueue THEN [channel EXCEPT !.queue = Append(@, m)]
    ELSE [channel EXCEPT !.late = <<m>>, !.room = FALSE]

\* A tick: the price is stored, then broadcast to those who are subscribed.
Tick ==
    /\ Running /\ LoopFree /\ price < MaxTicks
    /\ price' = price + 1
    /\ push' = IF push.attached THEN Enqueued(push, price + 1) ELSE push
    /\ UNCHANGED <<loop, uiCall, inflight, window, pool, jobs, closing, lock, process>>

\* The flush thread may have taken the oldest by then, and the next is lost.
DropOldest ==
    /\ Running /\ push.late # <<>> /\ ~ push.room
    /\ push' = [push EXCEPT !.room = TRUE, !.queue = IF @ = <<>> THEN @ ELSE Tail(@)]
    /\ UNCHANGED <<loop, uiCall, inflight, price, window, pool, jobs, closing, lock, process>>

PutLate ==
    /\ Running /\ push.late # <<>> /\ push.room
    /\ push' = [push EXCEPT !.late = <<>>, !.room = FALSE, !.queue = Append(@, Head(push.late))]
    /\ UNCHANGED <<loop, uiCall, inflight, price, window, pool, jobs, closing, lock, process>>

\* _drain takes message after message until the batch is full or the queue empty.
TakeMessage ==
    /\ Running /\ push.on /\ window.taking /\ push.queue # <<>>
    /\ window' = [window EXCEPT !.batch = Append(@, Head(push.queue)), !.taking = Len(window.batch) + 1 < MaxBatch]
    /\ push' = [push EXCEPT !.queue = Tail(@)]
    /\ UNCHANGED <<loop, uiCall, inflight, price, pool, jobs, closing, lock, process>>

EndBatch ==
    /\ Running /\ push.on /\ window.taking /\ window.batch # <<>> /\ push.queue = <<>>
    /\ window' = [window EXCEPT !.taking = FALSE]
    /\ UNCHANGED <<loop, uiCall, inflight, push, price, pool, jobs, closing, lock, process>>

\* _flush_loop: the batch reaches the windows in order; a closing window throws.
Flush ==
    /\ Running /\ push.on /\ ~ window.taking
    /\ window' = [window EXCEPT !.batch = <<>>, !.shows = Last(window.batch), !.taking = TRUE]
    /\ UNCHANGED <<loop, uiCall, inflight, push, price, pool, jobs, closing, lock, process>>

\* Between two batches the thread sees that it has to stop.
FlushEnds ==
    /\ Running /\ push.on /\ push.stop /\ window.batch = <<>>
    /\ push' = [push EXCEPT !.on = FALSE]
    /\ UNCHANGED <<loop, uiCall, inflight, price, window, pool, jobs, closing, lock, process>>

-----------------------------------------------------------------------------
(* Evidence jobs *)

JobsIn(states) == {u \in UiThreads : jobs[u] \in states}

\* start_evidence_pack, under the lock of the jobs: finished jobs that nobody polled
\* for long are forgotten; a full table, a closed or a broken pool refuses.
StartJob(u) ==
    /\ Running /\ uiCall[u] = Idle /\ jobs[u] = "none" /\ ~ pool.closed
    /\ \E old \in SUBSET JobsIn({"done"}) :
          LET kept    == [v \in UiThreads |-> IF v \in old THEN "none" ELSE jobs[v]]
              accepts == Cardinality(JobsIn({"pending", "done"}) \ old) < MaxJobs /\ pool.worker # "broken"
          IN  /\ jobs' = IF accepts THEN [kept EXCEPT ![u] = "pending"] ELSE kept
              /\ pool' = IF accepts THEN [pool EXCEPT !.worker = "busy"] ELSE pool
    /\ UNCHANGED <<loop, uiCall, inflight, push, price, window, closing, lock, process>>

\* The worker has built one pack (the order of the jobs is left open), the last of
\* a closed pool possibly for nobody.
WorkerDone ==
    /\ Running /\ pool.worker = "busy"
    /\ \/ \E u \in JobsIn({"pending"}) :
             /\ jobs' = [jobs EXCEPT ![u] = "done"]
             /\ pool' = [pool EXCEPT !.worker = IF JobsIn({"pending"}) = {u} THEN "idle" ELSE "busy"]
       \/ /\ JobsIn({"pending"}) = {}
          /\ pool' = [pool EXCEPT !.worker = "idle"] /\ UNCHANGED jobs
    /\ UNCHANGED <<loop, uiCall, inflight, push, price, window, closing, lock, process>>

\* A worker that dies breaks its pool for good, and its jobs fail.
WorkerDies ==
    /\ Running /\ pool.worker \in {"idle", "busy"}
    /\ pool' = [pool EXCEPT !.worker = "broken"]
    /\ jobs' = [u \in UiThreads |-> IF jobs[u] = "pending" THEN "done" ELSE jobs[u]]
    /\ UNCHANGED <<loop, uiCall, inflight, push, price, window, closing, lock, process>>

\* It is a process of its own and goes on when the application dies, until it
\* notices that its queue is gone.
WorkerExits ==
    /\ ~ Running /\ pool.worker # "none" /\ pool' = [pool EXCEPT !.worker = "none"]
    /\ UNCHANGED <<loop, uiCall, inflight, push, price, window, jobs, closing, lock, process>>

\* get_evidence_pack_job: a finished job is answered and forgotten.
PollJob(u) ==
    /\ Running /\ jobs[u] = "done" /\ jobs' = [jobs EXCEPT ![u] = "none"]
    /\ UNCHANGED <<loop, uiCall, inflight, push, price, window, pool, closing, lock, process>>

-----------------------------------------------------------------------------
(* The end *)

CloseStep(k, at) == closing' = [closing EXCEPT ![k] = at]

\* The last window closes, or the toolkit returns to the main thread
\* (_run_window shuts down whichever way its loop ends).
BeginClose(k) ==
    /\ Running /\ closing[k] = "none" /\ CloseStep(k, "wait")
    /\ UNCHANGED <<loop, uiCall, inflight, push, price, window, pool, jobs, lock, process>>

\* Faulty variant: a clean-up that has started counts as done.
FaultyCleaned == lock.done \/ lock.holder # Nobody

\* _shutdown_done, set and read under the lock.
Cleaned == lock.done /\ lock.holder = Nobody

\* shutdown: one closer cleans up, the other waits for it.  (It gives up after 20
\* seconds; the limits of the steps below add up to less.)
TakeLock(k) ==
    /\ Running /\ closing[k] = "wait"
    /\ IF Cleaned THEN CloseStep(k, "done") /\ UNCHANGED lock
       ELSE lock.holder = Nobody /\ lock' = [lock EXCEPT !.holder = k] /\ CloseStep(k, "push")
    /\ UNCHANGED <<loop, uiCall, inflight, push, price, window, pool, jobs, process>>

\* PushChannel.stop: the thread is told to end and waited for, but not for long;
\* then the channel is unsubscribed.
StopPush(k) ==
    /\ Running /\ closing[k] = "push" /\ CloseStep(k, "join")
    /\ push' = [push EXCEPT !.stop = TRUE]
    /\ UNCHANGED <<loop, uiCall, inflight, price, window, pool, jobs, lock, process>>

JoinPush(k) ==
    /\ Running /\ closing[k] = "join" /\ CloseStep(k, "detach")
    /\ UNCHANGED <<loop, uiCall, inflight, push, price, window, pool, jobs, lock, process>>

DetachPush(k) ==
    /\ Running /\ closing[k] = "detach" /\ CloseStep(k, "bridge")
    /\ push' = [push EXCEPT !.attached = FALSE]
    /\ UNCHANGED <<loop, uiCall, inflight, price, window, pool, jobs, lock, process>>

\* DesktopBridge._close: no job is accepted any more.
CloseBridge(k) ==
    /\ Running /\ closing[k] = "bridge"
    /\ CloseStep(k, IF pool.worker = "none" THEN "runtime" ELSE "reap")
    /\ jobs' = [u \in UiThreads |-> "none"] /\ pool' = [pool EXCEPT !.closed = TRUE]
    /\ UNCHANGED <<loop, uiCall, inflight, push, price, window, lock, process>>

\* The worker ends by itself within the grace, or is killed.
ReapWorker(k) ==
    /\ Running /\ closing[k] = "reap" /\ CloseStep(k, "runtime")
    /\ pool' = [pool EXCEPT !.worker = "none"]
    /\ UNCHANGED <<loop, uiCall, inflight, push, price, window, jobs, lock, process>>

\* BackendRuntime.stop: new calls are refused, ...
StopRuntime(k) ==
    /\ Running /\ closing[k] = "runtime" /\ CloseStep(k, "list")
    /\ loop' = [loop EXCEPT !.stopping = TRUE]
    /\ UNCHANGED <<uiCall, inflight, push, price, window, pool, jobs, lock, process>>

\* ... those registered are listed and then cancelled one by one, ...
ListInflight(k) ==
    /\ Running /\ closing[k] = "list" /\ CloseStep(k, "cancel")
    /\ loop' = [loop EXCEPT !.doomed = inflight]
    /\ UNCHANGED <<uiCall, inflight, push, price, window, pool, jobs, lock, process>>

CancelCall(k) ==
    /\ Running /\ closing[k] = "cancel"
    /\ \E u \in loop.doomed :
          /\ loop' = [loop EXCEPT !.doomed = @ \ {u}]
          /\ uiCall' = IF uiCall[u] = Idle THEN uiCall ELSE [uiCall EXCEPT ![u].at = "done"]
    /\ UNCHANGED <<inflight, push, price, window, pool, jobs, closing, lock, process>>

\* ... and the loop is told to stop.
StopLoop(k) ==
    /\ Running /\ closing[k] = "cancel" /\ loop.doomed = {} /\ CloseStep(k, "stop")
    /\ loop' = [loop EXCEPT !.at = "ending"]
    /\ UNCHANGED <<uiCall, inflight, push, price, window, pool, jobs, lock, process>>

\* _shutdown, then the loop is closed: what was not run never will be.
CloseLoop ==
    /\ Running /\ loop.at = "ending" /\ LoopFree /\ loop' = [loop EXCEPT !.at = "closed"]
    /\ UNCHANGED <<uiCall, inflight, push, price, window, pool, jobs, closing, lock, process>>

\* Faulty variant: the wait for the loop has no limit, and the lock is kept.
FaultyReleaseLock(k) ==
    /\ Running /\ closing[k] = "stop" /\ loop.at = "closed" /\ CloseStep(k, "done")
    /\ UNCHANGED <<loop, uiCall, inflight, push, price, window, pool, jobs, process, lock>>

\* stop waits for the loop, but not beyond its time limit.
ReleaseLock(k) ==
    /\ Running /\ closing[k] = "stop" /\ CloseStep(k, "done")
    /\ lock' = [holder |-> Nobody, done |-> TRUE]
    /\ UNCHANGED <<loop, uiCall, inflight, push, price, window, pool, jobs, process>>

\* main calls os._exit.
Exit ==
    /\ Running /\ closing[Main] = "done" /\ process' = "exited"
    /\ UNCHANGED <<loop, uiCall, inflight, push, price, window, pool, jobs, closing, lock>>

Crash ==
    /\ Running /\ process' = "crashed"
    /\ UNCHANGED <<loop, uiCall, inflight, push, price, window, pool, jobs, closing, lock>>

ShellInit ==
    /\ loop = [at |-> "running", stopping |-> FALSE, doomed |-> {}]
    /\ uiCall = [u \in UiThreads |-> Idle] /\ inflight = {}
    /\ push = [queue |-> <<>>, late |-> <<>>, room |-> FALSE, on |-> TRUE, stop |-> FALSE,
               attached |-> FALSE, opened |-> FALSE]
    /\ price = 0 /\ window = [snapshot |-> 0, shows |-> 0, batch |-> <<>>, taking |-> TRUE]
    /\ pool = [closed |-> FALSE, worker |-> "none"] /\ jobs = [u \in UiThreads |-> "none"]
    /\ closing = [k \in Closers |-> "none"] /\ lock = [holder |-> Nobody, done |-> FALSE] /\ process = "up"

Serve(u) == \/ \E kind \in {"request", "stream"} : Enter(u, kind)
            \/ Submit(u) \/ Register(u) \/ Execute(u) \/ RegisterRan(u) \/ Leave(u)
            \/ StartJob(u) \/ PollJob(u)

Close(k) == \/ BeginClose(k) \/ TakeLock(k) \/ StopPush(k) \/ JoinPush(k) \/ DetachPush(k)
            \/ CloseBridge(k) \/ ReapWorker(k) \/ StopRuntime(k) \/ ListInflight(k)
            \/ CancelCall(k) \/ StopLoop(k) \/ ReleaseLock(k)

Deliver == Tick \/ DropOldest \/ PutLate \/ TakeMessage \/ EndBatch \/ Flush \/ FlushEnds

ShellNext == \/ Deliver \/ WorkerDone \/ WorkerDies \/ WorkerExits \/ CloseLoop \/ Exit \/ Crash
             \/ \E u \in UiThreads : Serve(u)
             \/ \E k \in Closers : Close(k)

\* The closers and the loop's thread are scheduled; the toolkit returns to the
\* main thread once the last window is closed.
ShellSpec == /\ ShellInit /\ [][ShellNext]_shellVars
             /\ WF_shellVars(Exit)
             /\ WF_shellVars((\E k \in Closers : closing[k] # "none") /\ BeginClose(Main))
             /\ \A k \in Closers : WF_shellVars(closing[k] # "none" /\ Close(k))

-----------------------------------------------------------------------------
(* Properties *)

\* The application exits by itself only when the clean-up is complete: no worker
\* is orphaned and no closer is still at it, whichever came first.
ExitIsClean ==
    process = "exited" => /\ pool.worker = "none"
                          /\ \A k \in Closers : closing[k] \in {"none", "wait", "done"}

\* However slow the windows are, the newest tick since they subscribed is shown,
\* on its way or in the queue: only older ones are lost.
FreshestKept ==
    push.attached =>
        \/ window.snapshot = price
        \/ price \in ToSet(push.late) \cup ToSet(push.queue) \cup ToSet(window.batch) \cup {window.shows}

\* A shut-down that has begun ends, and the process with it.
ShutDownEnds == (\E k \in Closers : closing[k] # "none") ~> ~ Running

\* "cancelled on stop() so no UI thread waits on a dead loop"
NoWaitOnDeadLoop == Running /\ loop.at = "closed" => \A u \in UiThreads : uiCall[u].at # "waiting"

\* "A stopped channel must not stay subscribed: nothing drains the queue any more"
StoppedNotSubscribed == push.attached => \A k \in Closers : closing[k] \in {"none", "wait", "push", "join", "detach"}

\* While the window lives the freshest quote of each symbol is kept for it, and
\* the process leaves nothing behind when it ends.
ShellSound == ExitIsClean /\ FreshestKept
=============================================================================
