----------------------------- MODULE ShellProofs -----------------------------
(***************************************************************************)
(* Proofs about what a window shows: the shell that carries ticks to it,   *)
(* the cache its quotes come from and the cache of the bars of its charts. *)
(* The three arguments are independent.                                    *)
(***************************************************************************)
EXTENDS DesktopShell, QuoteCache, CandleCache, FiniteSetTheorems, TLAPS

------------------------------------------------------------------------------
(***************************************************************************)
(* Proofs about the shell, for any threads, queue, batch and job limits and *)
(* any number of ticks.                                                     *)
(*                                                                          *)
(* Two arguments, independent of each other.  The clean-up (CleanUpInv): a  *)
(* closer that works holds the lock, one that is done knows it is done by   *)
(* the lock, and the bridge is closed before the loop, so that no worker is *)
(* left when somebody is done.  The newest tick (FreshInv): the loop is just *)
(* putting it into a full queue; or it is the last of the queue; if that is *)
(* empty, the last of the batch in hand; if that is empty too, what the     *)
(* windows show.                                                            *)
(***************************************************************************)

Stages == {"none", "wait", "push", "join", "detach", "bridge", "reap", "runtime", "list", "cancel", "stop", "done"}
Works(k) == closing[k] \notin {"none", "wait", "done"}

Channels == [queue : Seq(Nat), late : Seq(Nat), room : BOOLEAN, on : BOOLEAN, stop : BOOLEAN,
             attached : BOOLEAN, opened : BOOLEAN]
Views    == [snapshot : Nat, shows : Nat, batch : Seq(Nat), taking : BOOLEAN]
Pools    == [closed : BOOLEAN, worker : {"none", "idle", "busy", "broken"}]
Locks    == [holder : Closers \cup {Nobody}, done : BOOLEAN]

ShellType ==
    /\ price \in Nat
    /\ push \in Channels
    /\ window \in Views
    /\ ~ window.taking => window.batch # <<>>
    /\ pool \in Pools
    /\ lock \in Locks
    /\ closing \in [Closers -> Stages]

CleanUpInv ==
    /\ lock.done => lock.holder = Nobody /\ pool.closed /\ pool.worker = "none"
    /\ \A k \in Closers :
          /\ Works(k) => lock.holder = k
          /\ closing[k] = "reap" => pool.closed
          /\ closing[k] \in {"runtime", "list", "cancel", "stop"} => pool.closed /\ pool.worker = "none"
          /\ closing[k] = "done" => lock.done
    /\ process = "exited" => closing[Main] = "done"

FreshInv ==
    push.attached =>
        \/ window.snapshot = price
        \/ push.late # <<>> /\ Head(push.late) = price
        \/ push.late = <<>> /\ push.queue # <<>> /\ Last(push.queue) = price
        \/ push.late = <<>> /\ push.queue = <<>> /\ window.batch # <<>> /\ Last(window.batch) = price
        \/ push.late = <<>> /\ push.queue = <<>> /\ window.batch = <<>> /\ window.shows = price

ShellInv == ShellType /\ CleanUpInv /\ FreshInv

-----------------------------------------------------------------------------
(* Sequences *)

\* A message is put into the queue, or kept in hand until there is room.
LEMMA EnqueuedKeeps ==
    ASSUME push \in Channels, NEW m \in Nat
    PROVE  /\ Enqueued(push, m) \in Channels
           /\ Enqueued(push, m).attached = push.attached
           /\ \/ Enqueued(push, m).late # <<>> /\ Head(Enqueued(push, m).late) = m
              \/ /\ Enqueued(push, m).late = push.late
                 /\ Enqueued(push, m).queue # <<>> /\ Last(Enqueued(push, m).queue) = m
<1>0. push.queue \in Seq(Nat)
  BY DEF Channels
<1>1. CASE Len(push.queue) < MaxQueue
  <2>1. Enqueued(push, m) = [push EXCEPT !.queue = Append(@, m)]
    BY <1>1 DEF Enqueued
  <2>2. Append(push.queue, m) \in Seq(Nat) /\ Append(push.queue, m) # <<>> /\ Last(Append(push.queue, m)) = m
    BY <1>0 DEF Last
  <2> QED
    BY <2>1, <2>2 DEF Channels
<1>2. CASE ~ (Len(push.queue) < MaxQueue)
  <2>1. Enqueued(push, m) = [push EXCEPT !.late = <<m>>, !.room = FALSE]
    BY <1>2 DEF Enqueued
  <2>2. <<m>> \in Seq(Nat) /\ <<m>> # <<>> /\ Head(<<m>>) = m
    OBVIOUS
  <2> QED
    BY <2>1, <2>2 DEF Channels
<1> QED
  BY <1>1, <1>2

\* A queue without its first message ends as it did, unless it was the only one.
LEMMA TailEnds ==
    ASSUME NEW queue \in Seq(Nat), queue # <<>>
    PROVE  /\ Tail(queue) \in Seq(Nat) /\ Head(queue) \in Nat
           /\ Tail(queue) = <<>> => Head(queue) = Last(queue)
           /\ Tail(queue) # <<>> => Last(Tail(queue)) = Last(queue)
<1>1. Len(queue) \in Nat \ {0} /\ Tail(queue) \in Seq(Nat) /\ Head(queue) = queue[1] /\ Head(queue) \in Nat
  OBVIOUS
<1>2. Len(Tail(queue)) = Len(queue) - 1 /\ \A i \in 1 .. Len(queue) - 1 : Tail(queue)[i] = queue[i + 1]
  OBVIOUS
<1>0. Len(<<>>) = 0
  OBVIOUS
<1>3. ASSUME Tail(queue) = <<>> PROVE Head(queue) = Last(queue)
  <2>1. Len(Tail(queue)) = Len(<<>>)
    BY <1>3, Zenon
  <2>2. Len(queue) = 1
    <3> DEFINE n == Len(queue)
               t == Len(Tail(queue))
    <3>1. n \in Nat \ {0} /\ t = n - 1 /\ t = 0
      BY <1>0, <1>1, <1>2, <2>1
    <3> HIDE DEF n, t
    <3>2. n = 1
      BY <3>1
    <3> QED
      BY <3>2 DEF n
  <2>3. Last(queue) = queue[1]
    BY <2>2, Zenon DEF Last
  <2> QED
    BY <1>1, <2>3
<1>4. ASSUME Tail(queue) # <<>> PROVE Last(Tail(queue)) = Last(queue)
  <2>1. Len(queue) > 1
    BY <1>1, <1>2, <1>4
  <2>2. Tail(queue)[Len(queue) - 1] = queue[Len(queue)]
    BY <1>1, <1>2, <2>1
  <2> QED
    BY <1>2, <2>2 DEF Last
<1> QED
  BY <1>1, <1>3, <1>4

LEMMA LastOfAppend ==
    ASSUME NEW s \in Seq(Nat), NEW m \in Nat
    PROVE  Append(s, m) \in Seq(Nat) /\ Append(s, m) # <<>> /\ Last(Append(s, m)) = m
BY DEF Last

LEMMA AppendsAreKept ==
    \A s \in Seq(Nat), m \in Nat :
        Append(s, m) \in Seq(Nat) /\ Append(s, m) # <<>> /\ Last(Append(s, m)) = m
BY LastOfAppend

\* What is last in a sequence is in it.
LEMMA LastIsElement ==
    ASSUME NEW s \in Seq(Nat), s # <<>>
    PROVE  Last(s) \in ToSet(s) /\ Last(s) \in Nat
BY DEF Last, ToSet

-----------------------------------------------------------------------------
LEMMA ShellStarts == ShellInit => ShellInv
<1> SUFFICES ASSUME ShellInit PROVE ShellInv
  OBVIOUS
<1>1. ShellType
  BY ShellAssumption DEF ShellInit, ShellType, Channels, Views, Pools, Locks, Stages
<1>2. CleanUpInv
  BY ShellAssumption DEF ShellInit, CleanUpInv, Works
<1>3. FreshInv
  BY DEF ShellInit, FreshInv
<1> QED
  BY <1>1, <1>2, <1>3 DEF ShellInv

\* A closer at work goes on to its next stage, with what that stage presupposes.
LEMMA NextStage ==
    ASSUME ShellType, CleanUpInv, NEW k \in Closers, NEW at \in Stages \ {"none", "wait", "done"},
           Works(k), closing' = [closing EXCEPT ![k] = at], UNCHANGED <<lock, process>>,
           pool.closed => pool'.closed,
           pool.worker = "none" => pool'.worker = "none",
           at = "reap" => pool'.closed,
           at \in {"runtime", "list", "cancel", "stop"} => pool'.closed /\ pool'.worker = "none"
    PROVE  CleanUpInv'
<1>1. \A j \in Closers : closing'[j] = IF j = k THEN at ELSE closing[j]
  BY DEF ShellType
<1>2. lock.holder = k /\ lock.holder # Nobody
  BY ShellAssumption DEF CleanUpInv
<1>3. ~ lock.done
  BY <1>2 DEF CleanUpInv
<1>4. process = "exited" => closing'[Main] = "done"
  BY <1>1, ShellAssumption DEF CleanUpInv, Works
<1>5. ASSUME NEW j \in Closers
      PROVE  /\ Works(j)' => lock'.holder = j
             /\ closing'[j] = "reap" => pool'.closed
             /\ closing'[j] \in {"runtime", "list", "cancel", "stop"} => pool'.closed /\ pool'.worker = "none"
             /\ closing'[j] = "done" => lock'.done
  <2>1. CASE j = k
    BY <1>1, <1>2, <2>1 DEF Works
  <2>2. CASE j # k
    BY <1>1, <2>2 DEF CleanUpInv, Works
  <2> QED
    BY <2>1, <2>2
<1> QED
  BY <1>3, <1>4, <1>5 DEF CleanUpInv

\* Steps of the clean-up and of the worker.
LEMMA CleanUpStep ==
    ShellType /\ CleanUpInv /\ [ShellNext]_shellVars => CleanUpInv'
<1> SUFFICES ASSUME ShellType, CleanUpInv, [ShellNext]_shellVars
             PROVE  CleanUpInv'
  OBVIOUS
<1> USE ShellAssumption DEF ShellType, Channels, Views, Pools, Locks, CleanUpInv, Works, Running, CloseStep
<1>1. ASSUME NEW k \in Closers, BeginClose(k) PROVE CleanUpInv'
  BY <1>1 DEF BeginClose
<1>2. ASSUME NEW k \in Closers, TakeLock(k) PROVE CleanUpInv'
  <2>1. CASE Cleaned
    BY <1>2, <2>1 DEF TakeLock, Cleaned
  <2>2. CASE ~ Cleaned
    <3>1. /\ lock' = [lock EXCEPT !.holder = k] /\ lock.holder = Nobody
          /\ closing' = [closing EXCEPT ![k] = "push"] /\ UNCHANGED <<pool, process>>
      BY <1>2, <2>2 DEF TakeLock
    <3>2. lock'.holder = k /\ lock'.done = lock.done /\ ~ lock.done
      BY <3>1, <2>2 DEF Cleaned
    <3>3. \A j \in Closers : closing'[j] = IF j = k THEN "push" ELSE closing[j]
      BY <3>1
    <3> QED
      BY <3>1, <3>2, <3>3
  <2> QED
    BY <2>1, <2>2
<1>3. ASSUME NEW k \in Closers, StopPush(k) \/ JoinPush(k) \/ DetachPush(k) PROVE CleanUpInv'
  <2>1. PICK at \in {"join", "detach", "bridge"} : closing' = [closing EXCEPT ![k] = at]
    BY <1>3 DEF StopPush, JoinPush, DetachPush
  <2>2. closing[k] \in {"push", "join", "detach"} /\ UNCHANGED <<pool, lock, process>>
    BY <1>3 DEF StopPush, JoinPush, DetachPush
  <2> QED
    BY <2>1, <2>2, NextStage DEF Stages
<1>4. ASSUME NEW k \in Closers, CloseBridge(k) PROVE CleanUpInv'
  <2>1. PICK at \in {"reap", "runtime"} : closing' = [closing EXCEPT ![k] = at] /\ (at = "runtime" => pool.worker = "none")
    BY <1>4 DEF CloseBridge
  <2>2. /\ closing[k] = "bridge" /\ UNCHANGED <<lock, process>>
        /\ pool'.closed /\ pool'.worker = pool.worker
    BY <1>4 DEF CloseBridge
  <2> QED
    BY <2>1, <2>2, NextStage DEF Stages
<1>5. ASSUME NEW k \in Closers, ReapWorker(k) PROVE CleanUpInv'
  <2>1. /\ closing[k] = "reap" /\ closing' = [closing EXCEPT ![k] = "runtime"] /\ UNCHANGED <<lock, process>>
        /\ pool'.closed = pool.closed /\ pool'.worker = "none"
    BY <1>5 DEF ReapWorker
  <2>2. pool.closed
    BY <2>1
  <2> QED
    BY <2>1, <2>2, NextStage DEF Stages
<1>6. ASSUME NEW k \in Closers, StopRuntime(k) \/ ListInflight(k) \/ StopLoop(k) PROVE CleanUpInv'
  <2>1. PICK at \in {"list", "cancel", "stop"} : closing' = [closing EXCEPT ![k] = at]
    BY <1>6 DEF StopRuntime, ListInflight, StopLoop
  <2>2. closing[k] \in {"runtime", "list", "cancel"} /\ UNCHANGED <<pool, lock, process>>
    BY <1>6 DEF StopRuntime, ListInflight, StopLoop
  <2>3. pool.closed /\ pool.worker = "none"
    BY <2>2
  <2> QED
    BY <2>1, <2>2, <2>3, NextStage DEF Stages
<1>7. ASSUME NEW k \in Closers, ReleaseLock(k) PROVE CleanUpInv'
  BY <1>7 DEF ReleaseLock
<1>8. ASSUME NEW u \in UiThreads, StartJob(u) PROVE CleanUpInv'
  <2>1. ~ pool.closed /\ pool'.closed = pool.closed /\ UNCHANGED <<closing, lock, process>>
    BY <1>8 DEF StartJob
  <2> QED
    BY <2>1
<1>9. CASE WorkerDone
  <2>1. pool.worker = "busy" /\ pool'.closed = pool.closed /\ UNCHANGED <<closing, lock, process>>
    BY <1>9 DEF WorkerDone
  <2> QED
    BY <2>1
<1>10. CASE WorkerDies \/ WorkerExits
  <2>1. /\ pool'.closed = pool.closed /\ pool.worker # "none" /\ UNCHANGED <<closing, lock, process>>
    BY <1>10 DEF WorkerDies, WorkerExits
  <2> QED
    BY <2>1
<1>11. CASE Exit
  BY <1>11 DEF Exit
<1>12. CASE Crash
  BY <1>12 DEF Crash
<1>13. ASSUME UNCHANGED <<pool, closing, lock, process>> PROVE CleanUpInv'
  BY <1>13
<1>14. CASE Deliver \/ CloseLoop
  BY <1>13, <1>14 DEF Deliver, Tick, DropOldest, PutLate, TakeMessage, EndBatch, Flush, FlushEnds, CloseLoop
<1>15. ASSUME NEW u \in UiThreads, Serve(u), ~ StartJob(u) PROVE CleanUpInv'
  BY <1>13, <1>15 DEF Serve, Enter, Submit, Register, Execute, RegisterRan, Leave, PollJob
<1>16. ASSUME NEW k \in Closers, CancelCall(k) PROVE CleanUpInv'
  BY <1>13, <1>16 DEF CancelCall
<1>17. CASE UNCHANGED shellVars
  BY <1>13, <1>17 DEF shellVars
<1> QED
  BY <1>1, <1>2, <1>3, <1>4, <1>5, <1>6, <1>7, <1>8, <1>9, <1>10, <1>11, <1>12, <1>14, <1>15, <1>16, <1>17
     DEF ShellNext, Serve, Close

LEMMA TypeStep ==
    ShellType /\ [ShellNext]_shellVars => ShellType'
<1> SUFFICES ASSUME ShellType, [ShellNext]_shellVars
             PROVE  ShellType'
  OBVIOUS
<1>0. /\ price \in Nat /\ push \in Channels /\ push.queue \in Seq(Nat) /\ push.late \in Seq(Nat)
      /\ window \in Views /\ window.snapshot \in Nat /\ window.shows \in Nat /\ window.batch \in Seq(Nat)
      /\ ~ window.taking => window.batch # <<>>
  BY DEF ShellType, Channels, Views
<1>1. CASE Tick
  <2>0. price + 1 \in Nat
    BY <1>0
  <2>1. push' \in Channels
    BY <1>0, <1>1, <2>0, EnqueuedKeeps DEF Tick
  <2> QED
    BY <1>1, <2>0, <2>1 DEF Tick, ShellType
<1>2. CASE DropOldest \/ PutLate \/ FlushEnds
  <2>1. push.queue # <<>> => Tail(push.queue) \in Seq(Nat)
    BY <1>0, TailEnds
  <2>2. push.late # <<>> => Append(push.queue, Head(push.late)) \in Seq(Nat)
    BY <1>0, TailEnds, LastOfAppend
  <2>3. <<>> \in Seq(Nat)
    OBVIOUS
  <2>4. CASE DropOldest
    <3>1. PICK q \in Seq(Nat) : push' = [push EXCEPT !.room = TRUE, !.queue = q]
      BY <1>0, <2>1, <2>4 DEF DropOldest
    <3>2. push' \in Channels
      BY <1>0, <3>1 DEF Channels
    <3> QED
      BY <2>4, <3>2 DEF DropOldest, ShellType
  <2>5. CASE PutLate
    <3>1. PICK q \in Seq(Nat) : push' = [push EXCEPT !.late = <<>>, !.room = FALSE, !.queue = q]
      BY <1>0, <2>2, <2>5 DEF PutLate
    <3>2. push' \in Channels
      BY <1>0, <2>3, <3>1 DEF Channels
    <3> QED
      BY <2>5, <3>2 DEF PutLate, ShellType
  <2>6. CASE FlushEnds
    <3>1. push' \in Channels
      BY <1>0, <2>6 DEF FlushEnds, Channels
    <3> QED
      BY <2>6, <3>1 DEF FlushEnds, ShellType
  <2> QED
    BY <1>2, <2>4, <2>5, <2>6
<1>3. CASE TakeMessage
  <2>1. Tail(push.queue) \in Seq(Nat) /\ Head(push.queue) \in Nat
    BY <1>0, <1>3, TailEnds DEF TakeMessage
  <2>2. push' \in Channels
    BY <1>0, <1>3, <2>1 DEF TakeMessage, Channels
  <2> DEFINE b    == Append(window.batch, Head(push.queue))
             more == Len(window.batch) + 1 < MaxBatch
  <2>3. window' = [window EXCEPT !.batch = b, !.taking = more] /\ more \in BOOLEAN
    BY <1>3 DEF TakeMessage
  <2>4. b \in Seq(Nat) /\ b # <<>>
    <3>1. window.batch \in Seq(Nat)
      BY <1>0
    <3> QED
      BY <2>1, <3>1, AppendsAreKept, Zenon
  <2> HIDE DEF b, more
  <2>5. window' \in Views /\ window'.batch # <<>>
    BY <1>0, <2>3, <2>4 DEF Views
  <2>6. UNCHANGED <<price, pool, lock, closing>>
    BY <1>3 DEF TakeMessage
  <2> QED
    BY <2>2, <2>5, <2>6 DEF ShellType
<1>4. CASE EndBatch \/ Flush
  <2>1. window.batch # <<>> => Last(window.batch) \in Nat
    BY <1>0, LastIsElement
  <2>2. <<>> \in Seq(Nat)
    OBVIOUS
  <2>3. window' \in Views /\ (~ window'.taking => window'.batch # <<>>)
    <3>1. CASE EndBatch
      BY <1>0, <3>1 DEF EndBatch, Views
    <3>2. CASE Flush
      <4>1. PICK last \in Nat : window' = [window EXCEPT !.batch = <<>>, !.shows = last, !.taking = TRUE]
        BY <1>0, <2>1, <3>2 DEF Flush
      <4> QED
        BY <1>0, <2>2, <4>1 DEF Views
    <3> QED
      BY <1>4, <3>1, <3>2
  <2>4. UNCHANGED <<price, push, pool, lock, closing>>
    BY <1>4 DEF EndBatch, Flush
  <2> QED
    BY <2>3, <2>4 DEF ShellType
<1>10. CASE WorkerDone \/ WorkerDies \/ WorkerExits \/ CloseLoop \/ Exit \/ Crash
  <2>1. pool' \in Pools
    BY <1>10 DEF WorkerDone, WorkerDies, WorkerExits, CloseLoop, Exit, Crash, ShellType, Pools
  <2> QED
    BY <1>10, <2>1 DEF WorkerDone, WorkerDies, WorkerExits, CloseLoop, Exit, Crash, ShellType
<1>5. ASSUME NEW u \in UiThreads, Execute(u) PROVE ShellType'
  <2>1. window' \in Views /\ window'.taking = window.taking /\ window'.batch = window.batch
    BY <1>0, <1>5 DEF Execute, Views
  <2>2. push' \in Channels
    BY <1>0, <1>5 DEF Execute, Channels
  <2> QED
    BY <1>5, <2>1, <2>2 DEF Execute, ShellType
<1>6. ASSUME NEW u \in UiThreads, StartJob(u) PROVE ShellType'
  <2>1. pool' \in Pools
    BY <1>6 DEF StartJob, ShellType, Pools
  <2> QED
    BY <1>6, <2>1 DEF StartJob, ShellType
<1>7. ASSUME NEW u \in UiThreads, Serve(u), ~ Execute(u), ~ StartJob(u) PROVE ShellType'
  BY <1>7 DEF Serve, Enter, Submit, Register, RegisterRan, Leave, PollJob, ShellType
<1>8. ASSUME NEW k \in Closers, Close(k) PROVE ShellType'
  <2>1. closing' \in [Closers -> Stages]
    BY <1>8 DEF Close, BeginClose, TakeLock, StopPush, JoinPush, DetachPush, CloseBridge, ReapWorker, StopRuntime,
                ListInflight, CancelCall, StopLoop, ReleaseLock, CloseStep, ShellType, Stages
  <2>2. lock' \in Locks
    <3>1. CASE TakeLock(k)
      BY <3>1 DEF TakeLock, ShellType, Locks
    <3>2. CASE ReleaseLock(k)
      BY <3>2 DEF ReleaseLock, Locks
    <3>3. CASE UNCHANGED lock
      BY <3>3 DEF ShellType
    <3> QED
      BY <1>8, <3>1, <3>2, <3>3 DEF Close, BeginClose, StopPush, JoinPush, DetachPush, CloseBridge, ReapWorker,
                                  StopRuntime, ListInflight, CancelCall, StopLoop
  <2>3. push' \in Channels
    BY <1>8 DEF Close, BeginClose, TakeLock, StopPush, JoinPush, DetachPush, CloseBridge, ReapWorker, StopRuntime,
                ListInflight, CancelCall, StopLoop, ReleaseLock, ShellType, Channels
  <2>4. pool' \in Pools
    <3>1. CASE CloseBridge(k) \/ ReapWorker(k)
      BY <3>1 DEF CloseBridge, ReapWorker, ShellType, Pools
    <3>2. CASE UNCHANGED pool
      BY <3>2 DEF ShellType
    <3> QED
      BY <1>8, <3>1, <3>2 DEF Close, BeginClose, TakeLock, StopPush, JoinPush, DetachPush, StopRuntime,
                              ListInflight, CancelCall, StopLoop, ReleaseLock
  <2>5. UNCHANGED <<price, window>>
    BY <1>8 DEF Close, BeginClose, TakeLock, StopPush, JoinPush, DetachPush, CloseBridge, ReapWorker, StopRuntime,
                ListInflight, CancelCall, StopLoop, ReleaseLock
  <2> QED
    BY <2>1, <2>2, <2>3, <2>4, <2>5 DEF ShellType
<1>9. CASE UNCHANGED shellVars
  BY <1>9 DEF shellVars, ShellType
<1> QED
  BY <1>1, <1>2, <1>3, <1>4, <1>5, <1>6, <1>7, <1>8, <1>9, <1>10 DEF ShellNext, Serve, Deliver

LEMMA TickIsKept ==
    ASSUME push \in Channels, NEW m \in Nat, push.late = <<>>, push' = Enqueued(push, m)
    PROVE  \/ push'.late # <<>> /\ Head(push'.late) = m
           \/ push'.late = <<>> /\ push'.queue # <<>> /\ Last(push'.queue) = m
BY EnqueuedKeeps

LEMMA FreshStep ==
    ShellType /\ FreshInv /\ [ShellNext]_shellVars => FreshInv'
<1> SUFFICES ASSUME ShellType, FreshInv, [ShellNext]_shellVars
             PROVE  FreshInv'
  OBVIOUS
<1> USE ShellAssumption DEF ShellType, Channels, Views, Pools, Locks
<1>0. push.queue \in Seq(Nat) /\ push.late \in Seq(Nat) /\ window.batch \in Seq(Nat)
  OBVIOUS
<1>1. CASE Tick
  <2>1. CASE push.attached
    <3>1. push' = Enqueued(push, price + 1) /\ price' = price + 1 /\ push.late = <<>>
      BY <1>1, <2>1 DEF Tick, LoopFree
    <3>2. \/ push'.late # <<>> /\ Head(push'.late) = price'
          \/ push'.late = <<>> /\ push'.queue # <<>> /\ Last(push'.queue) = price'
      BY <3>1, TickIsKept
    <3> QED
      BY <3>2 DEF FreshInv
  <2>2. CASE ~ push.attached
    BY <1>1, <2>2 DEF Tick, FreshInv
  <2> QED
    BY <2>1, <2>2
<1>2. CASE DropOldest
  BY <1>2 DEF DropOldest, FreshInv
<1>3. CASE PutLate
  <2>1. Last(Append(push.queue, Head(push.late))) = Head(push.late) /\ Append(push.queue, Head(push.late)) # <<>>
    BY <1>0, <1>3, TailEnds, LastOfAppend DEF PutLate
  <2>2. /\ push'.late = <<>> /\ push'.queue = Append(push.queue, Head(push.late))
        /\ push'.attached = push.attached /\ UNCHANGED <<price, window>> /\ push.late # <<>>
    BY <1>3 DEF PutLate
  <2> QED
    BY <2>1, <2>2 DEF FreshInv
<1>4. CASE TakeMessage
  <2>1. /\ push.queue # <<>> /\ push'.queue = Tail(push.queue) /\ push'.late = push.late
        /\ push'.attached = push.attached /\ price' = price
        /\ window'.batch = Append(window.batch, Head(push.queue)) /\ window'.snapshot = window.snapshot
    BY <1>4 DEF TakeMessage
  <2>2. /\ Head(push.queue) \in Nat
        /\ Tail(push.queue) = <<>> => Head(push.queue) = Last(push.queue)
        /\ Tail(push.queue) # <<>> => Last(Tail(push.queue)) = Last(push.queue)
    BY <1>0, <2>1, TailEnds
  <2>3. window'.batch # <<>> /\ Last(window'.batch) = Head(push.queue)
    <3>1. window.batch \in Seq(Nat)
      BY <1>0
    <3> QED
      BY <2>1, <2>2, <3>1, AppendsAreKept, Zenon
  <2> QED
    BY <2>1, <2>2, <2>3 DEF FreshInv
<1>5. CASE EndBatch \/ Flush \/ FlushEnds
  <2>1. CASE EndBatch
    <3>1. /\ UNCHANGED <<push, price>> /\ window'.batch = window.batch
          /\ window'.shows = window.shows /\ window'.snapshot = window.snapshot
      BY <2>1 DEF EndBatch
    <3> QED
      BY <3>1 DEF FreshInv
  <2>2. CASE Flush
    <3>1. /\ UNCHANGED <<push, price>> /\ window.batch # <<>> /\ window'.batch = <<>>
          /\ window'.shows = Last(window.batch) /\ window'.snapshot = window.snapshot
      BY <2>2 DEF Flush
    <3> QED
      BY <3>1 DEF FreshInv
  <2>3. CASE FlushEnds
    <3>1. /\ UNCHANGED <<window, price>> /\ push'.attached = push.attached
          /\ push'.late = push.late /\ push'.queue = push.queue
      BY <2>3 DEF FlushEnds
    <3> QED
      BY <3>1 DEF FreshInv
  <2> QED
    BY <1>5, <2>1, <2>2, <2>3
<1>11. ASSUME NEW u \in UiThreads, Execute(u) PROVE FreshInv'
  BY <1>11 DEF Execute, FreshInv
<1>12. ASSUME NEW k \in Closers, StopPush(k) \/ DetachPush(k) PROVE FreshInv'
  BY <1>12 DEF StopPush, DetachPush, FreshInv
<1>6. ASSUME UNCHANGED <<push, window, price>> PROVE FreshInv'
  BY <1>6 DEF FreshInv
<1>7. CASE WorkerDone \/ WorkerDies \/ WorkerExits \/ CloseLoop \/ Exit \/ Crash
  BY <1>6, <1>7 DEF WorkerDone, WorkerDies, WorkerExits, CloseLoop, Exit, Crash
<1>8. ASSUME NEW u \in UiThreads, Serve(u), ~ Execute(u) PROVE FreshInv'
  BY <1>6, <1>8 DEF Serve, Enter, Submit, Register, RegisterRan, Leave, PollJob, StartJob
<1>9. ASSUME NEW k \in Closers, Close(k), ~ StopPush(k), ~ DetachPush(k) PROVE FreshInv'
  BY <1>6, <1>9 DEF Close, BeginClose, TakeLock, JoinPush, CloseBridge, ReapWorker, StopRuntime,
                    ListInflight, CancelCall, StopLoop, ReleaseLock
<1>10. CASE UNCHANGED shellVars
  BY <1>6, <1>10 DEF shellVars
<1> QED
  BY <1>1, <1>2, <1>3, <1>4, <1>5, <1>7, <1>8, <1>9, <1>10, <1>11, <1>12 DEF ShellNext, Deliver

LEMMA InvSound == ShellInv => ShellSound
<1> SUFFICES ASSUME ShellInv PROVE ShellSound
  OBVIOUS
<1> USE DEF ShellInv, ShellType, Channels, Views, Pools, Locks
<1>1. ExitIsClean
  <2> SUFFICES ASSUME process = "exited"
               PROVE  pool.worker = "none" /\ \A k \in Closers : closing[k] \in {"none", "wait", "done"}
    BY DEF ExitIsClean
  <2>1. lock.holder = Nobody /\ pool.worker = "none"
    BY ShellAssumption DEF CleanUpInv
  <2>2. \A k \in Closers : ~ Works(k)
    BY <2>1, ShellAssumption DEF CleanUpInv
  <2>3. \A k \in Closers : closing[k] \in Stages
    OBVIOUS
  <2> QED
    BY <2>1, <2>2, <2>3 DEF Works, Stages
<1>2. FreshestKept
  <2>1. push.queue # <<>> => Last(push.queue) \in ToSet(push.queue)
    BY LastIsElement
  <2>3. push.late # <<>> => Head(push.late) \in ToSet(push.late)
    BY DEF ToSet
  <2>2. window.batch # <<>> => Last(window.batch) \in ToSet(window.batch)
    BY LastIsElement
  <2> QED
    BY <2>1, <2>2, <2>3 DEF FreshestKept, FreshInv
<1> QED
  BY <1>1, <1>2 DEF ShellSound

-----------------------------------------------------------------------------
\* The stages, the channel and the lock are what the code keeps in them.
THEOREM ShellInvariant == ShellSpec => []ShellInv
<1>1. ShellInv /\ [ShellNext]_shellVars => ShellInv'
  BY TypeStep, CleanUpStep, FreshStep DEF ShellInv
<1> QED
  BY ShellStarts, <1>1, PTL DEF ShellSpec

\* While the window lives the newest tick since it subscribed is shown, on its
\* way or queued, and the application exits only after a complete clean-up.
THEOREM ShellIsSound == ShellSpec => []ShellSound
BY ShellInvariant, InvSound, PTL

------------------------------------------------------------------------------
(***************************************************************************)
(* Proofs about the quote cache, for any identities, refreshes, lifetimes   *)
(* and pauses.                                                              *)
(*                                                                          *)
(* Only a provider of crypto gives events, so that a quote with the basis   *)
(* of an event can be in the entry or in a task of such an identity only    *)
(* (EventOf, kept by every answer and by the cache).  What is shown is      *)
(* judged in the step that shows it.                                        *)
(***************************************************************************)

Quotes == [price : BOOLEAN, status : {"UNAVAILABLE", "LIVE", "DELAYED", "EOD"},
           basis : {"UNKNOWN", "EVENT", "CANDLE"}, observed : Nat]
Tracks == [at : {"idle", "queued", "fetching", "done"}, asked : Nat, quote : Quotes]

EventOf(i, q) == q.basis = "EVENT" => i.kind = "crypto"

CacheInv ==
    /\ cache = [i \in Ids |-> cache[i]]
    /\ \A i \in Ids : cache[i].quote \in Quotes /\ EventOf(i, cache[i].quote)

TaskInv ==
    /\ task \in [Refreshers -> [Ids -> Tracks]]
    /\ \A r \in Refreshers, i \in Ids : EventOf(i, task[r][i].quote)

QuoteInv == time \in Nat /\ CacheInv /\ TaskInv /\ FreshIsRecent

-----------------------------------------------------------------------------
(* Quotes *)

LEMMA NoQuoteIsQuote ==
    NoQuote \in Quotes /\ NoTask \in Tracks /\ \A i : EventOf(i, NoQuote)
BY DEF NoQuote, NoTask, Quotes, Tracks, EventOf

\* What the quality of a quote says.
LEMMA QualityFacts ==
    ASSUME NEW q \in Quotes, NEW clock \in Nat
    PROVE  /\ Quality(q, clock).status \in {"UNAVAILABLE", "LIVE", "DELAYED", "EOD"}
           /\ Quality(q, clock).price = q.price
           /\ Quality(q, clock).observed = q.observed
           /\ Quality(q, clock).fresh => q.basis = "EVENT" /\ clock - q.observed <= FreshFor
BY DEF Quality, Quotes

\* Whatever a source answers is a quote, and an event only of crypto.
LEMMA AnswerIsQuote ==
    ASSUME NEW i \in Ids, NEW asked \in Nat, NEW clock \in Nat, NEW q \in Answers(i, asked, clock)
    PROVE  q \in Quotes /\ EventOf(i, q)
<1>1. CASE q = NoQuote
  BY <1>1, NoQuoteIsQuote
<1>2. CASE q # NoQuote
  <2>1. PICK observed \in {asked, 0} :
           q = IF i.kind = "crypto"
               THEN [EventQuote(observed) EXCEPT !.status = Quality(EventQuote(observed), clock).status]
               ELSE CandleQuote(i.source, observed)
    BY <1>2 DEF Answers
  <2>2. EventQuote(observed) \in Quotes
    BY DEF EventQuote, Quotes
  <2>3. Quality(EventQuote(observed), clock).status \in {"UNAVAILABLE", "LIVE", "DELAYED", "EOD"}
    BY <2>2, QualityFacts
  <2>4. CASE i.kind = "crypto"
    BY <2>1, <2>2, <2>3, <2>4 DEF Quotes, EventOf
  <2>5. CASE i.kind # "crypto"
    BY <2>1, <2>5 DEF CandleQuote, Quotes, EventOf
  <2> QED
    BY <2>4, <2>5
<1> QED
  BY <1>1, <1>2

\* What the cache gives a task is a quote of the identity.
LEMMA CachedIsQuote ==
    ASSUME CacheInv, NEW i \in Ids
    PROVE  Cached(i) \in Quotes /\ EventOf(i, Cached(i))
BY NoQuoteIsQuote DEF CacheInv, Cached

\* A task that has ended with a quote of its identity is one.
LEMMA DoneIsTrack ==
    ASSUME NEW q \in Quotes
    PROVE  /\ [NoTask EXCEPT !.at = "done", !.quote = q] \in Tracks
           /\ [NoTask EXCEPT !.at = "done", !.quote = q].quote = q
BY NoQuoteIsQuote DEF NoTask, Tracks

-----------------------------------------------------------------------------
LEMMA QuotesStart == QuoteInit => QuoteInv
<1> SUFFICES ASSUME QuoteInit PROVE QuoteInv
  OBVIOUS
<1>1. CacheInv
  BY NoQuoteIsQuote DEF QuoteInit, CacheInv, NoEntry
<1>2. TaskInv
  <2>1. NoTask.quote = NoQuote
    BY DEF NoTask
  <2> QED
    BY <2>1, NoQuoteIsQuote DEF QuoteInit, TaskInv
<1> QED
  BY <1>1, <1>2 DEF QuoteInit, QuoteInv, FreshIsRecent

\* One task gets a new state.
LEMMA TaskUpdate ==
    ASSUME TaskInv, NEW r \in Refreshers, NEW i \in Ids, NEW t \in Tracks, EventOf(i, t.quote),
           task' = [task EXCEPT ![r][i] = t]
    PROVE  TaskInv'
BY DEF TaskInv

LEMMA TaskStep == QuoteInv /\ [QuoteNext]_quoteVars => TaskInv'
<1> SUFFICES ASSUME QuoteInv, [QuoteNext]_quoteVars PROVE TaskInv'
  OBVIOUS
<1> USE DEF QuoteInv
<1>0. ASSUME UNCHANGED task PROVE TaskInv'
  BY <1>0 DEF TaskInv
<1>1. ASSUME NEW r \in Refreshers, NEW wanted \in SUBSET Ids, BeginRefresh(r, wanted) PROVE TaskInv'
  <2> DEFINE t(i) == IF i \notin wanted THEN NoTask
                     ELSE IF IsCached(i, time) THEN [NoTask EXCEPT !.at = "done", !.quote = Cached(i)]
                     ELSE [NoTask EXCEPT !.at = "queued"]
  <2>1. task' = [task EXCEPT ![r] = [i \in Ids |-> t(i)]]
    BY <1>1 DEF BeginRefresh
  <2>2. \A i \in Ids : t(i) \in Tracks /\ EventOf(i, t(i).quote)
    <3> SUFFICES ASSUME NEW i \in Ids PROVE t(i) \in Tracks /\ EventOf(i, t(i).quote)
      OBVIOUS
    <3>1. /\ [NoTask EXCEPT !.at = "queued"] \in Tracks
          /\ [NoTask EXCEPT !.at = "queued"].quote = NoQuote /\ NoTask.quote = NoQuote
      BY NoQuoteIsQuote DEF NoTask, Tracks
    <3> QED
      BY <3>1, CachedIsQuote, DoneIsTrack, NoQuoteIsQuote
  <2> HIDE DEF t
  <2> QED
    BY <2>1, <2>2 DEF TaskInv
<1>2. ASSUME NEW r \in Refreshers, NEW i \in Ids, Ask(r, i) PROVE TaskInv'
  <2>1. CASE IsCached(i, time)
    <3> DEFINE t == [NoTask EXCEPT !.at = "done", !.quote = Cached(i)]
    <3>1. task' = [task EXCEPT ![r][i] = t]
      BY <1>2, <2>1 DEF Ask
    <3>2. t \in Tracks /\ EventOf(i, t.quote)
      BY CachedIsQuote, DoneIsTrack
    <3> HIDE DEF t
    <3> QED
      BY <3>1, <3>2, TaskUpdate
  <2>2. CASE ~ IsCached(i, time)
    <3>1. task' = [task EXCEPT ![r][i] = [NoTask EXCEPT !.at = "fetching", !.asked = time]]
      BY <1>2, <2>2 DEF Ask
    <3>2. /\ [NoTask EXCEPT !.at = "fetching", !.asked = time] \in Tracks
          /\ [NoTask EXCEPT !.at = "fetching", !.asked = time].quote = NoQuote
      BY NoQuoteIsQuote DEF NoTask, Tracks
    <3> QED
      BY <3>1, <3>2, NoQuoteIsQuote, TaskUpdate
  <2> QED
    BY <2>1, <2>2
<1>3. ASSUME NEW r \in Refreshers, NEW i \in Ids, QuoteAnswer(r, i) PROVE TaskInv'
  <2>1. PICK q \in Answers(i, task[r][i].asked, time) : Done(r, i, q)
    BY <1>3 DEF QuoteAnswer
  <2>2. task[r][i].asked \in Nat
    BY DEF TaskInv, Tracks
  <2>3. q \in Quotes /\ EventOf(i, q)
    BY <2>1, <2>2, AnswerIsQuote
  <2> DEFINE t == [NoTask EXCEPT !.at = "done", !.quote = q]
  <2>4. task' = [task EXCEPT ![r][i] = t]
    BY <2>1 DEF Done
  <2>5. t \in Tracks /\ EventOf(i, t.quote)
    BY <2>3, DoneIsTrack
  <2> HIDE DEF t
  <2> QED
    BY <2>4, <2>5, TaskUpdate
<1>4. ASSUME NEW r \in Refreshers, NEW i \in Ids, RateLimited(r, i) PROVE TaskInv'
  <2> DEFINE t == [NoTask EXCEPT !.at = "done", !.quote = NoQuote]
  <2>1. task' = [task EXCEPT ![r][i] = t]
    BY <1>4 DEF RateLimited, Done
  <2>2. t \in Tracks /\ EventOf(i, t.quote)
    BY NoQuoteIsQuote, DoneIsTrack
  <2> HIDE DEF t
  <2> QED
    BY <2>1, <2>2, TaskUpdate
<1>5. ASSUME NEW r \in Refreshers, Finish(r) PROVE TaskInv'
  <2>1. task' = [task EXCEPT ![r] = [i \in Ids |-> NoTask]] /\ NoTask.quote = NoQuote
    BY <1>5 DEF Finish, NoTask
  <2> QED
    BY <2>1, NoQuoteIsQuote DEF TaskInv
<1>6. CASE Pass \/ (\E i \in Ids : Read(i)) \/ UNCHANGED quoteVars
  BY <1>0, <1>6 DEF Pass, Read, quoteVars
<1> QED
  BY <1>1, <1>2, <1>3, <1>4, <1>5, <1>6 DEF QuoteNext, Work

LEMMA CacheStep ==
    QuoteInv /\ [QuoteNext]_quoteVars =>
        /\ CacheInv'
        /\ \A i \in Ids : cache[i].quote.price => cache'[i].quote.price
<1> SUFFICES ASSUME QuoteInv, [QuoteNext]_quoteVars
             PROVE  /\ CacheInv'
                    /\ \A i \in Ids : cache[i].quote.price => cache'[i].quote.price
  OBVIOUS
<1> USE DEF QuoteInv
<1>1. ASSUME NEW r \in Refreshers, NEW i \in Ids, QuoteAnswer(r, i)
      PROVE  /\ CacheInv'
             /\ \A j \in Ids : cache[j].quote.price => cache'[j].quote.price
  <2>1. PICK q \in Answers(i, task[r][i].asked, time) :
           cache' = [cache EXCEPT ![i] =
               IF q.price THEN [NoEntry EXCEPT !.kind = "quote", !.quote = q, !.fetched = refresh[r].since]
               ELSE Failed(cache[i], refresh[r].since)]
    BY <1>1 DEF QuoteAnswer
  <2>2. task[r][i].asked \in Nat
    BY DEF TaskInv, Tracks
  <2>3. q \in Quotes /\ EventOf(i, q)
    BY <2>1, <2>2, AnswerIsQuote
  <2>4. \A j \in Ids \ {i} : cache'[j] = cache[j]
    BY <2>1 DEF CacheInv
  <2>5. cache' = [j \in Ids |-> cache'[j]]
    BY <2>1 DEF CacheInv
  <2>6. CASE q.price
    <3>1. cache'[i].quote = q
      BY <2>1, <2>6 DEF CacheInv, NoEntry
    <3> QED
      BY <2>3, <2>4, <2>5, <2>6, <3>1 DEF CacheInv
  <2>7. CASE ~ q.price
    <3>1. cache'[i].quote = cache[i].quote
      BY <2>1, <2>7 DEF CacheInv, Failed
    <3> QED
      BY <2>4, <2>5, <3>1 DEF CacheInv
  <2> QED
    BY <2>6, <2>7
<1>2. CASE UNCHANGED cache
  BY <1>2 DEF CacheInv
<1> QED
  BY <1>1, <1>2 DEF QuoteNext, quoteVars, Work, Pass, Read, BeginRefresh, Ask, RateLimited, Finish

\* Freshness is judged at the time of the step that shows the quote.
LEMMA ShownStep == QuoteInv /\ [QuoteNext]_quoteVars => FreshIsRecent'
<1> SUFFICES ASSUME QuoteInv, [QuoteNext]_quoteVars PROVE FreshIsRecent'
  OBVIOUS
<1> USE DEF QuoteInv
<1>1. ASSUME NEW i \in Ids, NEW q \in Quotes, EventOf(i, q), View(i, q).fresh
      PROVE  View(i, q).id.kind = "crypto" /\ time - View(i, q).observed <= FreshFor
  BY <1>1, QualityFacts DEF View, EventOf
<1>2. ASSUME NEW r \in Refreshers, Finish(r) PROVE FreshIsRecent'
  <2>1. time' = time
    BY <1>2 DEF Finish
  <2>2. shown' = {} \/ shown' = {View(i, task[r][i].quote) : i \in Tasks(r, "done")}
    BY <1>2 DEF Finish
  <2>3. ASSUME NEW v \in shown', v.fresh
        PROVE  v.id.kind = "crypto" /\ time - v.observed <= FreshFor
    <3>1. PICK i \in Ids : v = View(i, task[r][i].quote)
      BY <2>2, <2>3 DEF Tasks
    <3>2. task[r][i].quote \in Quotes /\ EventOf(i, task[r][i].quote)
      BY DEF TaskInv, Tracks
    <3> QED
      BY <1>1, <2>3, <3>1, <3>2
  <2> QED
    BY <2>1, <2>3 DEF FreshIsRecent
<1>3. ASSUME NEW i \in Ids, Read(i) PROVE FreshIsRecent'
  <2> DEFINE v == Quality(cache[i].quote, time)
             row == [id |-> i, price |-> TRUE, observed |-> v.observed, last |-> FALSE,
                     fresh |-> v.fresh /\ cache[i].kind = "quote"]
  <2>1. shown' = {row} /\ time' = time
    BY <1>3 DEF Read
  <2>2. cache[i].quote \in Quotes /\ EventOf(i, cache[i].quote)
    BY DEF CacheInv
  <2>3. v.fresh => i.kind = "crypto" /\ time - v.observed <= FreshFor
    BY <2>2, QualityFacts DEF EventOf
  <2> HIDE DEF v
  <2>4. row.id = i /\ row.observed = v.observed /\ (row.fresh => v.fresh)
    OBVIOUS
  <2> QED
    BY <2>1, <2>3, <2>4 DEF FreshIsRecent
<1>4. CASE shown' = {}
  BY <1>4 DEF FreshIsRecent
<1>5. CASE UNCHANGED quoteVars
  BY <1>5 DEF FreshIsRecent, quoteVars
<1> QED
  BY <1>2, <1>3, <1>4, <1>5 DEF QuoteNext, Work, Pass, BeginRefresh, Ask, QuoteAnswer, RateLimited

LEMMA TimeStep == time \in Nat /\ [QuoteNext]_quoteVars => time' \in Nat
<1> SUFFICES ASSUME time \in Nat, [QuoteNext]_quoteVars PROVE time' \in Nat
  OBVIOUS
<1>1. CASE Pass
  BY <1>1 DEF Pass
<1>2. CASE UNCHANGED time
  BY <1>2
<1> QED
  BY <1>1, <1>2 DEF QuoteNext, quoteVars, Work, Read, BeginRefresh, Ask, QuoteAnswer, RateLimited, Finish

-----------------------------------------------------------------------------
\* Every quote the cache or a task holds is one its source may give.
THEOREM QuoteInvariant == QuoteSpec => []QuoteInv
<1>1. QuoteInv /\ [QuoteNext]_quoteVars => QuoteInv'
  BY TaskStep, CacheStep, ShownStep, TimeStep DEF QuoteInv
<1> QED
  BY QuotesStart, <1>1, PTL DEF QuoteSpec

\* What is shown as fresh is an event of the last minute, and a refresh that
\* fails never costs the last good price.
THEOREM QuotesAreHonest == QuoteSpec => QuotesHonest
<1>1. QuoteInv /\ [QuoteNext]_quoteVars
        => [\A i \in Ids : cache[i].quote.price => cache'[i].quote.price]_quoteVars
  BY CacheStep
<1>2. QuoteInv => FreshIsRecent
  BY DEF QuoteInv
<1>3. QuoteSpec => PriceKept
  BY QuoteInvariant, <1>1, PTL DEF QuoteSpec, PriceKept
<1> QED
  BY QuoteInvariant, <1>2, <1>3, PTL DEF QuotesHonest

------------------------------------------------------------------------------
(***************************************************************************)
(* Proofs about the chart, for any requests, queries and provider limits.  *)
(*                                                                         *)
(* No bar is later than now (CandlesOk), whoever stored it.  So a bar of the*)
(* current slot is among the newest of whatever it is stored with, and what*)
(* a request fetched for the latest bars survives the cut to its limit.    *)
(***************************************************************************)

\* Nothing is later than now: neither a bar of the cache nor one of a provider.
CandlesOk ==
    /\ now \in Nat
    /\ \A b \in rows : b.slot \in 0 .. now
    /\ \A r \in Requests : request[r] # NoAnswer => request[r].query \in Queries

InTime(bars) == \A b \in bars : b.slot \in 0 .. now

\* A bar of the current slot is among the newest ones of bars in time.
LEMMA NowIsNewest ==
    ASSUME NEW bars, InTime(bars), now \in Nat, NEW b \in bars, b.slot = now, NEW n \in Nat, n > 0
    PROVE  b \in Newest(bars, n)
<1>1. {c \in bars : c.slot > b.slot} = {}
  BY DEF InTime
<1>2. Cardinality({c \in bars : c.slot > b.slot}) = 0
  BY <1>1, FS_EmptySet
<1> QED BY <1>2 DEF Newest

LEMMA MaxIsNow ==
    ASSUME NEW bars, InTime(bars), now \in Nat, NEW b \in bars, b.slot = now
    PROVE  Max({c.slot : c \in bars}) = now
<1> DEFINE S == {c.slot : c \in bars}
<1>1. now \in S /\ \A x \in S : x \in Nat /\ x <= now
  BY DEF InTime
<1> HIDE DEF S
<1>2. \A x \in S : (\A y \in S : x >= y) => x = now
  BY <1>1
<1>3. Max(S) = now
  BY <1>1, <1>2 DEF Max
<1> QED BY <1>3 DEF S

\* A request for the latest bars that gets any gets the one of the current slot.
LEMMA LatestFetched ==
    ASSUME NEW q \in Queries, ~ IsHistory(q), now \in Nat, NEW fetched \in Fetched(q), fetched # {}
    PROVE  InTime(fetched) /\ \E b \in fetched : b.slot = now
<1>1. q.from = None /\ q.to = None /\ q.limit \in Nat /\ q.limit > 0
  BY CandleAssumption DEF IsHistory
<1> DEFINE All(width) == {Bar(t, width) : t \in 0 .. now}
           Whole(width) == Market([from |-> None, to |-> None], width)
<1>2. ASSUME NEW width PROVE InTime(All(width)) /\ Bar(now, width) \in All(width) /\ Bar(now, width).slot = now
  BY DEF InTime, Bar
<1>3. ASSUME NEW width PROVE Whole(width) = All(width)
  BY DEF Market, InRange
<1>4. ASSUME NEW width PROVE Market(q, width) = All(width)
  BY <1>1 DEF Market, InRange
<1>5. ASSUME NEW width PROVE Market([q EXCEPT !.to = None], width) = All(width)
  BY <1>1 DEF Market, InRange
<1>6. ASSUME NEW width
      PROVE  InTime(Newest(All(width), q.limit)) /\ Bar(now, width) \in Newest(All(width), q.limit)
  <2>1. InTime(Newest(All(width), q.limit))
    BY <1>2 DEF InTime, Newest
  <2> QED BY <1>1, <1>2, <2>1, NowIsNewest
<1>7. CASE fetched \in CryptoAnswers(q)
  <2>1. fetched = Newest(All("own"), q.limit)
    BY <1>1, <1>4, <1>7 DEF CryptoAnswers
  <2> QED BY <1>2, <1>6, <2>1
<1>8. CASE fetched \in MacroAnswers(q)
  <2>1. \E width : fetched = All(width)
    BY <1>1, <1>3, <1>5, <1>8 DEF MacroAnswers
  <2> QED BY <1>2, <2>1
<1> QED BY <1>7, <1>8 DEF Fetched

LEMMA FetchedInTime ==
    ASSUME NEW q, now \in Nat, NEW fetched \in Fetched(q)
    PROVE  InTime(fetched)
<1>1. ASSUME NEW p, NEW width PROVE InTime(Market(p, width))
  BY DEF Market, InRange, InTime, Bar
<1>2. ASSUME NEW bars, InTime(bars), NEW n PROVE InTime(Newest(bars, n)) /\ InTime(Oldest(bars, n))
  BY <1>2 DEF Newest, Oldest, InTime
<1>3. CASE fetched \in CryptoAnswers(q)
  BY <1>1, <1>2, <1>3 DEF CryptoAnswers
<1>4. CASE fetched \in MacroAnswers(q)
  BY <1>1, <1>4 DEF MacroAnswers
<1>5. CASE fetched = {}
  BY <1>5 DEF InTime
<1> QED BY <1>3, <1>4, <1>5 DEF Fetched

LEMMA SavedInTime ==
    ASSUME NEW bars, NEW fetched, InTime(bars), InTime(fetched)
    PROVE  /\ InTime(Saved(bars, fetched))
           /\ \A b \in fetched : \E c \in Saved(bars, fetched) : c.slot = b.slot
BY DEF Saved, InTime

ChartInv == CandlesOk /\ ChartIsCurrent

LEMMA ReceiveKept == ASSUME ChartInv, NEW r \in Requests, Receive(r) PROVE ChartInv'
<1> DEFINE q == request[r].query
<1>1. q \in Queries /\ now \in Nat /\ InTime(rows) /\ now' = now
  BY DEF ChartInv, CandlesOk, Receive, InTime
<1>2. PICK fetched \in Fetched(q) :
        /\ rows' = Saved(rows, fetched)
        /\ answer' = [query |-> q, bars |-> CachedBars(rows', q), fetched |-> fetched, asked |-> TRUE]
  BY DEF Receive
<1>3. InTime(fetched)
  BY <1>1, <1>2, FetchedInTime
<1>4. InTime(rows')
  BY <1>1, <1>2, <1>3, SavedInTime
<1>5. CandlesOk'
  <2>1. request' = [request EXCEPT ![r] = NoAnswer]
    BY DEF Receive
  <2>2. \A s \in Requests : request'[s] # NoAnswer => request'[s].query \in Queries
    BY <2>1 DEF ChartInv, CandlesOk
  <2>3. \A b \in rows' : b.slot \in 0 .. now'
    BY <1>1, <1>4 DEF InTime
  <2> QED BY <1>1, <2>2, <2>3 DEF CandlesOk
<1>6. ASSUME ~ IsHistory(q), fetched # {}
      PROVE  Max({b.slot : b \in fetched}) \in {b.slot : b \in CachedBars(rows', q)}
  <2>1. PICK f \in fetched : f.slot = now
    BY <1>1, <1>2, <1>6, LatestFetched
  <2>2. PICK c \in rows' : c.slot = now
    BY <1>1, <1>2, <1>3, <2>1, SavedInTime
  <2>3. Max({b.slot : b \in fetched}) = now
    BY <1>1, <1>3, <2>1, MaxIsNow
  <2>4. q.limit \in Nat /\ q.limit > 0
    BY <1>1, CandleAssumption
  <2>5. c \in Newest(rows', q.limit)
    BY <1>1, <1>4, <2>2, <2>4, NowIsNewest
  <2>6. c \in CachedBars(rows', q)
    BY <1>6, <2>5 DEF CachedBars
  <2> QED BY <2>2, <2>3, <2>6
<1> HIDE DEF q
<1>7. ChartIsCurrent'
  <2>1. /\ answer'.query = q /\ answer'.bars = CachedBars(rows', q)
        /\ answer'.fetched = fetched /\ answer'.asked
    BY <1>2
  <2> QED BY <1>6, <2>1 DEF ChartIsCurrent
<1> QED BY <1>5, <1>7 DEF ChartInv

LEMMA LookKept ==
    ASSUME ChartInv, NEW r \in Requests, NEW q \in Queries, NEW force \in BOOLEAN, Look(r, q, force)
    PROVE  ChartInv'
<1>1. UNCHANGED <<now, rows>>
  BY DEF Look
<1>2. CandlesOk'
  <2>1. CASE request' = request
    BY <1>1, <2>1 DEF ChartInv, CandlesOk
  <2>2. CASE request' = [request EXCEPT ![r] = [query |-> q]]
    BY <1>1, <2>2 DEF ChartInv, CandlesOk
  <2> QED BY <2>1, <2>2 DEF Look
<1>3. CASE answer' = NoAnswer
  BY <1>2, <1>3 DEF ChartInv, ChartIsCurrent
<1>4. CASE Hit(q, CachedBars(rows, q)) /\ answer' = [query |-> q, bars |-> CachedBars(rows, q), fetched |-> {}, asked |-> FALSE]
  <2>1. answer'.query = q /\ answer'.bars = CachedBars(rows, q)
    BY <1>4
  <2>2. ~ IsHistory(q) => IsFresh(CachedBars(rows, q))
    BY <1>4 DEF Hit, IsHistory
  <2>3. ~ IsHistory(answer'.query) => IsFresh(answer.bars)'
    BY <1>1, <2>1, <2>2 DEF IsFresh
  <2> QED BY <1>2, <2>3 DEF ChartInv, ChartIsCurrent
<1> QED BY <1>3, <1>4 DEF Look

\* ChartIsCurrent: whatever other requests store and clear meanwhile, a chart of the
\* latest bars is fresh, or shows the newest bar its provider has.
THEOREM ChartsAreCurrent == CandleSpec => []ChartIsCurrent
<1>1. CandleInit => ChartInv
  BY DEF CandleInit, ChartInv, CandlesOk, ChartIsCurrent
<1>2. ASSUME ChartInv, [CandleNext]_candleVars PROVE ChartInv'
  <2>1. CASE NextSlot
    <3>1. /\ now' = now + 1 /\ now \in Nat /\ UNCHANGED <<rows, request>> /\ answer' = NoAnswer
      BY <1>2, <2>1 DEF NextSlot, ChartInv, CandlesOk
    <3>2. \A b \in rows' : b.slot \in 0 .. now'
      BY <1>2, <3>1 DEF ChartInv, CandlesOk
    <3> QED BY <1>2, <3>1, <3>2 DEF ChartInv, CandlesOk, ChartIsCurrent
  <2>2. CASE SaveSnapshot
    <3>1. PICK n : rows' = Saved(rows, Newest({Bar(t, "own") : t \in 0 .. now}, n))
      BY <2>2 DEF SaveSnapshot
    <3>2. InTime(rows) /\ InTime(Newest({Bar(t, "own") : t \in 0 .. now}, n)) /\ now' = now
      BY <1>2, <2>2 DEF SaveSnapshot, ChartInv, CandlesOk, InTime, Newest, Bar
    <3>3. InTime(rows')
      BY <3>1, <3>2, SavedInTime
    <3>4. answer' = NoAnswer /\ request' = request
      BY <2>2 DEF SaveSnapshot
    <3> QED BY <1>2, <3>2, <3>3, <3>4 DEF ChartInv, CandlesOk, ChartIsCurrent, InTime
  <2>3. CASE Clear
    BY <1>2, <2>3 DEF Clear, ChartInv, CandlesOk, ChartIsCurrent
  <2>4. CASE \E r \in Requests : Receive(r)
    BY <1>2, <2>4, ReceiveKept
  <2>5. CASE \E r \in Requests, q \in Queries, force \in BOOLEAN : Look(r, q, force)
    BY <1>2, <2>5, LookKept
  <2>6. CASE UNCHANGED candleVars
    BY <1>2, <2>6 DEF candleVars, ChartInv, CandlesOk, ChartIsCurrent, IsFresh
  <2> QED BY <1>2, <2>1, <2>2, <2>3, <2>4, <2>5, <2>6 DEF CandleNext
<1>3. ChartInv => ChartIsCurrent
  BY DEF ChartInv
<1> QED BY <1>1, <1>2, <1>3, PTL DEF CandleSpec
==============================================================================
