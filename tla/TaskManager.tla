----------------------------- MODULE TaskManager -----------------------------
(***************************************************************************)
(* task/task.go: BackgroundTaskManager.  Prioritized tasks (reads and      *)
(* prefetches) preempt background tasks (the fetch of whole layers).       *)
(*                                                                         *)
(* A prioritized task is a member of Prio, an invocation of                *)
(* InvokeBackgroundTask a member of Bg.  Channels are abstracted to what   *)
(* their holders see: whether the prioritizedTaskStartNotify channel that  *)
(* an invocation took is still open or has been closed by                  *)
(* DoPrioritizedTask.                                                      *)
(***************************************************************************)
EXTENDS Integers, FiniteSets

CONSTANTS Prio,         \* prioritized tasks
          Bg,           \* invocations of InvokeBackgroundTask
          Concurrency,  \* NewBackgroundTaskManager's concurrency
          MaxOrphans,   \* bound: cancelled executions of one task still running
          NoOne         \* the holder of an unlocked mutex

ASSUME ConstantsAssumption ==
    /\ IsFiniteSet(Prio) /\ IsFiniteSet(Bg)
    /\ Concurrency \in Nat \ {0}
    /\ MaxOrphans \in Nat
    /\ NoOne \notin Bg

VARIABLES
    prioritizedTasks,  \* the atomic counter
    prio,       \* pc of each prioritized task
    bg,         \* pc of each InvokeBackgroundTask
    condL,      \* holder of prioritizedTaskDoneCond.L
    sem,        \* units of backgroundSem still available
    notify,     \* "open" or "closed": the channel the invocation holds
    do,         \* the current execution of the task: "none", "running", "done"
    ctx,        \* the context of that execution: "live", "cancelled", "expired"
    orphans     \* executions abandoned by a cancelled invocation, still running

vars == <<prioritizedTasks, prio, bg, condL, sem, notify, do, ctx, orphans>>

PrioPC == {"idle", "running", "silence", "broadcast"}
BgPC == {"loop", "lock", "check", "wait", "waiting", "woken", "acquire", "read",
         "select", "returned"}

\* The invocations that are between Acquire and the deferred Release.
SemHolders == {b \in Bg : bg[b] \in {"read", "select"}}

Init ==
    /\ prioritizedTasks = 0
    /\ prio = [p \in Prio |-> "idle"]
    /\ bg = [b \in Bg |-> "loop"]
    /\ condL = NoOne
    /\ sem = Concurrency
    /\ notify = [b \in Bg |-> "open"]
    /\ do = [b \in Bg |-> "none"]
    /\ ctx = [b \in Bg |-> "live"]
    /\ orphans = [b \in Bg |-> 0]

-----------------------------------------------------------------------------
(* Prioritized tasks. *)

\* The counter, the close and the fresh channel change under
\* prioritizedTaskStartNotifyMu: every channel taken so far is closed.
DoPrioritizedTask(p) ==
    /\ prio[p] = "idle"
    /\ prio' = [prio EXCEPT ![p] = "running"]
    /\ prioritizedTasks' = prioritizedTasks + 1
    /\ notify' = [b \in Bg |-> "closed"]
    /\ UNCHANGED <<bg, condL, sem, do, ctx, orphans>>

\* DonePrioritizedTask only starts a goroutine, which sleeps.
DonePrioritizedTask(p) ==
    /\ prio[p] = "running"
    /\ prio' = [prio EXCEPT ![p] = "silence"]
    /\ UNCHANGED <<prioritizedTasks, bg, condL, sem, notify, do, ctx, orphans>>

\* The silence period is over: the counter drops, no lock held.
SilenceOver(p) ==
    /\ prio[p] = "silence"
    /\ prio' = [prio EXCEPT ![p] = "broadcast"]
    /\ prioritizedTasks' = prioritizedTasks - 1
    /\ UNCHANGED <<bg, condL, sem, notify, do, ctx, orphans>>

\* Mutant: Signal instead of Broadcast.
BroadcastSignal(p) ==
    /\ prio[p] = "broadcast"
    /\ condL = NoOne
    /\ prio' = [prio EXCEPT ![p] = "idle"]
    /\ \/ /\ \A b \in Bg : bg[b] # "waiting"
          /\ UNCHANGED bg
       \/ \E b \in Bg : bg[b] = "waiting" /\ bg' = [bg EXCEPT ![b] = "woken"]
    /\ UNCHANGED <<prioritizedTasks, condL, sem, notify, do, ctx, orphans>>

\* Lock; Broadcast; Unlock: every waiter has to take L again.
Broadcast(p) ==
    /\ prio[p] = "broadcast"
    /\ condL = NoOne
    /\ prio' = [prio EXCEPT ![p] = "idle"]
    /\ bg' = [b \in Bg |-> IF bg[b] = "waiting" THEN "woken" ELSE bg[b]]
    /\ UNCHANGED <<prioritizedTasks, condL, sem, notify, do, ctx, orphans>>

-----------------------------------------------------------------------------
(* InvokeBackgroundTask. *)

LoopTest(b) ==
    /\ bg[b] = "loop"
    /\ bg' = [bg EXCEPT ![b] = IF prioritizedTasks > 0 THEN "lock" ELSE "acquire"]
    /\ UNCHANGED <<prioritizedTasks, prio, condL, sem, notify, do, ctx, orphans>>

LockCond(b) ==
    /\ bg[b] = "lock"
    /\ condL = NoOne
    /\ condL' = b
    /\ bg' = [bg EXCEPT ![b] = "check"]
    /\ UNCHANGED <<prioritizedTasks, prio, sem, notify, do, ctx, orphans>>

\* The second test of the counter, under L; without Wait, L is unlocked and
\* the loop goes round.
CheckUnderLock(b) ==
    /\ bg[b] = "check"
    /\ \/ /\ prioritizedTasks > 0
          /\ bg' = [bg EXCEPT ![b] = "wait"]
          /\ UNCHANGED condL
       \/ /\ prioritizedTasks <= 0
          /\ bg' = [bg EXCEPT ![b] = "loop"]
          /\ condL' = NoOne
    /\ UNCHANGED <<prioritizedTasks, prio, sem, notify, do, ctx, orphans>>

\* Wait joins the waiters and releases L.
Wait(b) ==
    /\ bg[b] = "wait"
    /\ condL' = NoOne
    /\ bg' = [bg EXCEPT ![b] = "waiting"]
    /\ UNCHANGED <<prioritizedTasks, prio, sem, notify, do, ctx, orphans>>

\* Wait takes L again before it returns, and L is then unlocked.
WaitReturns(b) ==
    /\ bg[b] = "woken"
    /\ condL = NoOne
    /\ bg' = [bg EXCEPT ![b] = "loop"]
    /\ UNCHANGED <<prioritizedTasks, prio, condL, sem, notify, do, ctx, orphans>>

Acquire(b) ==
    /\ bg[b] = "acquire"
    /\ sem > 0
    /\ sem' = sem - 1
    /\ bg' = [bg EXCEPT ![b] = "read"]
    /\ UNCHANGED <<prioritizedTasks, prio, condL, notify, do, ctx, orphans>>

\* Mutant: the counter is not read again once a unit has been acquired.
ReadNotifyUnchecked(b) ==
    /\ bg[b] = "read"
    /\ notify' = [notify EXCEPT ![b] = "open"]
    /\ bg' = [bg EXCEPT ![b] = "select"]
    /\ do' = [do EXCEPT ![b] = "running"]
    /\ ctx' = [ctx EXCEPT ![b] = "live"]
    /\ UNCHANGED <<prioritizedTasks, prio, condL, sem, orphans>>

\* The channel and the counter are read under prioritizedTaskStartNotifyMu.
\* With a prioritized task running the invocation gives its unit back and
\* retries, otherwise it starts the task in a goroutine.
ReadNotify(b) ==
    /\ bg[b] = "read"
    /\ notify' = [notify EXCEPT ![b] = "open"]
    /\ \/ /\ prioritizedTasks > 0
          /\ sem' = sem + 1
          /\ bg' = [bg EXCEPT ![b] = "loop"]
          /\ UNCHANGED <<do, ctx>>
       \/ /\ prioritizedTasks <= 0
          /\ bg' = [bg EXCEPT ![b] = "select"]
          /\ do' = [do EXCEPT ![b] = "running"]
          /\ ctx' = [ctx EXCEPT ![b] = "live"]
          /\ UNCHANGED sem
    /\ UNCHANGED <<prioritizedTasks, prio, condL, orphans>>

\* case <-ch: the context is cancelled and the unit released, and the task is
\* retried without waiting for the cancelled execution to return.
SelectNotified(b) ==
    /\ bg[b] = "select"
    /\ notify[b] = "closed"
    /\ do[b] = "running" => orphans[b] < MaxOrphans
    /\ orphans' = [orphans EXCEPT ![b] = IF do[b] = "running" THEN @ + 1 ELSE @]
    /\ do' = [do EXCEPT ![b] = "none"]
    /\ ctx' = [ctx EXCEPT ![b] = "cancelled"]
    /\ sem' = sem + 1
    /\ bg' = [bg EXCEPT ![b] = "loop"]
    /\ UNCHANGED <<prioritizedTasks, prio, condL, notify>>

\* case <-done: the deferred cancel and Release run and the loop breaks.
SelectDone(b) ==
    /\ bg[b] = "select"
    /\ do[b] = "done"
    /\ sem' = sem + 1
    /\ bg' = [bg EXCEPT ![b] = "returned"]
    /\ do' = [do EXCEPT ![b] = "none"]
    /\ ctx' = [ctx EXCEPT ![b] = "cancelled"]
    /\ UNCHANGED <<prioritizedTasks, prio, condL, notify, orphans>>

\* The deadline of context.WithTimeout passes: nobody but do looks at it.
ContextExpires(b) ==
    /\ do[b] = "running"
    /\ ctx[b] = "live"
    /\ ctx' = [ctx EXCEPT ![b] = "expired"]
    /\ UNCHANGED <<prioritizedTasks, prio, bg, condL, sem, notify, do, orphans>>

\* do(ctx) returns, complete or because of its context, and closes done.
DoReturns(b) ==
    /\ do[b] = "running"
    /\ do' = [do EXCEPT ![b] = "done"]
    /\ UNCHANGED <<prioritizedTasks, prio, bg, condL, sem, notify, ctx, orphans>>

\* A cancelled execution returns; nobody listens to its done channel.
OrphanReturns(b) ==
    /\ orphans[b] > 0
    /\ orphans' = [orphans EXCEPT ![b] = @ - 1]
    /\ UNCHANGED <<prioritizedTasks, prio, bg, condL, sem, notify, do, ctx>>

-----------------------------------------------------------------------------
PrioNext(p) ==
    DoPrioritizedTask(p) \/ DonePrioritizedTask(p) \/ SilenceOver(p) \/ Broadcast(p)

BgStep(b) ==
    \/ LoopTest(b) \/ LockCond(b) \/ CheckUnderLock(b) \/ Wait(b) \/ WaitReturns(b)
    \/ ReadNotify(b) \/ SelectNotified(b) \/ SelectDone(b)

BgNext(b) == BgStep(b) \/ Acquire(b) \/ ContextExpires(b) \/ DoReturns(b) \/ OrphanReturns(b)

Next == (\E p \in Prio : PrioNext(p)) \/ (\E b \in Bg : BgNext(b))

(***************************************************************************)
(* Fairness.  The Go scheduler runs every goroutine that can run; time     *)
(* passes, so the silence period ends; an execution whose context is       *)
(* cancelled returns, as InvokeBackgroundTask demands of it;               *)
(* semaphore.Weighted and sync.Mutex serve their waiters, so a wait for a  *)
(* unit or for L that is granted again and again succeeds.  Nothing forces *)
(* a prioritized task to start.                                            *)
(***************************************************************************)
SchedulerFairness ==
    /\ \A p \in Prio : /\ WF_vars(DonePrioritizedTask(p)) /\ WF_vars(SilenceOver(p))
                       /\ SF_vars(Broadcast(p))
    /\ \A b \in Bg : /\ WF_vars(BgStep(b))
                     /\ SF_vars(LockCond(b)) /\ SF_vars(WaitReturns(b))
                     /\ SF_vars(Acquire(b)) /\ WF_vars(OrphanReturns(b))

\* Besides, a task that nobody cancels comes to its end.
TaskFairness == \A b \in Bg : WF_vars(DoReturns(b))

Spec == Init /\ [][Next]_vars
FairSpec == Spec /\ SchedulerFairness /\ TaskFairness

-----------------------------------------------------------------------------
(* Properties. *)

\* Type correctness of the manager's fields and of the goroutines' locals.
TypeOK ==
    /\ prioritizedTasks \in Nat
    /\ prio \in [Prio -> PrioPC]
    /\ bg \in [Bg -> BgPC]
    /\ condL \in Bg \cup {NoOne}
    /\ sem \in 0..Concurrency
    /\ notify \in [Bg -> {"open", "closed"}]
    /\ do \in [Bg -> {"none", "running", "done"}]
    /\ ctx \in [Bg -> {"live", "cancelled", "expired"}]
    /\ orphans \in [Bg -> 0..MaxOrphans]

\* A background task that is running while a prioritized task runs (or is in
\* its silence period) is about to be cancelled: the channel its invocation
\* selects on is closed, whatever happened between the test of the counter and
\* the start of the goroutine (task.go:120-146).
RunningIsPreempted ==
    \A b \in Bg : do[b] = "running" /\ prioritizedTasks > 0 => notify[b] = "closed"

\* The counter counts exactly the prioritized tasks that have started and whose
\* silence period is not over, so it never goes negative and background tasks
\* are never blocked by a task that is gone.
CounterIsExact ==
    prioritizedTasks = Cardinality({p \in Prio : prio[p] \in {"running", "silence"}})

\* Every exit of the inner function gives its unit of the semaphore back:
\* units available plus invocations holding one are the concurrency.
SemaphoreConserved == sem + Cardinality(SemHolders) = Concurrency

\* A waiter on the condition variable is never stranded: while one waits, a
\* prioritized task is still to broadcast (lost wakeup of task.go:103-111).
NoLostWakeup ==
    (\E b \in Bg : bg[b] = "waiting") => \E p \in Prio : prio[p] # "idle"

\* If prioritized tasks stop coming, every invocation returns: neither the
\* condition variable nor the semaphore loses one of them.
BackgroundCompletes ==
    <>[](prioritizedTasks = 0) => \A b \in Bg : <>(bg[b] = "returned")
=============================================================================
