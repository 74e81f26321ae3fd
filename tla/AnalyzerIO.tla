------------------------------ MODULE AnalyzerIO ------------------------------
(***************************************************************************)
(* The container the analyzer runs and its streams (analyzer/analyzer.go): *)
(* the lazy reader of stdin, whose closer is registered after the task has *)
(* been made, the waiter for a line of the output, and the wait for the    *)
(* end of the task, which kills it after the line or a timeout.            *)
(***************************************************************************)
EXTENDS Integers

CONSTANTS
    MaxReads,    \* bounds the reads of stdin before its end
    MaxLines     \* bounds the lines of the output

ASSUME AnalyzerIOAssumption == MaxReads \in Nat /\ MaxLines \in Nat

VARIABLES
    main,           \* where Analyze is
    task,           \* "none", "created", "running", "killed", "exited"
    status,         \* the exit status has been taken from its channel
    waitLine,       \* a line is waited for
    closer, initialized,
    waiting,        \* the reader is in initCond.Wait
    condL,          \* the reader holds initCond.L
    reader, reads,  \* the copy of stdin
    stdin,          \* the container's stdin: "open" or "closed"
    copier,         \* the copy of the output: "read", or "write" while the pipe is full
    scanner, lines  \* the goroutine of the line waiter

streams == <<closer, initialized, waiting, condL, reader, reads, stdin>>
output == <<copier, scanner, lines>>
ioVars == <<main, task, status, waitLine, streams, output>>

IOInit ==
    /\ main = "newtask" /\ task = "none" /\ status = FALSE /\ waitLine \in BOOLEAN
    /\ closer = FALSE /\ initialized = FALSE /\ waiting = FALSE /\ condL = FALSE
    /\ reader = "none" /\ reads = 0 /\ stdin = "open"
    /\ copier = "none" /\ scanner = "none" /\ lines = 0

-----------------------------------------------------------------------------
(* Analyze. *)

\* container.NewTask starts the copies.
NewTask ==
    /\ main = "newtask" /\ main' = "closer" /\ task' = "created"
    /\ reader' = "check" /\ copier' = "read"
    /\ scanner' = IF waitLine THEN "scan" ELSE "none"
    /\ UNCHANGED <<status, waitLine, closer, initialized, waiting, condL, reads, stdin, lines>>

\* Mutant: the reader is told before the closer is there.
RegisterCloserLate ==
    /\ \/ main = "closer" /\ main' = "initialized" /\ initialized' = TRUE /\ UNCHANGED <<closer, waiting>>
       \/ main = "initialized" /\ main' = "start" /\ waiting' = FALSE /\ closer' = TRUE /\ UNCHANGED initialized
    /\ UNCHANGED <<task, status, waitLine, condL, reader, reads, stdin, output>>

\* registerCloser: the closer, the flag and the broadcast, which takes no lock.
RegisterCloser ==
    /\ \/ main = "closer" /\ main' = "initialize" /\ closer' = TRUE /\ UNCHANGED <<initialized, waiting>>
       \/ main = "initialize" /\ main' = "broadcast" /\ initialized' = TRUE /\ UNCHANGED <<closer, waiting>>
       \/ main = "broadcast" /\ main' = "start" /\ waiting' = FALSE /\ UNCHANGED <<closer, initialized>>
    /\ UNCHANGED <<task, status, waitLine, condL, reader, reads, stdin, output>>

StartTask ==
    /\ main = "start" /\ main' = "wait" /\ task' = "running"
    /\ UNCHANGED <<status, waitLine, streams, output>>

\* The select of waitOnTimeout.
Exited ==
    /\ main \in {"wait", "killing"} /\ task = "exited" /\ ~status
    /\ status' = TRUE /\ main' = "delete"
    /\ UNCHANGED <<task, waitLine, streams, output>>

LineDetected ==
    /\ main = "wait" /\ scanner = "send"
    /\ main' = "kill" /\ scanner' = "scan"
    /\ UNCHANGED <<task, status, waitLine, streams, copier, lines>>

Timeout ==
    /\ main = "wait" /\ main' = "kill"
    /\ UNCHANGED <<task, status, waitLine, streams, output>>

\* killTask: the signal, then the status or five seconds.
KillTask ==
    /\ main = "kill" /\ main' = "killing"
    /\ task' = IF task = "running" THEN "killed" ELSE task
    /\ UNCHANGED <<status, waitLine, streams, output>>

KillTimeout ==
    /\ main = "killing" /\ main' = "returned"
    /\ UNCHANGED <<task, status, waitLine, streams, output>>

\* task.Delete lets the copy of the output finish.
DeleteTask ==
    /\ main = "delete" /\ copier = "done" /\ main' = "returned"
    /\ UNCHANGED <<task, status, waitLine, streams, output>>

-----------------------------------------------------------------------------
(* lazyReadCloser.Read *)

Check ==
    /\ reader = "check"
    /\ reader' = IF initialized THEN "read" ELSE "lock"
    /\ UNCHANGED <<main, task, status, waitLine, closer, initialized, waiting, condL, reads, stdin, output>>

LockCheck ==
    /\ reader = "lock"
    /\ condL' = ~initialized
    /\ reader' = IF initialized THEN "read" ELSE "wait"
    /\ UNCHANGED <<main, task, status, waitLine, closer, initialized, waiting, reads, stdin, output>>

\* Wait joins the waiters and releases the lock; a broadcast wakes it.
Wait ==
    /\ reader = "wait"
    /\ waiting' = TRUE /\ condL' = FALSE /\ reader' = "waiting"
    /\ UNCHANGED <<main, task, status, waitLine, closer, initialized, reads, stdin, output>>

Woken ==
    /\ reader = "waiting" /\ ~waiting
    /\ reader' = "read"
    /\ UNCHANGED <<main, task, status, waitLine, closer, initialized, waiting, condL, reads, stdin, output>>

\* A read of stdin, or its end, which closes the container's stdin.
ReadStdin ==
    /\ reader = "read"
    /\ \/ reads < MaxReads /\ reads' = reads + 1 /\ reader' = "check"
       \/ reader' = "eof" /\ UNCHANGED reads
    /\ UNCHANGED <<main, task, status, waitLine, closer, initialized, waiting, condL, stdin, output>>

CloseIO ==
    /\ reader = "eof" /\ closer
    /\ stdin' = "closed" /\ reader' = "done"
    /\ UNCHANGED <<main, task, status, waitLine, closer, initialized, waiting, condL, reads, output>>

-----------------------------------------------------------------------------
(* The container: it writes lines, may wait for its stdin and exits.       *)

WriteLine ==
    /\ task \in {"running", "killed"} /\ copier = "read" /\ lines < MaxLines
    /\ lines' = lines + 1 /\ copier' = IF waitLine THEN "write" ELSE "read"
    /\ UNCHANGED <<main, task, status, waitLine, streams, scanner>>

Exit ==
    /\ task = "killed" \/ (task = "running" /\ stdin = "closed")
    /\ task' = "exited"
    /\ UNCHANGED <<main, status, waitLine, streams, output>>

\* The output of a task that has exited ends.
EndOutput ==
    /\ copier = "read" /\ task = "exited" /\ copier' = "done"
    /\ UNCHANGED <<main, task, status, waitLine, streams, scanner, lines>>

\* The line waiter's goroutine takes a line off the pipe; it hands over one that matches.
ScanLine ==
    /\ scanner = "scan" /\ copier = "write"
    /\ copier' = "read" /\ scanner' \in {"scan", "send"}
    /\ UNCHANGED <<main, task, status, waitLine, streams, lines>>

Finished ==
    /\ main = "returned" /\ UNCHANGED ioVars

IONext ==
    \/ NewTask \/ RegisterCloser \/ StartTask
    \/ Exited \/ LineDetected \/ Timeout \/ KillTask \/ KillTimeout \/ DeleteTask
    \/ Check \/ LockCheck \/ Wait \/ Woken \/ ReadStdin \/ CloseIO
    \/ WriteLine \/ Exit \/ EndOutput \/ ScanLine
    \/ Finished

IOSpec == IOInit /\ [][IONext]_ioVars

-----------------------------------------------------------------------------
(* Properties. *)

\* The end of stdin finds its closer: a reader that sees the flag, or is woken, runs
\* after the closer has been set, although the two take no common lock.
CloserIsSet ==
    reader = "eof" => closer
=============================================================================
