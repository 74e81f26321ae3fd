------------------------------- MODULE Analyzer -------------------------------
(***************************************************************************)
(* The analyzer (analyzer/analyzer.go): Analyze runs a container of an     *)
(* image and records, with the image recorder, the files it opens.  The    *)
(* fanotifier, a process in the container's mount namespace, sends a file  *)
(* descriptor for every event over a pipe; a goroutine of the analyzer     *)
(* resolves it through /proc, acknowledges it and records the path.        *)
(*                                                                         *)
(* The container runs in AnalyzerIO; here it starts, opens files and ends. *)
(***************************************************************************)
EXTENDS Integers, Sequences, SequencesExt

CONSTANTS
    Paths,       \* the files the container opens
    Layers,      \* the number of layers of the image
    Images,      \* the contents of the image: layer -> its entries
    Fds,         \* descriptor numbers of the fanotifier process
    MaxOpens,    \* bounds the files the container opens
    None

AnalyzerAssumption == None \notin Paths /\ Layers \in Nat /\ MaxOpens \in Nat

VARIABLES
    index,       \* the recorder's index: layer -> its entries
    main,        \* where Analyze is
    task,        \* the container's task
    service,     \* where the fanotifier process is
    marked,      \* the mount is monitored
    events,      \* the queue of the fanotify descriptor: paths
    batch,       \* what the service has read of it: descriptors
    fds,         \* the open files of the fanotifier process
    toService, toClient,   \* the pipes
    client,      \* [pc, fd, path]: the goroutine that records
    closed,      \* fanotifier.Close has run
    record,      \* what the recorder wrote: <<path, layer>>
    committed,
    opened       \* history: what the container opened and the kernel did not drop

fanotifier == <<service, marked, events, batch, fds>>
pipes == <<toService, toClient>>
vars == <<index, main, task, fanotifier, pipes, client, closed, record, committed, opened>>

\* A file, the whiteout of one, and the mark of an opaque directory.
Entries == ({"file", "wh"} \X Paths) \cup {<<"opaque", None>>}

Init ==
    /\ index \in Images
    /\ main = "spawned" /\ task = "created"
    /\ service = "waitstart"
    /\ marked = FALSE /\ events = <<>> /\ batch = <<>> /\ fds = [f \in Fds |-> None]
    /\ toService = <<>> /\ toClient = <<>>
    /\ client = [pc |-> "none", fd |-> None, path |-> None]
    /\ closed = FALSE /\ record = <<>> /\ committed = FALSE /\ opened = <<>>

-----------------------------------------------------------------------------
(* The recorder. *)

Deleted(l, p) == <<"wh", p>> \in index[l] \/ <<"opaque", None>> \in index[l]

\* The search of Record, from the top layer down: 0 when the file is not recorded.
RecordedLayer(p) ==
    LET Stops(l) == <<"file", p>> \in index[l] \/ Deleted(l, p)
        last == CHOOSE l \in 0 .. Layers :
                  /\ l = 0 \/ Stops(l)
                  /\ \A k \in (l + 1) .. Layers : ~Stops(k)
    IN IF last > 0 /\ <<"file", p>> \in index[last] THEN last ELSE 0

-----------------------------------------------------------------------------
(* Analyze.  An early return runs the deferred Close of the fanotifier.    *)

\* The end of the fanotifier process, which ends the monitoring.
Die ==
    /\ service' = "dead"
    /\ marked' = FALSE /\ events' = <<>> /\ batch' = <<>> /\ fds' = [f \in Fds |-> None]
    /\ toService' = <<>>

CloseFanotifier ==
    /\ closed' = TRUE
    /\ Die

GiveUp ==
    /\ main \in {"spawned", "starting", "started"}
    /\ main' = "failed" /\ CloseFanotifier
    /\ UNCHANGED <<index, task, toClient, client, record, committed, opened>>

\* Client.Start asks the service to monitor the mount ...
StartFanotifier ==
    /\ main = "spawned" /\ main' = "starting"
    /\ toService' = Append(toService, "start")
    /\ UNCHANGED <<index, task, fanotifier, toClient, client, closed, record, committed, opened>>

\* ... and waits for its answer; the goroutine that records starts after it.
Started ==
    /\ main = "starting" /\ toClient # <<>> /\ Head(toClient) = <<"started", None>>
    /\ main' = "started" /\ toClient' = Tail(toClient)
    /\ client' = [client EXCEPT !.pc = "scan"]
    /\ UNCHANGED <<index, task, fanotifier, toService, closed, record, committed, opened>>

StartTask ==
    /\ main = "started" /\ main' = "waiting" /\ task' = "running"
    /\ UNCHANGED <<index, fanotifier, pipes, client, closed, record, committed, opened>>

\* The task has exited and is deleted, or could not be killed and goes on.
EndWait ==
    /\ main = "waiting" /\ main' = "ended"
    /\ task' \in {"running", "exited"}
    /\ UNCHANGED <<index, fanotifier, pipes, client, closed, record, committed, opened>>

Close ==
    /\ main = "ended" /\ main' = "closed"
    /\ CloseFanotifier
    /\ UNCHANGED <<index, task, toClient, client, record, committed, opened>>

Commit ==
    /\ main = "closed" /\ main' = "returned" /\ committed' = TRUE
    /\ UNCHANGED <<index, task, fanotifier, pipes, client, closed, record, opened>>

-----------------------------------------------------------------------------
(* The container opens a file: an event while the mount is monitored.  An  *)
(* open after the fanotifier's end, or one the kernel drops because the    *)
(* queue is full, is nobody's to record.                                   *)

Open(p) ==
    /\ task = "running" /\ service # "dead" /\ Len(opened) < MaxOpens
    /\ opened' = Append(opened, p)
    /\ events' = IF marked THEN Append(events, p) ELSE events
    /\ UNCHANGED <<index, main, task, service, marked, batch, fds, pipes, client, closed, record, committed>>

-----------------------------------------------------------------------------
(* Serve, in the fanotifier process. *)

WaitStart ==
    /\ service = "waitstart" /\ toService # <<>>
    /\ toService' = Tail(toService) /\ service' = "mark"
    /\ UNCHANGED <<index, main, task, marked, events, batch, fds, toClient, client, closed, record, committed, opened>>

\* Mutant: the service tells that it has started before it monitors the mount.
MarkLate ==
    /\ \/ /\ service = "mark" /\ service' = "late"
          /\ toClient' = Append(toClient, <<"started", None>>)
          /\ UNCHANGED marked
       \/ service = "late" /\ service' = "read" /\ marked' = TRUE /\ UNCHANGED toClient
    /\ UNCHANGED <<index, main, task, events, batch, fds, toService, client, closed, record, committed, opened>>

Mark ==
    /\ service = "mark" /\ service' = "started" /\ marked' = TRUE
    /\ UNCHANGED <<index, main, task, events, batch, fds, pipes, client, closed, record, committed, opened>>

SendStarted ==
    /\ service = "started" /\ service' = "read"
    /\ toClient' = Append(toClient, <<"started", None>>)
    /\ UNCHANGED <<index, main, task, marked, events, batch, fds, toService, client, closed, record, committed, opened>>

\* A read of the fanotify descriptor opens a descriptor for each event it returns.
ReadEvents ==
    /\ service = "read" /\ batch = <<>> /\ events # <<>>
    /\ \E n \in 1 .. Len(events) : \E b \in [1 .. n -> {f \in Fds : fds[f] = None}] :
         /\ IsInjective(b)
         /\ batch' = b /\ events' = SubSeq(events, n + 1, Len(events))
         /\ fds' = [f \in Fds |-> IF \E i \in DOMAIN b : b[i] = f
                                 THEN events[CHOOSE i \in DOMAIN b : b[i] = f] ELSE fds[f]]
    /\ UNCHANGED <<index, main, task, service, marked, pipes, client, closed, record, committed, opened>>

SendFd ==
    /\ service = "read" /\ batch # <<>>
    /\ toClient' = Append(toClient, <<"fd", Head(batch)>>) /\ service' = "ack"
    /\ UNCHANGED <<index, main, task, marked, events, batch, fds, toService, client, closed, record, committed, opened>>

\* The answer of the client; then the descriptor is closed.
GetAck ==
    /\ service = "ack" /\ toService # <<>>
    /\ toService' = Tail(toService) /\ service' = "read"
    /\ fds' = [fds EXCEPT ![Head(batch)] = None] /\ batch' = Tail(batch)
    /\ UNCHANGED <<index, main, task, marked, events, toClient, client, closed, record, committed, opened>>

\* The mark fails, or no answer comes in time.
ServiceFails ==
    /\ service \in {"mark", "ack"} /\ Die
    /\ UNCHANGED <<index, main, task, toClient, client, closed, record, committed, opened>>

-----------------------------------------------------------------------------
(* The goroutine that records. *)

\* GetPath: the next message, or the end of the pipe.
Scan ==
    /\ client.pc = "scan"
    /\ \/ /\ toClient # <<>>
          /\ toClient' = Tail(toClient)
          /\ client' = IF Head(toClient)[1] # "fd" THEN [client EXCEPT !.pc = "done"]
                       ELSE [client EXCEPT !.pc = "readlink", !.fd = Head(toClient)[2]]
       \/ /\ closed \/ (service = "dead" /\ toClient = <<>>)
          /\ client' = [client EXCEPT !.pc = "done"] /\ UNCHANGED toClient
    /\ UNCHANGED <<index, main, task, fanotifier, toService, closed, record, committed, opened>>

Readlink ==
    /\ client.pc = "readlink"
    /\ client' = IF fds[client.fd] = None THEN [client EXCEPT !.pc = "done", !.fd = None]
                 ELSE [client EXCEPT !.pc = "answer", !.path = fds[client.fd], !.fd = None]
    /\ UNCHANGED <<index, main, task, fanotifier, pipes, closed, record, committed, opened>>

\* The answer; the path is dropped with the error when the pipe is broken.
SendAck ==
    /\ client.pc = "answer"
    /\ IF service = "dead" THEN client' = [client EXCEPT !.pc = "done", !.path = None] /\ UNCHANGED toService
       ELSE client' = [client EXCEPT !.pc = "record"] /\ toService' = Append(toService, "ack")
    /\ UNCHANGED <<index, main, task, fanotifier, toClient, closed, record, committed, opened>>

\* ImageRecorder.Record; a write to a committed record fails.
Record ==
    /\ client.pc = "record"
    /\ client' = [client EXCEPT !.pc = "scan", !.path = None]
    /\ record' = IF RecordedLayer(client.path) = 0 \/ committed THEN record
                 ELSE Append(record, <<client.path, RecordedLayer(client.path)>>)
    /\ UNCHANGED <<index, main, task, fanotifier, pipes, closed, committed, opened>>

Finished ==
    /\ main \in {"returned", "failed"} /\ client.pc \in {"none", "done"}
    /\ UNCHANGED vars

Next ==
    \/ GiveUp \/ StartFanotifier \/ Started \/ StartTask \/ EndWait \/ Close \/ Commit
    \/ \E p \in Paths : Open(p)
    \/ WaitStart \/ Mark \/ SendStarted \/ ReadEvents \/ SendFd \/ GetAck \/ ServiceFails
    \/ Scan \/ Readlink \/ SendAck \/ Record
    \/ Finished

Spec == Init /\ [][Next]_vars

-----------------------------------------------------------------------------
(* Properties. *)

\* The layer that provides the file in the union of the layers, from the bottom up.
VisibleLayer(p) ==
    FoldLeft(LAMBDA below, l : IF <<"file", p>> \in index[l] THEN l ELSE IF Deleted(l, p) THEN 0 ELSE below,
             0, [l \in 1 .. Layers |-> l])

\* The record is what the container opened, from its first open on, in order, without
\* gaps and each with the layer that provides it: no open precedes the monitoring, and
\* a descriptor is not closed or used again before its path is known.
RecordIsPrefixOfOpens ==
    LET visible == SelectSeq(opened, LAMBDA p : VisibleLayer(p) > 0)
    IN IsPrefix(record, [i \in DOMAIN visible |-> <<visible[i], VisibleLayer(visible[i])>>])
=============================================================================
