--------------------------- MODULE DirectoryCache ---------------------------
(***************************************************************************)
(* cache/cache.go: directoryCache, the chunk cache behind layers and       *)
(* blobs.  Data is looked up in memory, then in the open files, then in    *)
(* the directory; an added chunk goes to memory at once and to the         *)
(* directory by a commit that runs in the background (or, with SyncAdd,    *)
(* before Commit returns).                                                 *)
(*                                                                         *)
(* The two LRU caches are used through what LRUCache implements            *)
(* (RefCounted): an object is handed to OnEvicted in the step in which it  *)
(* is neither cached nor referred to any more.  A client is one call of    *)
(* Get or Add and what follows it until the reader is closed or the commit *)
(* is over.  The data of a chunk is its key.                               *)
(***************************************************************************)
EXTENDS Naturals, FiniteSets

CONSTANTS Clients, Keys,
          Bufs,         \* bytes.Buffer objects, numbered
          Files,        \* os.File objects, numbered
          DataEntries,  \* size of the cache of buffers
          FdEntries,    \* size of the cache of open files
          Nil

ASSUME CacheAssumption == Nil \notin Bufs /\ Nil \notin Files

VARIABLES
    direct,     \* dc.direct, which is set whenever passthrough is (main.go:153)
    pass,       \* whether readers may be opened for FUSE passthrough
    closed,     \* "open", "closing" (RemoveAll runs, closedMu is held) or "closed"
    disk,       \* disk[k]: content of the committed file of k, or Nil
    wip,        \* wip[c]: content of the temporary file of c, or Nil
    pool,       \* the buffers nobody owns
    buf,        \* content of each buffer
    dataCache,  \* dc.cache: key to buffer
    fds,        \* dc.fileCache: key to file
    content,    \* content of each file that was opened
    opened,     \* the files whose descriptor is open
    pc, key,    \* where a client is, and the key it works on
    obj         \* the buffer or the file of a client

directoryCacheVars == <<direct, pass, closed, disk, wip, pool, buf, dataCache, fds, content, opened, pc, key, obj>>
bufVars == <<pool, buf, dataCache>>
fdVars == <<fds, content, opened>>
dirVars == <<disk, wip>>

config == <<direct, pass>>

Contents == Keys \cup {"empty", "partial"}

\* A cache that nobody has used yet.
CacheIdle ==
    /\ closed = "open"
    /\ disk = [k \in Keys |-> Nil] /\ wip = [c \in Clients |-> Nil]
    /\ pool = Bufs /\ buf = [b \in Bufs |-> "empty"]
    /\ dataCache = [k \in Keys |-> Nil] /\ fds = [k \in Keys |-> Nil]
    /\ content = [f \in Files |-> "empty"] /\ opened = {}
    /\ pc = [c \in Clients |-> "idle"] /\ obj = [c \in Clients |-> Nil]

CacheInit == direct \in BOOLEAN /\ pass \in {FALSE, direct} /\ key \in [Clients -> Keys] /\ CacheIdle

\* A client moves on with object o.
Move(c, to, o) ==
    /\ pc' = [pc EXCEPT ![c] = to]
    /\ obj' = [obj EXCEPT ![c] = o]

\* An object that nobody has: which one does not matter.
Unowned(objects) == CHOOSE o \in objects : TRUE

InCache(cache, o) == \E k \in Keys : cache[k] = o

\* The caches that adding o for k to a cache of n entries can lead to.
Inserted(cache, k, o, n) ==
    LET full == {j \in Keys : cache[j] # Nil} IN
    IF Cardinality(full) < n THEN {[cache EXCEPT ![k] = o]}
    ELSE {[cache EXCEPT ![j] = Nil, ![k] = o] : j \in full}

\* Mutant: the background commit keeps no reference to the buffer.
BufReferredEarly(b) ==
    \/ InCache(dataCache, b)
    \/ \E c \in Clients : pc[c] = "readBuf" /\ obj[c] = b

\* References that done functions still have to give back.
BufReferred(b) ==
    \/ InCache(dataCache, b)
    \/ \E c \in Clients : pc[c] \in {"readBuf", "fill", "checkClosed", "rename"} /\ obj[c] = b
FdReferred(f) ==
    \/ InCache(fds, f)
    \/ \E c \in Clients : pc[c] = "readFd" /\ obj[c] = f

\* The buffers in put are reset and go to the pool, and so do those whose last
\* reference goes in this step (the OnEvicted of dc.cache).
RecycleBufs(put) ==
    LET dead == put \cup {b \in Bufs : BufReferred(b) /\ ~BufReferred(b)'} IN
    /\ pool' = pool \cup dead
    /\ buf' = [b \in Bufs |-> IF b \in dead THEN "empty" ELSE buf[b]]

\* Likewise for files (the OnEvicted of dc.fileCache).
CloseFiles(shut) ==
    LET dead == shut \cup {f \in Files : FdReferred(f) /\ ~FdReferred(f)'} IN
    /\ opened' = opened \ dead
    /\ content' = [f \in Files |-> IF f \in dead THEN "empty" ELSE content[f]]

-----------------------------------------------------------------------------
(* Get *)

\* The closed check; isClosed waits while Close holds closedMu.
Get(c, k, opt) ==
    /\ pc[c] = "idle" /\ closed = "open"
    /\ key' = [key EXCEPT ![c] = k]
    /\ Move(c, IF direct \/ opt THEN "openDirect" ELSE "lookup", Nil)
    /\ UNCHANGED <<closed, dirVars, bufVars, fdVars>>

\* In memory, with a reference to the buffer.
LookupData(c) ==
    LET b == dataCache[key[c]] IN
    /\ pc[c] = "lookup"
    /\ IF b # Nil THEN Move(c, "readBuf", b) ELSE Move(c, "lookupFd", Nil)
    /\ UNCHANGED <<closed, key, dirVars, bufVars, fdVars>>

\* Among the open files, with a reference to the file.
LookupFd(c) ==
    LET f == fds[key[c]] IN
    /\ pc[c] = "lookupFd"
    /\ IF f # Nil THEN Move(c, "readFd", f) ELSE Move(c, "openFile", Nil)
    /\ UNCHANGED <<closed, key, dirVars, bufVars, fdVars>>

\* In the directory; an error when there is no file.
OpenFile(c) ==
    LET k == key[c] IN
    /\ pc[c] \in {"openFile", "openDirect"}
    /\ IF disk[k] = Nil
       THEN Move(c, "idle", Nil) /\ UNCHANGED fdVars
       ELSE LET f == Unowned(Files \ opened) IN
              /\ Files \ opened # {}
              /\ opened' = opened \cup {f}
              /\ content' = [content EXCEPT ![f] = disk[k]]
              /\ IF pc[c] = "openFile" THEN Move(c, "readFile", f)
                 ELSE \E p \in {"readDirect"} \cup (IF pass THEN {"readPass"} ELSE {}) :
                        Move(c, p, f)
              /\ UNCHANGED fds
    /\ UNCHANGED <<closed, key, dirVars, bufVars>>

\* closeFunc of a reader on a buffer or on a file of the cache: done().
CloseCached(c) ==
    /\ pc[c] \in {"readBuf", "readFd"}
    /\ Move(c, "idle", Nil)
    /\ UNCHANGED <<closed, key, dirVars, dataCache, fds>>
    /\ RecycleBufs({}) /\ CloseFiles({})

\* Mutant: the file is closed after it went to the cache.
CloseOpenedShut(c) ==
    /\ pc[c] = "readFile"
    /\ Move(c, "idle", Nil)
    /\ UNCHANGED <<closed, key, dirVars, bufVars>>
    /\ fds' \in IF fds[key[c]] = Nil THEN Inserted(fds, key[c], obj[c], FdEntries) ELSE {fds}
    /\ CloseFiles({obj[c]})

\* closeFunc of a reader on a file it has opened: the file goes to the cache,
\* or is closed when the cache has one.
CloseOpened(c) ==
    /\ pc[c] = "readFile"
    /\ Move(c, "idle", Nil)
    /\ UNCHANGED <<closed, key, dirVars, bufVars>>
    /\ IF fds[key[c]] = Nil
       THEN fds' \in Inserted(fds, key[c], obj[c], FdEntries) /\ CloseFiles({})
       ELSE UNCHANGED fds /\ CloseFiles({obj[c]})

\* closeFunc in direct mode: close the file, or leave its descriptor to
\* go-fuse, which owns it from then on.
CloseDirect(c) ==
    /\ pc[c] \in {"readDirect", "readPass"}
    /\ Move(c, "idle", Nil)
    /\ opened' = opened \ {obj[c]}
    /\ content' = [content EXCEPT ![obj[c]] = "empty"]
    /\ UNCHANGED <<closed, key, dirVars, bufVars, fds>>

-----------------------------------------------------------------------------
(* Add *)

\* The closed check.
Add(c, k, opt) ==
    /\ pc[c] = "idle" /\ closed = "open"
    /\ key' = [key EXCEPT ![c] = k]
    /\ Move(c, IF direct \/ opt THEN "createDirect" ELSE "create", Nil)
    /\ UNCHANGED <<closed, dirVars, bufVars, fdVars>>

\* wipFile, which fails once the directory is gone, and a buffer of the pool.
Create(c) ==
    /\ pc[c] \in {"create", "createDirect"}
    /\ \/ /\ closed # "open"
          /\ Move(c, "idle", Nil)
          /\ UNCHANGED <<wip, pool>>
       \/ /\ closed # "closed"
          /\ wip' = [wip EXCEPT ![c] = "empty"]
          /\ IF pc[c] = "createDirect" THEN Move(c, "writeFile", Nil) /\ UNCHANGED pool
             ELSE LET b == Unowned(pool) IN
                    pool # {} /\ pool' = pool \ {b} /\ Move(c, "writeBuf", b)
    /\ UNCHANGED <<closed, key, disk, buf, dataCache, fdVars>>

More(c, x) == IF x = "empty" THEN "partial" ELSE key[c]

\* The client writes the chunk in two parts.  Writing to an unlinked temporary
\* file has no effect on the directory.
Write(c) ==
    \/ /\ pc[c] = "writeBuf" /\ buf[obj[c]] \in {"empty", "partial"}
       /\ buf' = [buf EXCEPT ![obj[c]] = More(c, @)]
       /\ UNCHANGED <<closed, pc, key, obj, dirVars, pool, dataCache, fdVars>>
    \/ /\ pc[c] = "writeFile" /\ wip[c] \in {"empty", "partial"}
       /\ wip' = [wip EXCEPT ![c] = More(c, @)]
       /\ UNCHANGED <<closed, pc, key, obj, disk, bufVars, fdVars>>

\* Abort of either writer.
Abort(c) ==
    /\ pc[c] \in {"writeBuf", "writeFile"}
    /\ wip' = [wip EXCEPT ![c] = Nil]
    /\ Move(c, "idle", Nil)
    /\ UNCHANGED <<closed, key, disk, dataCache, fdVars>>
    /\ RecycleBufs({obj[c]} \cap Bufs)

\* Commit of the memory writer: the buffer goes to the cache, or back to the
\* pool when the cache has the chunk already; the file is committed from the
\* cached buffer, with a reference to it.
CommitBuf(c) ==
    LET k == key[c]
        b == obj[c]
    IN /\ pc[c] = "writeBuf" /\ buf[b] = k /\ closed # "closing"
       /\ IF closed = "closed"
          THEN /\ Move(c, "idle", Nil) /\ UNCHANGED dataCache
               /\ RecycleBufs({b})   \* left to the garbage collector
          ELSE /\ dataCache' \in IF dataCache[k] = Nil THEN Inserted(dataCache, k, b, DataEntries) ELSE {dataCache}
               /\ Move(c, "fill", dataCache'[k])
               /\ RecycleBufs(IF dataCache[k] = Nil THEN {} ELSE {b})
       /\ UNCHANGED <<closed, key, dirVars, fdVars>>

\* w.Write of the whole buffer.  Writing may fail: the file is aborted.
Fill(c) ==
    /\ pc[c] = "fill"
    /\ \/ /\ Move(c, "checkClosed", obj[c])
          /\ wip' = [wip EXCEPT ![c] = IF @ = Nil THEN Nil ELSE buf[obj[c]]]
       \/ /\ Move(c, "idle", Nil)
          /\ wip' = [wip EXCEPT ![c] = Nil]
    /\ UNCHANGED <<closed, key, disk, dataCache, fdVars>>
    /\ RecycleBufs({})

\* Commit of the file writer: the closed check, then the rename.
CommitFile(c) ==
    /\ \/ pc[c] = "checkClosed"
       \/ pc[c] = "writeFile" /\ wip[c] \in {key[c], Nil}
    /\ closed # "closing"
    /\ IF closed = "closed" THEN Move(c, "idle", Nil) ELSE Move(c, "rename", obj[c])
    /\ UNCHANGED <<closed, key, dirVars, dataCache, fdVars>>
    /\ RecycleBufs({})

\* os.Rename, which fails when RemoveAll has removed the temporary file; then
\* done().
Rename(c) ==
    /\ pc[c] = "rename"
    /\ disk' = IF wip[c] = Nil THEN disk ELSE [disk EXCEPT ![key[c]] = wip[c]]
    /\ wip' = [wip EXCEPT ![c] = Nil]
    /\ Move(c, "idle", Nil)
    /\ UNCHANGED <<closed, key, dataCache, fdVars>>
    /\ RecycleBufs({})

\* Close: RemoveAll removes the committed files and then the temporary ones.
\* Its order is arbitrary; in this one a commit can slip through.
Close ==
    /\ \/ closed = "open" /\ closed' = "closing"
          /\ disk' = [k \in Keys |-> Nil] /\ UNCHANGED wip
       \/ closed = "closing" /\ closed' = "closed"
          /\ wip' = [c \in Clients |-> Nil] /\ UNCHANGED disk
    /\ UNCHANGED <<pc, key, obj, bufVars, fdVars>>

-----------------------------------------------------------------------------
CacheStep ==
    \/ \E c \in Clients, k \in Keys, opt \in BOOLEAN : Get(c, k, opt) \/ Add(c, k, opt)
    \/ \E c \in Clients :
         \/ LookupData(c) \/ LookupFd(c) \/ OpenFile(c)
         \/ CloseCached(c) \/ CloseOpened(c) \/ CloseDirect(c)
         \/ Create(c) \/ Write(c) \/ Abort(c) \/ CommitBuf(c) \/ Fill(c)
         \/ CommitFile(c) \/ Rename(c)
    \/ Close

\* The configuration of a cache does not change.
CacheNext == CacheStep /\ UNCHANGED config

CacheSpec == CacheInit /\ [][CacheNext]_directoryCacheVars

-----------------------------------------------------------------------------
PC == {"idle", "lookup", "lookupFd", "openFile", "openDirect", "readBuf", "readFd",
       "readFile", "readDirect", "readPass", "create", "createDirect", "writeBuf",
       "writeFile", "fill", "checkClosed", "rename"}

\* Types of all variables.
CacheTypeOK ==
    /\ direct \in BOOLEAN /\ pass \in BOOLEAN /\ closed \in {"open", "closing", "closed"}
    /\ disk \in [Keys -> Contents \cup {Nil}] /\ wip \in [Clients -> Contents \cup {Nil}]
    /\ pool \subseteq Bufs /\ buf \in [Bufs -> Contents]
    /\ dataCache \in [Keys -> Bufs \cup {Nil}] /\ fds \in [Keys -> Files \cup {Nil}]
    /\ opened \subseteq Files /\ content \in [Files -> Contents]
    /\ pc \in [Clients -> PC] /\ key \in [Clients -> Keys]
    /\ obj \in [Clients -> Bufs \cup Files \cup {Nil}]

\* Every open descriptor is in the cache or in use by a reader.
NoDescriptorLeak ==
    \A f \in opened :
        FdReferred(f) \/ \E c \in Clients :
            obj[c] = f /\ pc[c] \in {"readFile", "readDirect", "readPass"}

\* A reader sees the chunk it asked for from Get until Close, however often
\* the chunk is evicted, re-added or removed meanwhile: its buffer is not
\* reset and reused (cache.go:146), its file is not closed (cache.go:158).
\* Nor does a file stay open that no reader and no entry of the cache has.
ReadersSeeTheirChunk ==
    /\ NoDescriptorLeak
    /\ \A c \in Clients :
        /\ pc[c] = "readBuf" => buf[obj[c]] = key[c]
        /\ pc[c] \in {"readFd", "readFile", "readDirect", "readPass"} =>
               obj[c] \in opened /\ content[obj[c]] = key[c]

\* A file of the directory is a whole chunk, and the right one: neither a part
\* of it nor what a reused buffer has become.
CommittedFilesAreWhole == \A k \in Keys : disk[k] \in {k, Nil}
=============================================================================
