-------------------------- MODULE InstrumentMaster --------------------------
(***************************************************************************)
(* AngelOneInstrumentMaster of app/brokers/angel_one_instruments.py: the   *)
(* scrip master in memory, in a file and at the vendor, behind one lock.   *)
(* A caller's coroutine is cut where it waits for the lock and where it    *)
(* waits for the download; reading and writing the file do not wait, but   *)
(* the process may die in the middle of a write.                           *)
(*                                                                         *)
(* A scrip master is known by its edition, a number; 0 is none.            *)
(***************************************************************************)
EXTENDS ScripRows

CONSTANTS
    Callers,   \* coroutines that use the instrument master
    Editions,  \* the vendor's scrip masters, the contents of each a set of rows
    Ttl,       \* ttl_seconds
    MaxTime    \* bound: how far the clock runs

ASSUME InstrumentMasterAssumption ==
    /\ Len(Editions) \in Nat \ {0}
    /\ \A e \in 1..Len(Editions) : SymbolsAreUnique(Editions[e])
    /\ {Ttl, MaxTime} \subseteq Nat

VARIABLES
    now,        \* the clock
    published,  \* the edition the vendor serves
    file,       \* the cache file: [edition, at, torn]
    rows,       \* _rows
    index,      \* _index: the edition it was built from
    loadLock,   \* _load_lock: its holder, then those waiting for it
    loads,      \* where each caller's call of rows or resolve is suspended
    downloads   \* history: downloads that have succeeded in this process

diskVars == <<now, published, file>>
masterVars == <<diskVars, rows, index, loadLock, loads, downloads>>

NoFile == [edition |-> 0, at |-> 0, torn |-> FALSE]

RowsOf(edition) == IF edition = 0 THEN {} ELSE Editions[edition]

\* A caller leaves the queue of a lock, in which it is at most once.
Without(queue, c) ==
    LET at == CHOOSE i \in 1..Len(queue) : queue[i] = c
    IN  IF \E i \in 1..Len(queue) : queue[i] = c
        THEN SubSeq(queue, 1, at - 1) \o SubSeq(queue, at + 1, Len(queue))
        ELSE queue

\* _read_cache: nothing if the file is old, torn or not there.
CachedEdition ==
    IF file.torn \/ now - file.at > Ttl THEN 0 ELSE file.edition

\* A caller joins the queue for the lock.
WaitsForRows(c) ==
    /\ loads' = [loads EXCEPT ![c] = "queued"]
    /\ loadLock' = Append(loadLock, c)

\* Mutant of UnlocksLoad: a failing download keeps the lock.
UnlocksLoadAfterwards(c) == loadLock' = IF loads[c] = "downloading" THEN loadLock ELSE Without(loadLock, c)

UnlocksLoad(c) == loadLock' = Without(loadLock, c)

\* The call is over: with the rows, by the failure of its download, or because
\* its task is cancelled.
LoadOver(c) ==
    /\ loads' = [loads EXCEPT ![c] = "idle"]
    /\ UnlocksLoad(c)

\* Mutant of InMemory: the rows are not kept.
InMemoryNever == 0

InMemory == rows

\* What the holder of the lock finds in memory or in the file.
FoundEdition == IF InMemory # 0 THEN InMemory ELSE CachedEdition

HoldsLoadLock(c) == loads[c] = "queued" /\ loadLock # <<>> /\ Head(loadLock) = c

FindsRows(c) ==
    /\ HoldsLoadLock(c)
    /\ FoundEdition # 0
    /\ rows' = FoundEdition
    /\ LoadOver(c)
    /\ UNCHANGED <<diskVars, downloads>>

BeginsDownload(c) ==
    /\ HoldsLoadLock(c)
    /\ FoundEdition = 0
    /\ loads' = [loads EXCEPT ![c] = "downloading"]
    /\ UNCHANGED <<diskVars, rows, index, loadLock, downloads>>

\* The download has arrived; it is written to the file, or only a part of it
\* is when the disk is full, or the file cannot be opened.
Downloaded(c) ==
    /\ loads[c] = "downloading"
    /\ \E written \in {"whole", "torn", "not"} :
         file' = IF written = "not" THEN file
                 ELSE [edition |-> published, at |-> now, torn |-> written = "torn"]
    /\ rows' = published
    /\ downloads' = downloads + 1
    /\ LoadOver(c)
    /\ UNCHANGED <<now, published>>

\* The process dies and starts again; a write it was busy with leaves a torn
\* file.
MasterRestarts ==
    /\ rows' = 0 /\ index' = 0
    /\ loadLock' = <<>>
    /\ loads' = [c \in Callers |-> "idle"]
    /\ downloads' = 0
    /\ \/ UNCHANGED file
       \/ /\ \E c \in Callers : loads[c] = "downloading"
          /\ file' = [edition |-> published, at |-> now, torn |-> TRUE]
    /\ UNCHANGED <<now, published>>

TimePasses ==
    /\ now < MaxTime
    /\ now' = now + 1
    /\ published' \in {published, published + 1} \cap 1..Len(Editions)
    /\ UNCHANGED <<file, rows, index, loadLock, loads, downloads>>

MasterInit ==
    /\ now = 0 /\ published = 1
    /\ file \in {NoFile, [edition |-> 1, at |-> 0, torn |-> FALSE]}
    /\ rows = 0 /\ index = 0
    /\ loadLock = <<>>
    /\ loads = [c \in Callers |-> "idle"]
    /\ downloads = 0

-----------------------------------------------------------------------------
(***************************************************************************)
(* Properties.                                                             *)
(***************************************************************************)
\* Callers that find nothing in memory at once share one download, and nothing
\* is downloaded again while the process lives.
DownloadsAreShared == downloads <= 1
=============================================================================
