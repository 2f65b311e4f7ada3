---------------------------- MODULE SnapshotCache ----------------------------
(***************************************************************************)
(* The cache of one snapshot on disk (ecfr/client.py: snapshot_xml and     *)
(* _write_atomic), which the handler of its job reads or fills.            *)
(*                                                                         *)
(* A fetcher is a worker process: within one, _write_atomic has no await   *)
(* and is not interrupted.  Two fetch the same date when the lease of one  *)
(* has run out.  A file is an object apart from the names that lead to it, *)
(* and holds some parts of the body, which is the same for everybody: a    *)
(* past snapshot is immutable.                                             *)
(***************************************************************************)
EXTENDS Integers, Sequences, FiniteSets

CONSTANTS
    Fetchers,   \* worker processes
    Parts,      \* how many parts a body has, each written separately
    MaxBodies,  \* bound: how often the snapshot is sent
    MaxFaults   \* bound: deaths of processes and power cuts

ASSUME CacheAssumption ==
    /\ Parts \in Nat \ {0}
    /\ MaxBodies \in Nat
    /\ MaxFaults \in Nat

VARIABLES
    doing,       \* per fetcher, where snapshot_xml is
    handle,      \* the file it has open
    position,    \* how far it has written
    cached,      \* the file at _cache_path, 0 for none
    tmp,         \* the file at the same path with .tmp, 0 for none
    data,        \* the parts in each file
    kept,        \* those of them that were synced
    names,       \* what the two names may lead to after a power cut
    overlapped,  \* observer: one has opened the temporary file between another's open and rename
    interrupted, \* observer: one died while it was writing
    bodies,
    faults

cacheVars == <<doing, handle, position, cached, tmp, data, kept, names,
               overlapped, interrupted, bodies, faults>>

Body == 1..Parts

Doings == {"idle", "get", "open", "write", "replace", "have", "failed"}

CacheInit ==
    /\ doing = [f \in Fetchers |-> "idle"]
    /\ handle = [f \in Fetchers |-> 0]
    /\ position = [f \in Fetchers |-> 0]
    /\ cached = 0
    /\ tmp = 0
    /\ data = <<>>
    /\ kept = <<>>
    /\ names = {<<0, 0>>}
    /\ overlapped = FALSE
    /\ interrupted = FALSE
    /\ bodies = 0
    /\ faults = 0

Become(f, what) == doing' = [doing EXCEPT ![f] = what]

-----------------------------------------------------------------------------
(* snapshot_xml                                                            *)

\* A file at the path is read and trusted; parse_part raises on a part of one.
ReadCache(f) ==
    /\ doing[f] = "idle"
    /\ cached # 0
    /\ Become(f, IF data[cached] = Body THEN "have" ELSE "failed")
    /\ UNCHANGED <<handle, position, cached, tmp, data, kept, names,
                   overlapped, interrupted, bodies, faults>>

MissCache(f) ==
    /\ doing[f] = "idle"
    /\ cached = 0
    /\ Become(f, "get")
    /\ UNCHANGED <<handle, position, cached, tmp, data, kept, names,
                   overlapped, interrupted, bodies, faults>>

\* The response, or an error: a timeout, or a status that raise_for_status refuses.
Respond(f) ==
    /\ doing[f] = "get"
    /\ \/ bodies < MaxBodies /\ bodies' = bodies + 1 /\ Become(f, "open")
       \/ UNCHANGED bodies /\ Become(f, "failed")
    /\ UNCHANGED <<handle, position, cached, tmp, data, kept, names,
                   overlapped, interrupted, faults>>

\* The job is retried, or another asks for the date.
AskAgain(f) ==
    /\ doing[f] \in {"have", "failed"}
    /\ Become(f, "idle")
    /\ UNCHANGED <<handle, position, cached, tmp, data, kept, names,
                   overlapped, interrupted, bodies, faults>>

-----------------------------------------------------------------------------
(* _write_atomic                                                           *)

\* From the open to the rename, between fsync and rename with the file closed.
Writing(f) == doing[f] \in {"write", "replace"}

\* open("wb") makes a file, or empties the one that is there.
OpenTmp(f) ==
    /\ doing[f] = "open"
    /\ IF tmp = 0
       THEN /\ data' = Append(data, {})
            /\ kept' = Append(kept, {})
            /\ tmp' = Len(data')
       ELSE /\ data' = [data EXCEPT ![tmp] = {}]
            /\ kept' = [kept EXCEPT ![tmp] = {}]
            /\ UNCHANGED tmp
    /\ names' = names \union {<<cached, tmp'>>}
    /\ handle' = [handle EXCEPT ![f] = tmp']
    /\ position' = [position EXCEPT ![f] = 0]
    /\ overlapped' = (overlapped \/ \E g \in Fetchers : Writing(g))
    /\ Become(f, "write")
    /\ UNCHANGED <<cached, interrupted, bodies, faults>>

WritePart(f) ==
    /\ doing[f] = "write"
    /\ position[f] < Parts
    /\ position' = [position EXCEPT ![f] = @ + 1]
    /\ data' = [data EXCEPT ![handle[f]] = @ \union {position[f] + 1}]
    /\ UNCHANGED <<doing, handle, cached, tmp, kept, names,
                   overlapped, interrupted, bodies, faults>>

\* Faulty: the data is not synced.
SyncedNot(f) == kept[handle[f]]

Synced(f) == data[handle[f]]

SyncTmp(f) ==
    /\ doing[f] = "write"
    /\ position[f] = Parts
    /\ kept' = [kept EXCEPT ![handle[f]] = Synced(f)]
    /\ Become(f, "replace")
    /\ UNCHANGED <<handle, position, cached, tmp, data, names,
                   overlapped, interrupted, bodies, faults>>

\* os.replace renames whatever file has the temporary name by now.  The directory is not
\* synced, so a power cut may undo it.
ReplaceCached(f) ==
    /\ doing[f] = "replace"
    /\ IF tmp = 0
       THEN Become(f, "failed") /\ UNCHANGED <<cached, tmp, names>>
       ELSE /\ cached' = tmp
            /\ tmp' = 0
            /\ names' = names \union {<<tmp, 0>>}
            /\ Become(f, "have")
    /\ UNCHANGED <<handle, position, data, kept, overlapped, interrupted, bodies, faults>>

-----------------------------------------------------------------------------
(* Faults                                                                  *)

\* A process is killed, and started again.
KillFetcher(f) ==
    /\ faults < MaxFaults
    /\ faults' = faults + 1
    /\ doing[f] \notin {"idle", "have", "failed"}
    /\ interrupted' = (interrupted \/ doing[f] = "write")
    /\ Become(f, "idle")
    /\ UNCHANGED <<handle, position, cached, tmp, data, kept, names, overlapped, bodies>>

\* Every process dies, and of a file what was synced is left, and perhaps more.
CutPower(n, rest) ==
    /\ faults < MaxFaults
    /\ faults' = faults + 1
    /\ n \in names
    /\ cached' = n[1] /\ tmp' = n[2]
    /\ names' = {n}
    /\ \A i \in DOMAIN data : kept[i] \subseteq rest[i] /\ rest[i] \subseteq data[i]
    /\ data' = rest
    /\ interrupted' = (interrupted \/ \E f \in Fetchers : doing[f] = "write")
    /\ doing' = [f \in Fetchers |-> "idle"]
    /\ UNCHANGED <<handle, position, kept, overlapped, bodies>>

FetcherStep(f) ==
    \/ ReadCache(f) \/ MissCache(f) \/ Respond(f) \/ AskAgain(f)
    \/ OpenTmp(f) \/ WritePart(f) \/ SyncTmp(f) \/ ReplaceCached(f)
    \/ KillFetcher(f)

CacheNext ==
    \/ \E f \in Fetchers : FetcherStep(f)
    \/ \E n \in names, rest \in [DOMAIN data -> SUBSET Body] : CutPower(n, rest)

CacheSpec == CacheInit /\ [][CacheNext]_cacheVars

-----------------------------------------------------------------------------
(* Properties.                                                             *)

\* "Readers never see a half-written file" (_write_atomic), as far as it is true: whatever was
\* killed or cut, the cached snapshot is whole, and nobody's temporary file is gone when it is
\* to be renamed, unless a process once opened it while another was yet to rename it; and even
\* then the snapshot is whole again when the last of them has written, unless one died of it.
HalfOnlyWhenShared ==
    /\ cached # 0 /\ data[cached] # Body =>
          /\ overlapped
          /\ interrupted \/ \E f \in Fetchers : doing[f] = "write" /\ handle[f] = cached
    /\ tmp = 0 /\ (\E f \in Fetchers : doing[f] = "replace") => overlapped

=============================================================================
