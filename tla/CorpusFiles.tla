---------------------------- MODULE CorpusFiles ----------------------------
(***************************************************************************)
(* The corpus outside its tables: the snapshots of the eCFR, which any     *)
(* worker process caches, the text of a snapshot, which is parsed into     *)
(* chunks, and the lexical index, a file that one command builds of the    *)
(* chunks.  They share no state: a behaviour is about one of them.         *)
(***************************************************************************)
EXTENDS HybridSearch, SnapshotCache, SnapshotParser

VARIABLE about  \* "snapshot", "text" or "index"

filesVars == <<vars, cacheVars, parserVars, about>>

FilesInit ==
    /\ about \in {"snapshot", "text", "index"}
    /\ Init
    /\ about # "index" => chunks = {}
    /\ CacheInit
    /\ ParserInit

FilesNext ==
    \/ about = "snapshot" /\ CacheNext /\ UNCHANGED <<vars, parserVars, about>>
    \/ about = "text" /\ ParserNext /\ UNCHANGED <<vars, cacheVars, about>>
    \/ about = "index" /\ Next /\ UNCHANGED <<cacheVars, parserVars, about>>

FilesSpec == FilesInit /\ [][FilesNext]_filesVars

=============================================================================
