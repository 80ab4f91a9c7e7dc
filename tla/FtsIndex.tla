------------------------------- MODULE FtsIndex -------------------------------
(***************************************************************************)
(* Building the full-text index (fabryk-fts: builder.rs, freshness.rs,     *)
(* indexer.rs): build clears the index and fills it from one directory,    *)
(* build_append adds another, and both are skipped when a hash stored      *)
(* beside the index says that nothing changed.  Several builders may run   *)
(* at once, in one process or in many; any of them may die or give up at   *)
(* any point.                                                              *)
(***************************************************************************)
EXTENDS ContentDir

CONSTANTS
    Builders,       \* calls of build or build_append
    Extractable,    \* <<d, n>>: the extractor of d makes a document of n
    BatchSize,      \* batch_size
    MaxStarts       \* bound on the number of calls

ASSUME FtsAssumption ==
    Extractable \subseteq Dirs \X Names /\ BatchSize \in Nat /\ MaxStarts \in Nat

VARIABLES
    index,      \* what is committed: how often each document is in it
    meta,       \* fabryk-fts-metadata.json, {} if missing or unreadable
    appends,    \* fabryk-fts-appends.json, {} for a source not in it
    lock,       \* the builder that has Tantivy's writer lock, if any
    job,        \* the builders
    starts,     \* number of calls so far
    torn        \* history: the index was cleared, and not yet filled from
                \* every file, since its metadata were written

ftsVars == <<index, meta, appends, lock, job, starts, torn>>

Empty == [d \in Doc |-> 0]
IdleJob == [pc |-> "idle", dir |-> Base, forced |-> FALSE,
            hash |-> [n \in Names |-> 0], todo |-> {}, staged |-> {},
            count |-> 0, errors |-> FALSE]

Job == [pc: {"idle", "check", "scan", "rehash", "read", "save"},
        dir: Dirs, forced: BOOLEAN, hash: Listing, todo: SUBSET Names,
        staged: SUBSET Doc, count: Nat, errors: BOOLEAN]

IsBuild(b) == job[b].dir = Base

FtsInit ==
    /\ index = Empty
    /\ meta = {}
    /\ appends = [d \in Dirs \ {Base} |-> {}]
    /\ lock = {}
    /\ job = [b \in Builders |-> IdleJob]
    /\ starts = 0
    /\ torn = FALSE

-----------------------------------------------------------------------------
(* The call is made; the directory is hashed.                              *)
StartBuilder(b, d, forced) ==
    /\ job[b].pc = "idle"
    /\ starts < MaxStarts
    /\ starts' = starts + 1
    /\ job' = [job EXCEPT ![b] = [IdleJob EXCEPT !.pc = "check", !.dir = d,
                                     !.forced = forced, !.hash = HashOf(d)]]
    /\ UNCHANGED <<index, meta, appends, lock, torn, contentVars>>

(* The stored hash is the one computed: there is nothing to do.            *)
Fresh(b) ==
    /\ ~job[b].forced
    /\ IF IsBuild(b) THEN \E m \in meta : m.hash = job[b].hash
                     ELSE job[b].hash \in appends[job[b].dir]

Skip(b) ==
    /\ job[b].pc = "check" /\ Fresh(b)
    /\ job' = [job EXCEPT ![b] = IdleJob]
    /\ UNCHANGED <<index, meta, appends, lock, starts, torn, contentVars>>

(* Indexer::new takes the writer lock, or fails if another builder has it. *)
(* A build then commits an empty index.                                    *)
MutNoClear(b) ==
    /\ job[b].pc = "check" /\ ~Fresh(b) /\ lock = {}
    /\ lock' = {b}
    /\ torn' = (torn \/ IsBuild(b))
    /\ job' = [job EXCEPT ![b].pc = "scan"]
    /\ UNCHANGED <<index, meta, appends, starts, contentVars>>
OpenWriter(b) ==
    /\ job[b].pc = "check" /\ ~Fresh(b)
    /\ lock = {}
    /\ lock' = {b}
    /\ index' = IF IsBuild(b) THEN Empty ELSE index
    /\ torn' = (torn \/ IsBuild(b))
    /\ job' = [job EXCEPT ![b].pc = "scan"]
    /\ UNCHANGED <<meta, appends, starts, contentVars>>

Locked(b) ==
    /\ job[b].pc = "check" /\ ~Fresh(b)
    /\ lock # {}
    /\ job' = [job EXCEPT ![b] = IdleJob]
    /\ UNCHANGED <<index, meta, appends, lock, starts, torn, contentVars>>

(* find_files_with_extensions.                                             *)
FindFiles(b) ==
    /\ job[b].pc = "scan"
    /\ job' = [job EXCEPT ![b].todo = Present(job[b].dir),
                          ![b].pc = IF IsBuild(b) THEN "read" ELSE "rehash"]
    /\ UNCHANGED <<index, meta, appends, lock, starts, torn, contentVars>>

(* build_append stores a hash computed after the files were found.         *)
Rehash(b) ==
    /\ job[b].pc = "rehash"
    /\ job' = [job EXCEPT ![b].hash = HashOf(job[b].dir), ![b].pc = "read"]
    /\ UNCHANGED <<index, meta, appends, lock, starts, torn, contentVars>>

-----------------------------------------------------------------------------
(* One file after the other; a commit after every BatchSize documents and  *)
(* after the last.                                                         *)

Commit(docs) == [d \in Doc |-> IF d \in docs THEN index[d] + 1 ELSE index[d]]

(* The document of one more file is added, or nothing for a file the       *)
(* extractor skips.                                                        *)
DocsOfFile(b, n) ==
    IF <<job[b].dir, n>> \in Extractable
    THEN {DocOf(job[b].dir, n, content[job[b].dir])}
    ELSE {}
Staging(b, n) == job[b].staged \cup DocsOfFile(b, n)

(* A file is read if it is still there.                                    *)
MutAnyFile(b) == job[b].todo
Readable(b) == job[b].todo \cap Present(job[b].dir)

ReadFile(b, n) ==
    /\ job[b].pc = "read"
    /\ n \in Readable(b)
    /\ LET staged == Staging(b, n)
           full == DocsOfFile(b, n) # {} /\ Cardinality(staged) >= BatchSize
       IN  /\ index' = IF full THEN Commit(staged) ELSE index
           /\ job' = [job EXCEPT ![b].todo = @ \ {n},
                                 ![b].count = @ + Cardinality(DocsOfFile(b, n)),
                                 ![b].staged = IF full THEN {} ELSE staged]
    /\ UNCHANGED <<meta, appends, lock, starts, torn, contentVars>>

(* The file is gone, or cannot be read or added: an error is counted.      *)
FileFails(b, n) ==
    /\ job[b].pc = "read"
    /\ n \in job[b].todo
    /\ job' = [job EXCEPT ![b].todo = @ \ {n}, ![b].errors = TRUE]
    /\ UNCHANGED <<index, meta, appends, lock, starts, torn, contentVars>>

FinalCommit(b) ==
    /\ job[b].pc = "read" /\ job[b].todo = {}
    /\ index' = Commit(job[b].staged)
    /\ job' = [job EXCEPT ![b].staged = {}, ![b].pc = "save"]
    /\ UNCHANGED <<meta, appends, lock, starts, torn, contentVars>>

(* The metadata are written and the writer is dropped.                     *)
MutStoredHash(b) == HashOf(job[b].dir)
StoredHash(b) == job[b].hash

SaveMetadata(b) ==
    /\ job[b].pc = "save" /\ IsBuild(b)
    /\ meta' = {[hash |-> StoredHash(b), count |-> job[b].count]}
    /\ torn' = job[b].errors
    /\ lock' = {}
    /\ job' = [job EXCEPT ![b] = IdleJob]
    /\ UNCHANGED <<index, appends, starts, contentVars>>

(* A failure to save is only logged.                                       *)
SaveAppend(b) ==
    /\ job[b].pc = "save" /\ ~IsBuild(b)
    /\ appends' \in {[appends EXCEPT ![job[b].dir] = {job[b].hash}], appends}
    /\ lock' = {}
    /\ job' = [job EXCEPT ![b] = IdleJob]
    /\ UNCHANGED <<index, meta, starts, torn, contentVars>>

(* The builder dies, or returns an error from a commit or from saving:     *)
(* what is not committed is lost and the lock is released.  A file that    *)
(* was being written may be left unreadable.                               *)
Abandon(b) ==
    /\ job[b].pc # "idle"
    /\ lock' = lock \ {b}
    /\ \/ UNCHANGED <<meta, appends>>
       \/ /\ job[b].pc = "save" /\ IsBuild(b)
          /\ meta' = {}
          /\ UNCHANGED appends
       \/ /\ job[b].pc = "save" /\ ~IsBuild(b)
          /\ appends' = [d \in Dirs \ {Base} |-> {}]
          /\ UNCHANGED meta
    /\ job' = [job EXCEPT ![b] = IdleJob]
    /\ UNCHANGED <<index, starts, torn, contentVars>>

-----------------------------------------------------------------------------
BuilderStep(b) ==
    \/ Skip(b) \/ OpenWriter(b) \/ Locked(b)
    \/ FindFiles(b) \/ Rehash(b)
    \/ \E n \in Names : ReadFile(b, n) \/ FileFails(b, n)
    \/ FinalCommit(b) \/ SaveMetadata(b) \/ SaveAppend(b)

FtsStep ==
    \E b \in Builders :
       \/ \E d \in Dirs, forced \in BOOLEAN : StartBuilder(b, d, forced)
       \/ BuilderStep(b)
       \/ Abandon(b)

FtsNext == FtsStep \/ (ContentStep /\ UNCHANGED ftsVars)

FtsSpec == ContentInit /\ FtsInit /\ [][FtsNext]_<<contentVars, ftsVars>>

-----------------------------------------------------------------------------
(* Properties.                                                             *)

(* Every variable holds a value of its type.                               *)
FtsTypeOK ==
    /\ content \in [Dirs -> Listing] /\ clock \in 1..MaxClock
    /\ index \in [Doc -> Nat]
    /\ \A m \in meta : m.hash \in Listing /\ m.count \in Nat
    /\ appends \in [Dirs \ {Base} -> SUBSET Listing]
    /\ lock \subseteq Builders
    /\ job \in [Builders -> Job]
    /\ starts \in 0..MaxStarts
    /\ torn \in BOOLEAN

(* A file of the base directory is in the index at most once, in one       *)
(* version, whatever builders race and wherever they die: a build starts   *)
(* from the empty index and is alone with it (builder.rs:275).             *)
BaseIndexedOnce ==
    \A d \in Doc : d.dir = Base =>
       /\ index[d] <= 1
       /\ \A e \in Doc : e.dir = Base /\ e.name = d.name /\ e # d =>
             index[d] = 0 \/ index[e] = 0

(* When the metadata call the index fresh, and no build has been cut short *)
(* or met an error since they were written, every file is in the index as  *)
(* it is now, although files are edited while they are read: the hash is   *)
(* computed before the files are found (builder.rs:253, 286).              *)
FreshIndexIsWhole ==
    \A m \in meta :
       ~torn /\ m.hash = HashOf(Base) =>
          \A n \in Present(Base) : <<Base, n>> \in Extractable =>
             index[DocOf(Base, n, content[Base])] = 1

(* The document count that a skipped build reports is that of the index    *)
(* (builder.rs:262, 344).                                                  *)
CountIsExact ==
    \A m \in meta :
       ~torn => m.count = Cardinality({d \in Doc : d.dir = Base /\ index[d] # 0})
=============================================================================
